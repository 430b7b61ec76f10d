----------------------------- MODULE ScheduleLog ----------------------------
(***************************************************************************)
(* What the schedule() tracer promises: a log of the last M context        *)
(* switches, each written in one step, age 1 being the newest.             *)
(***************************************************************************)
EXTENDS Naturals

CONSTANTS CPU, Task, M, None

VARIABLES running,  \* running[c]: the task CPU c runs
          log       \* log[a]: the switch of age a, None if there was none

logVars == <<running, log>>

Switch == [cpu : CPU, prev : Task, next : Task]
Age == 1 .. M

Init ==
  /\ running \in [CPU -> Task]
  /\ log = [a \in Age |-> None]

\* CPU c leaves running[c] for t; everything in the log gets one older.
SwitchTo(c, t) ==
  /\ running' = [running EXCEPT ![c] = t]
  /\ log' = [a \in Age |-> IF a = 1
                             THEN [cpu |-> c, prev |-> running[c], next |-> t]
                             ELSE log[a - 1]]

Next == \E c \in CPU, t \in Task : SwitchTo(c, t)

Spec == Init /\ [][Next]_logVars

-----------------------------------------------------------------------------
TypeOK ==
  /\ running \in [CPU -> Task]
  /\ log \in [Age -> Switch \cup {None}]

IsOf(c, a) == log[a] # None /\ log[a].cpu = c

(* The chain the report of assignment 1 looks for in the output: on each   *)
(* CPU the task a switch brought in is the one the CPU's next switch takes *)
(* out, and its newest switch brought in the task it runs now.             *)
Chained ==
  \A c \in CPU : \A b \in Age : IsOf(c, b) =>
    /\ (\A a \in 1 .. b - 1 : ~IsOf(c, a)) => log[b].next = running[c]
    /\ \A a \in 1 .. b - 1 :
         IsOf(c, a) /\ (\A m \in a + 1 .. b - 1 : ~IsOf(c, m))
           => log[b].next = log[a].prev
=============================================================================
