---------------------------- MODULE CoreSchedProps ---------------------------
(* Correctness of core scheduling. *)
EXTENDS CoreSched

TypeOK ==
  /\ queue \in [Cpu -> SUBSET Task] /\ core_tree \in [Cpu -> SUBSET Task]
  /\ core_cookie \in [Task -> Cookie \cup {None}]
  /\ curr \in [Cpu -> Task \cup {Idle}] /\ need_resched \in [Cpu -> BOOLEAN]
  /\ balance \subseteq Cpu /\ core_enabled \in BOOLEAN
  /\ core \in [Cpu -> Cpu] /\ picked \in [Cpu -> BOOLEAN]
  /\ sync \in [Cpu -> Cookie \cup {None}] /\ forceidle \in [Cpu -> BOOLEAN]
  /\ core_pick \in [Cpu -> Task \cup {Idle, None}] /\ unsched \in [Cpu -> BOOLEAN]
  /\ hp \in [Cpu -> {"up", "leaving", "dying", "dead"}]
  /\ stale \in BOOLEAN

(* "There is no inter-sibling overlap between non-matching user state":    *)
(* when two CPUs of a core run tasks with different cookies, one of them   *)
(* has been told to reschedule.                                            *)
CookiesMatch ==
  ~stale => \A c, d \in Smt :
    curr[c] # Idle /\ curr[d] # Idle /\ core_cookie[curr[c]] # core_cookie[curr[d]] =>
      need_resched[c] \/ need_resched[d]

(* "The task pointers are all still valid": the task that the fast path of *)
(* pick_next_task() would take is queued on that CPU.                      *)
PicksAreValid ==
  \A c \in Smt :
    core_enabled /\ Stored(c, picked[core[c]]) => core_pick[c] \in queue[c] \cup {Idle}

(* The tree of a runqueue holds the tasks with a cookie that are queued    *)
(* there; while core scheduling is off there are none, and the WARN of     *)
(* sched_core_assert_empty() does not fire.                                *)
TreeIsCookied ==
  /\ \A c \in Cpu : core_tree[c] = {t \in queue[c] : core_cookie[t] # None}
  /\ ~core_enabled => \A c \in Cpu : core_tree[c] = {}

(* The stored picks are valid, and a CPU runs what is queued on it and on  *)
(* no other CPU, as long as core scheduling is not turned off and on while *)
(* a CPU has a selection stored; the trees are right even then.            *)
PicksStayValid ==
  /\ TreeIsCookied
  /\ ~stale => /\ PicksAreValid
               /\ \A c \in Cpu : curr[c] \in queue[c] \cup {Idle}
               /\ \A c, d \in Cpu : c # d => queue[c] \cap queue[d] = {}
=============================================================================
