------------------------------- MODULE MCUclamp ------------------------------
(* Instances of Uclamp for TLC. *)
EXTENDS UclampProps, TLC

CONSTANTS t1, t2, t3, c1, root, g1, g2

Line == (g1 :> root) @@ (g2 :> g1)
Path == (root :> {root}) @@ (g1 :> {g1, root}) @@ (g2 :> {g2, g1, root})
Places == (t1 :> g1) @@ (t2 :> root)

Arg(pol, util) == [policy |-> pol, util |-> util]

\* sched_setscheduler() to either policy; clamps raised and reset; a
\* class change that lowers a clamp in the same call
Calls == {Arg("fair", <<>>), Arg("rt", <<>>),
          Arg("keep", "min" :> 2), Arg("keep", "min" :> -1), Arg("rt", "max" :> 1)}

\* One value of the realtime default is refused, and does not fit the bit field.
Knobs == [min |-> {0, 1}, max |-> {1}, rt |-> {1, 4}]

OneOrTwo == {{t1}, {t1, t2}}

\* Without groups; all tasks exist.
NoParent == [g \in {} |-> root]
RootPath == root :> {root}
InRoot == [t \in Task |-> root]
AllTasks == {Task}

\* A task changes its policy to and fro while the realtime default is rewritten.
Policies == {Arg("fair", <<>>), Arg("rt", <<>>)}
RtKnob == [min |-> {}, max |-> {}, rt |-> {1}]

\* Two requests for boost, and one taken from a realtime default that wraps to 0.
TwoBoosts == {Arg("keep", "min" :> 1), Arg("keep", "min" :> 2), Arg("rt", <<>>)}
RtOverflow == [min |-> {}, max |-> {}, rt |-> {8}]
=============================================================================
