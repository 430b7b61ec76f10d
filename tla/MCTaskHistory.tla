---------------------------- MODULE MCTaskHistory ----------------------------
(* Instances of TaskHistory for TLC. *)
EXTENDS TaskHistoryProps, TLC

OneProc == 1 :> 1

\* The process that comes later in the list started first.
TwoProcs == (1 :> 2) @@ (2 :> 1)

\* A process that holds its mmap_lock disturbs StoreStack only and no property
\* looks at it: taken earlier it is the same as taken there.
WriterMatters == writer = {} \/ tk = "stack"
=============================================================================
