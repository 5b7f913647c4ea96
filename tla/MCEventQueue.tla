----------------------------- MODULE MCEventQueue -----------------------------
(* Small instances of EventQueue: every queue holds one event. *)
EXTENDS EventQueue
CONSTANTS r1, r2
OneEach == [p \in Priorities |-> 1]
=============================================================================
