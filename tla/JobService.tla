----------------------------- MODULE JobService -----------------------------
(***************************************************************************)
(* What the transcription worker pool promises its callers: a job that     *)
(* Enqueue accepted is answered exactly once, and the pool is stopped only *)
(* when no accepted job is left.  A panic may end everything before that.  *)
(***************************************************************************)
CONSTANT Jobs

VARIABLES
  phase,        \* "open" takes jobs, "draining" takes none, "stopped", "crashed"
  outstanding,  \* accepted, not answered
  answered

vars == <<phase, outstanding, answered>>

Init == phase = "open" /\ outstanding = {} /\ answered = {}

Accept(j) ==
  /\ phase = "open"
  /\ j \notin outstanding \cup answered
  /\ outstanding' = outstanding \cup {j}
  /\ UNCHANGED <<phase, answered>>

Answer(j) ==
  /\ phase \in {"open", "draining"}
  /\ j \in outstanding
  /\ outstanding' = outstanding \ {j} /\ answered' = answered \cup {j}
  /\ UNCHANGED phase

Drain ==
  /\ phase = "open" /\ phase' = "draining"
  /\ UNCHANGED <<outstanding, answered>>

Stopped ==
  /\ phase = "draining" /\ outstanding = {} /\ phase' = "stopped"
  /\ UNCHANGED <<outstanding, answered>>

Crash ==
  /\ phase # "crashed" /\ phase' = "crashed"
  /\ UNCHANGED <<outstanding, answered>>

Next == (\E j \in Jobs : Accept(j) \/ Answer(j)) \/ Drain \/ Stopped \/ Crash

Spec == Init /\ [][Next]_vars
=============================================================================
