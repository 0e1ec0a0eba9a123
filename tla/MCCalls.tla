------------------------------ MODULE MCCalls ------------------------------
(* What is transmitted in the runs of Calls: two transmissions.            *)
EXTENDS Calls

CONSTANTS t1, t2, tr1, tr2

Heard(tgid, start, final, by, isFiled) ==
  [tgid |-> tgid, start |-> start, final |-> final, instance |-> by, filed |-> isFiled]

Plan(first, second, n) == [air |-> (t1 :> first) @@ (t2 :> second), restarts |-> n]

\* One talkgroup, well apart, or two talkgroups at the same time; the start of
\* the first is corrected by 6 seconds.  Its file comes in, or the process
\* restarts.
ApartPlans ==
  {Plan(Heard(1, 20, 26, tr1, FALSE), Heard(1, 50, 50, tr1, FALSE), 1),
   Plan(Heard(1, 20, 26, tr1, TRUE), Heard(2, 22, 22, tr1, FALSE), 0)}

\* One talkgroup, 6 seconds apart.
BackToBackPlans == {Plan(Heard(1, 20, 20, tr1, FALSE), Heard(1, 26, 26, tr1, FALSE), 0)}

\* Two instances of trunk-recorder, one talkgroup each.
TwoInstancePlans == {Plan(Heard(1, 20, 20, tr1, FALSE), Heard(2, 20, 20, tr2, FALSE), 0)}
=============================================================================
