------------------------------ MODULE Resolver ------------------------------
(***************************************************************************)
(* What Resolver.Resolve promises the verifier for one call: it returns    *)
(* once, with the answer of a server that can give one and that no server  *)
(* that must give one comes before, or with an error; with an error only   *)
(* if the context has ended or no server must answer.  And it returns.     *)
(***************************************************************************)
EXTENDS Naturals

VARIABLES
  must, may,  \* the servers, by number, that answer in time, or might
  ended,      \* the context has ended
  outcome     \* "pending", "failed" or "answered", and by which server

Pending == [at |-> "pending", server |-> 0]
Failed == [at |-> "failed", server |-> 0]
Answered(s) == [at |-> "answered", server |-> s]

vars == <<must, may, ended, outcome>>

Init ==
  /\ must \in SUBSET may /\ ended \in BOOLEAN /\ outcome = Pending

EndContext ==
  /\ ~ended /\ ended' = TRUE
  /\ UNCHANGED <<must, may, outcome>>

Answer ==
  /\ outcome = Pending
  /\ \E s \in may : (\A t \in must : s <= t) /\ outcome' = Answered(s)
  /\ UNCHANGED <<must, may, ended>>

Fail ==
  /\ outcome = Pending
  /\ ended \/ must = {}
  /\ outcome' = Failed
  /\ UNCHANGED <<must, may, ended>>

Next == EndContext \/ Answer \/ Fail

Spec == Init /\ [][Next]_vars

Returns == <>(outcome # Pending)
=============================================================================
