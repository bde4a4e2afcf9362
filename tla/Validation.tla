----------------------------- MODULE Validation -----------------------------
(***************************************************************************)
(* What Verifier.Validate promises, whatever is asked of whom: a call      *)
(* walks one name after the other, each at most once and no more than the  *)
(* limit on redirects allows.  Every walk starts at the root and goes from *)
(* a zone to one below it on the way to the name.  A redirect is taken, or *)
(* a verdict that vouches for something given, only from inside a zone the *)
(* walk has come to; a failure may end the call at any time.  Every call   *)
(* returns.                                                                *)
(***************************************************************************)
EXTENDS Names

CONSTANTS Walker, MaxAliasHops, None

VARIABLES
  name,      \* per call: the name in hand
  walked,    \* the names walked so far
  hops,      \* the redirects taken
  walking,   \* a walk is under way
  standing,  \* the zone it has come to
  outcome    \* "running", a verdict or "error"

vars == <<name, walked, hops, walking, standing, outcome>>

Vouching == {"secure", "secure-nodata", "secure-nxdomain", "insecure"}

Init ==
  /\ name \in [Walker -> Name]
  /\ walked = [w \in Walker |-> {}] /\ hops = [w \in Walker |-> 0]
  /\ walking = [w \in Walker |-> FALSE] /\ standing = [w \in Walker |-> None]
  /\ outcome = [w \in Walker |-> "running"]

Running(w) == outcome[w] = "running"

Start(w) ==
  /\ Running(w) /\ ~walking[w] /\ name[w] \notin walked[w] /\ hops[w] <= MaxAliasHops
  /\ walking' = [walking EXCEPT ![w] = TRUE]
  /\ walked' = [walked EXCEPT ![w] = @ \cup {name[w]}]
  /\ UNCHANGED <<name, hops, standing, outcome>>

EnterZone(w) ==
  /\ Running(w) /\ walking[w]
  /\ \E z \in ancestorsOf(name[w]) :
       /\ IF standing[w] = None THEN z = Root ELSE isStrictSubdomain(z, standing[w])
       /\ standing' = [standing EXCEPT ![w] = z]
  /\ UNCHANGED <<name, walked, hops, walking, outcome>>

Redirect(w) ==
  /\ Running(w) /\ standing[w] # None
  /\ name' \in [Walker -> Name] /\ name' = [name EXCEPT ![w] = name'[w]]
  /\ hops' = [hops EXCEPT ![w] = @ + 1]
  /\ walking' = [walking EXCEPT ![w] = FALSE]
  /\ standing' = [standing EXCEPT ![w] = None]
  /\ UNCHANGED <<walked, outcome>>

Return(w) ==
  /\ Running(w)
  /\ \E v \in {"bogus", "error"} \cup (IF standing[w] = None THEN {} ELSE Vouching \cup {"indeterminate"}) :
       outcome' = [outcome EXCEPT ![w] = v]
  /\ walking' = [walking EXCEPT ![w] = FALSE]
  /\ standing' = [standing EXCEPT ![w] = None]
  /\ UNCHANGED <<name, walked, hops>>

Next == \E w \in Walker : Start(w) \/ EnterZone(w) \/ Redirect(w) \/ Return(w)

Spec == Init /\ [][Next]_vars

Returns == \A w \in Walker : <>(outcome[w] # "running")
=============================================================================
