---------------------------- MODULE ChainProofs ----------------------------
(***************************************************************************)
(* Proofs about the way the walk takes: that it implements Validation,     *)
(* that the chain of its result is a path of trust which only grows and,   *)
(* when it breaks, ends where it broke, and that a call finds in the cache *)
(* what it has had answered.                                               *)
(* The shapes of a step are those of WalkProofs.                           *)
(***************************************************************************)
EXTENDS WalkProofs

-----------------------------------------------------------------------------
\* Where a walk stands.

\* The zone a walk stands in is above the name in hand and above the cut
\* probed next; the leaf is resolved when no label is left.
Position(w) ==
  /\ phase[w] \in {"descend", "ds", "keys", "leaf"} =>
       cur[w] \in ancestorsOf(qname[w]) /\ Len(cur[w]) < depth[w] /\ depth[w] <= Len(qname[w]) + 1
  /\ phase[w] = "leaf" => depth[w] = Len(qname[w]) + 1

\* A zone is entered below the one the walk stands in.
LEMMA ChildIsBelow ==
  ASSUME TypeOK, NEW w \in Walker, phase[w] \in {"ds", "keys"}, Position(w)
  PROVE  childName(w) \in ancestorsOf(qname[w]) /\ isStrictSubdomain(childName(w), cur[w])
PROOF
  <1>1. qname[w] \in Name /\ Len(qname[w]) \in Nat /\ depth[w] \in Nat /\ depth[w] <= Len(qname[w])
    BY DEF TypeOK, CallType, ControlType, Name
  <1>2. cur[w] \in ancestorsOf(qname[w]) /\ Len(cur[w]) < depth[w]
    BY DEF Position
  <1>3. cur[w] = LastNLabels(qname[w], Len(cur[w])) /\ Len(cur[w]) \in 0..Len(qname[w])
    BY <1>1, <1>2, AncestorIsPrefix
  <1>4. depth[w] \in 0..Len(qname[w])
    BY <1>1
  <1>5. isStrictSubdomain(LastNLabels(qname[w], depth[w]), LastNLabels(qname[w], Len(cur[w])))
    BY <1>1, <1>2, <1>3, <1>4, DeeperIsBelow
  <1>. QED BY <1>3, <1>4, <1>5 DEF childName, ancestorsOf

\* Every step keeps the walk on the way to its name.
LEMMA ShapePosition ==
  ASSUME TypeOK, NEW w \in Walker, phase[w] # "done", Position(w), Shape(w)
  PROVE  Position(w)'
PROOF
  <1>1. qname[w] \in Name /\ Len(qname[w]) \in Nat /\ depth[w] \in Nat /\ cur[w] \in Name
    BY DEF TypeOK, CallType, Name
  <1>2. CASE phase'[w] \in {"hop", "root", "done"}
    BY <1>2 DEF Position
  <1>3. CASE Loads(w)
    BY <1>3 DEF Loads, Same, Position
  <1>4. CASE Probes(w)
    <2>1. phase[w] = "ds" => depth[w] <= Len(qname[w])
      BY DEF TypeOK, ControlType
    <2>. QED BY <1>1, <1>4, <2>1 DEF Probes, Loaded, Same, Position
  <1>5. CASE Enters(w)
    <2>1. PICK name \in Name :
            /\ \/ phase[w] = "root" /\ name = Root
               \/ phase[w] = "keys" /\ name = childName(w)
            /\ phase'[w] = "descend" /\ cur'[w] = name /\ depth'[w] = Len(name) + 1
            /\ qname'[w] = qname[w]
      BY <1>5 DEF Enters
    <2>2. name \in ancestorsOf(qname[w])
      <3>1. CASE phase[w] = "root"
        BY <1>1, <2>1, <3>1, SelfAndRoot
      <3>2. CASE phase[w] = "keys"
        BY <2>1, <3>2, ChildIsBelow
      <3>. QED BY <2>1, <3>1, <3>2
    <2>3. Len(name) \in 0..Len(qname[w])
      BY <1>1, <2>2, AncestorIsPrefix
    <2>. QED BY <1>1, <2>1, <2>2, <2>3 DEF Position
  <1>6. CASE Starts(w) \/ Follows(w) \/ Returns(w)
    BY <1>2, <1>6 DEF Starts, Follows, Returns
  <1>. QED BY <1>3, <1>4, <1>5, <1>6, ReturnsShape DEF Shape

Positions == \A w \in Walker : Position(w)

LEMMA InitPositions == Init => Positions
PROOF BY DEF Init, Positions, Position

LEMMA NextPositions == TypeOK /\ Positions /\ [Next]_vars => Positions'
PROOF
  <1>. SUFFICES ASSUME TypeOK, Positions, [Next]_vars, NEW v \in Walker PROVE Position(v)'
    BY DEF Positions
  <1>1. Position(v)
    BY DEF Positions
  <1>2. CASE Untouched(v)
    BY <1>1, <1>2 DEF Untouched, Position
  <1>. QED BY <1>1, <1>2, StepOrStay, ShapePosition

\* A walk stands above its name, zone by zone.
LEMMA PositionsHold == Spec => []Positions
PROOF BY TypeCorrect, InitPositions, NextPositions, PTL DEF Spec

-----------------------------------------------------------------------------
\* The walk implements Validation.

\* What a call returns: an error, Bogus, or from inside a zone a verdict.
LEMMA ReturnedOutcome ==
  ASSUME TypeOK, NEW w \in Walker, phase[w] # "done", Decision(w),
         \/ ReturnsError(w) \/ ReturnsLoop(w) \/ ReturnsBogusZone(w) \/ ReturnsBogusData(w)
         \/ ReturnsVerdict(w)
  PROVE  \/ res'[w].err # "nil"
         \/ res'[w].err = "nil" /\ res'[w].verdict = "bogus"
         \/ /\ phase[w] \in {"ds", "leaf"} /\ res'[w].err = "nil"
            /\ res'[w].verdict \in Promise!Vouching \cup {"indeterminate"}
PROOF
  <1>1. res[w] \in Result /\ Undecided(res[w]) /\ cur[w] \in Name
    BY DEF TypeOK, CallType, Decision
  <1>2. ASSUME NEW r \in Result, Undecided(r)
        PROVE  /\ \A at, code : LET s == bogusOutcome(r, at, code) IN s.err = "nil" /\ s.verdict = "bogus"
               /\ \A at, code : LET s == setBogus(r, at, code) IN s.err = "nil" /\ s.verdict = "bogus"
               /\ \A at : LET s == insecureOutcome(r, at) IN s.err = "nil" /\ s.verdict = "insecure"
               /\ \A a, n : LET s == secureOutcome(r, a, n) IN s.err = "nil" /\ s.verdict = "secure"
               /\ \A v \in Verdict : LET s == applyOutcome(r, v) IN s.err = "nil" /\ s.verdict = v
    <2>1. \A v \in Verdict : applyOutcome(r, v) = [r EXCEPT !.verdict = v, !.combined = v]
      BY <1>2, UndecidedCombines
    <2>2. /\ applyOutcome(r, "bogus") = [r EXCEPT !.verdict = "bogus", !.combined = "bogus"]
          /\ applyOutcome(r, "insecure") = [r EXCEPT !.verdict = "insecure", !.combined = "insecure"]
          /\ applyOutcome(r, "secure") = [r EXCEPT !.verdict = "secure", !.combined = "secure"]
      BY <2>1 DEF Verdict
    <2>3. \A v \in Verdict : LET s == applyOutcome(r, v) IN s.err = "nil" /\ s.verdict = v
      <3>. SUFFICES ASSUME NEW v \in Verdict
                    PROVE  applyOutcome(r, v).err = "nil" /\ applyOutcome(r, v).verdict = v
        OBVIOUS
      <3>. QED BY <1>2, <2>1 DEF Undecided, Result
    <2>4. \A at, code : LET s == setBogus(r, at, code) IN s.err = "nil" /\ s.verdict = "bogus"
      BY <1>2 DEF setBogus, Undecided, Result
    <2>5. \A at, code : LET s == bogusOutcome(r, at, code) IN s.err = "nil" /\ s.verdict = "bogus"
      BY <1>2, <2>2 DEF bogusOutcome, Undecided, Result
    <2>6. \A at : LET s == insecureOutcome(r, at) IN s.err = "nil" /\ s.verdict = "insecure"
      BY <1>2, <2>2 DEF insecureOutcome, Undecided, Result
    <2>7. \A a, n : LET s == secureOutcome(r, a, n) IN s.err = "nil" /\ s.verdict = "secure"
      BY <1>2, <2>2 DEF secureOutcome, Undecided, Result
    <2>. QED BY <2>3, <2>4, <2>5, <2>6, <2>7
  <1>3. \A name \in Name, sigs \in SUBSET Outcome :
          LET s == addStep(res[w], name, FALSE, sigs) IN s \in Result /\ Undecided(s)
    BY <1>1, AddStepKeeps, AddStepUndecided
  <1>4. CASE ReturnsError(w)
    BY <1>1, <1>4 DEF ReturnsError, Returning, failed, uncheckable, Result
  <1>5. CASE ReturnsLoop(w)
    BY <1>1, <1>2, <1>5 DEF ReturnsLoop, Returning
  <1>6. CASE ReturnsBogusZone(w)
    <2>1. PICK name \in Name, sigs \in SUBSET Outcome, code \in Failure :
            res'[w] = bogusOutcome(addStep(res[w], name, FALSE, sigs), name, code)
      BY <1>6 DEF ReturnsBogusZone, Returning
    <2>. DEFINE s == addStep(res[w], name, FALSE, sigs)
    <2>2. s \in Result /\ Undecided(s) /\ res'[w] = bogusOutcome(s, name, code)
      BY <1>3, <2>1
    <2>. HIDE DEF s
    <2>. QED BY <1>2, <2>2
  <1>7. CASE ReturnsBogusData(w)
    <2>1. PICK sigs \in SUBSET Outcome, code \in Failure :
            res'[w] = bogusOutcome(addStep(res[w], cur[w], FALSE, sigs), cur[w], code)
      BY <1>7 DEF ReturnsBogusData, Returning
    <2>. DEFINE s == addStep(res[w], cur[w], FALSE, sigs)
    <2>2. s \in Result /\ Undecided(s) /\ res'[w] = bogusOutcome(s, cur[w], code)
      BY <1>1, <1>3, <2>1
    <2>. HIDE DEF s
    <2>. QED BY <1>2, <2>2
  <1>8. CASE ReturnsVerdict(w)
    <2>1. phase[w] \in {"ds", "leaf"}
      BY <1>8 DEF ReturnsVerdict
    <2>2. CASE \E v \in {"secure-nodata", "secure-nxdomain", "indeterminate"} :
                 Returning(w, applyOutcome(res[w], v))
      <3>1. \A v \in {"secure-nodata", "secure-nxdomain", "indeterminate"} : v \in Verdict
        BY DEF Verdict
      <3>. QED BY <1>1, <1>2, <2>1, <2>2, <3>1 DEF Returning, Promise!Vouching
    <2>3. CASE Returning(w, insecureOutcome(res[w], childName(w)))
      BY <1>1, <1>2, <2>1, <2>3 DEF Returning, Promise!Vouching
    <2>4. ASSUME NEW sigs \in SUBSET Outcome, NEW answer, NEW wildcard,
                 Returning(w, secureOutcome(addStep(res[w], cur[w], FALSE, sigs), answer, wildcard))
          PROVE  res'[w].err = "nil" /\ res'[w].verdict = "secure"
      <3>. DEFINE s == addStep(res[w], cur[w], FALSE, sigs)
      <3>1. s \in Result /\ Undecided(s) /\ res'[w] = secureOutcome(s, answer, wildcard)
        BY <1>1, <1>3, <2>4 DEF Returning
      <3>. HIDE DEF s
      <3>. QED BY <1>2, <3>1
    <2>. QED BY <1>8, <2>1, <2>2, <2>3, <2>4 DEF ReturnsVerdict, Promise!Vouching
  <1>. QED BY <1>4, <1>5, <1>6, <1>7, <1>8

\* What a step of one call changes of Validation's variables, it changes at that call.
LEMMA ChangesAtCall ==
  ASSUME TypeOK, TypeOK', NEW w \in Walker, \A v \in Walker : v # w => Untouched(v)
  PROVE  /\ qname' = [qname EXCEPT ![w] = qname'[w]] /\ seen' = [seen EXCEPT ![w] = seen'[w]]
         /\ hop' = [hop EXCEPT ![w] = hop'[w]]
         /\ Walking' = [Walking EXCEPT ![w] = phase'[w] \notin {"hop", "done"}]
         /\ Standing' = [Standing EXCEPT ![w] =
                           IF phase'[w] \in {"hop", "root", "done"} THEN None ELSE cur'[w]]
         /\ Outcomes' = [Outcomes EXCEPT ![w] = outcomeOf(w)']
PROOF
  <1>1. /\ qname \in [Walker -> Name] /\ qname' \in [Walker -> Name]
        /\ seen \in [Walker -> SUBSET Name] /\ seen' \in [Walker -> SUBSET Name]
        /\ hop \in [Walker -> 0..(MaxAliasHops + 1)] /\ hop' \in [Walker -> 0..(MaxAliasHops + 1)]
    BY DEF TypeOK, CallType
  <1>2. \A v \in Walker : v # w => /\ qname'[v] = qname[v] /\ seen'[v] = seen[v] /\ hop'[v] = hop[v]
                                   /\ phase'[v] = phase[v] /\ cur'[v] = cur[v] /\ res'[v] = res[v]
    BY DEF Untouched
  <1>3. qname' = [qname EXCEPT ![w] = qname'[w]]
    BY <1>1, <1>2
  <1>4. seen' = [seen EXCEPT ![w] = seen'[w]]
    BY <1>1, <1>2
  <1>5. hop' = [hop EXCEPT ![w] = hop'[w]]
    BY <1>1, <1>2
  <1>6. Walking' = [Walking EXCEPT ![w] = phase'[w] \notin {"hop", "done"}]
    BY <1>2, Zenon DEF Walking
  <1>7. Standing' = [Standing EXCEPT ![w] =
                       IF phase'[w] \in {"hop", "root", "done"} THEN None ELSE cur'[w]]
    BY <1>2 DEF Standing
  <1>8. Outcomes' = [Outcomes EXCEPT ![w] = outcomeOf(w)']
    BY <1>2 DEF Outcomes, outcomeOf
  <1>. QED BY <1>3, <1>4, <1>5, <1>6, <1>7, <1>8

\* Names are the same to Validation.
LEMMA SameNames ==
  /\ Promise!Name = Name /\ Promise!Root = Root
  /\ \A n : Promise!ancestorsOf(n) = ancestorsOf(n)
  /\ \A a, b : Promise!isStrictSubdomain(a, b) <=> isStrictSubdomain(a, b)
PROOF BY DEF Promise!Name, Name, Promise!Root, Root, Promise!ancestorsOf, ancestorsOf,
             Promise!LastNLabels, LastNLabels, Promise!isStrictSubdomain, isStrictSubdomain,
             Promise!isAtOrBelow, isAtOrBelow

\* A step of a call is a step of Validation or none.
LEMMA ShapeImplements ==
  ASSUME TypeOK, TypeOK', NEW w \in Walker, \A v \in Walker : v # w => Untouched(v),
         phase[w] # "done", Shape(w), Decision(w), Position(w)
  PROVE  [Promise!Next]_(Promise!vars)
PROOF
  <1>1. /\ qname[w] \in Name /\ cur[w] \in Name /\ hop[w] \in Nat
        /\ qname'[w] \in Name /\ qname' \in [Walker -> Name]
        /\ phase[w] \in {"hop", "root", "descend", "ds", "keys", "leaf", "done"}
    BY BoundsAssumption DEF TypeOK, CallType
  <1>2. /\ qname' = [qname EXCEPT ![w] = qname'[w]] /\ seen' = [seen EXCEPT ![w] = seen'[w]]
        /\ hop' = [hop EXCEPT ![w] = hop'[w]]
        /\ Walking' = [Walking EXCEPT ![w] = phase'[w] \notin {"hop", "done"}]
        /\ Standing' = [Standing EXCEPT ![w] =
                          IF phase'[w] \in {"hop", "root", "done"} THEN None ELSE cur'[w]]
        /\ Outcomes' = [Outcomes EXCEPT ![w] = outcomeOf(w)']
    BY ChangesAtCall
  <1>3. /\ Walking[w] = (phase[w] \notin {"hop", "done"})
        /\ Standing[w] = IF phase[w] \in {"hop", "root"} THEN None ELSE cur[w]
        /\ Outcomes[w] = "running"
    BY DEF Walking, Standing, Outcomes, outcomeOf
  <1>4. /\ Standing = [Standing EXCEPT ![w] = Standing[w]]
        /\ Outcomes = [Outcomes EXCEPT ![w] = Outcomes[w]]
        /\ Walking = [Walking EXCEPT ![w] = Walking[w]]
        /\ qname = [qname EXCEPT ![w] = qname[w]] /\ seen = [seen EXCEPT ![w] = seen[w]]
        /\ hop = [hop EXCEPT ![w] = hop[w]]
    BY DEF Standing, Outcomes, Walking, TypeOK, CallType
  <1>5. phase'[w] # "done" => Outcomes' = Outcomes
    <2>1. phase'[w] # "done" => outcomeOf(w)' = "running"
      BY DEF outcomeOf
    <2>. QED BY <1>2, <1>3, <1>4, <2>1
  <1>6. CASE Starts(w)
    <2>1. /\ phase[w] = "hop" /\ phase'[w] = "root" /\ seen'[w] = seen[w] \cup {qname[w]}
          /\ qname[w] \notin seen[w] /\ hop[w] <= MaxAliasHops
          /\ qname'[w] = qname[w] /\ hop'[w] = hop[w]
      BY <1>6 DEF Starts
    <2>2. Walking' = [Walking EXCEPT ![w] = TRUE]
      BY <1>2, <2>1
    <2>3. /\ seen' = [seen EXCEPT ![w] = seen[w] \cup {qname[w]}] /\ qname' = qname /\ hop' = hop
      BY <1>2, <1>4, <2>1
    <2>4. Standing' = Standing /\ Outcomes' = Outcomes
      BY <1>2, <1>3, <1>4, <1>5, <2>1
    <2>5. Promise!Start(w)
      BY <1>3, <2>1, <2>2, <2>3, <2>4 DEF Promise!Start, Promise!Running
    <2>. QED BY <2>5 DEF Promise!Next
  <1>7. CASE Loads(w) \/ Probes(w)
    <2>1. /\ Same(w) /\ phase[w] \notin {"hop", "done"} /\ phase'[w] \notin {"hop", "done"}
          /\ phase'[w] = "root" <=> phase[w] = "root"
      BY <1>7 DEF Loads, Probes, Loaded
    <2>2. Walking' = Walking
      BY <1>2, <1>3, <1>4, <2>1
    <2>3. Standing' = Standing
      BY <1>2, <1>3, <1>4, <2>1 DEF Same
    <2>4. qname' = qname /\ seen' = seen /\ hop' = hop
      BY <1>2, <1>4, <2>1 DEF Same
    <2>. QED BY <1>5, <2>1, <2>2, <2>3, <2>4 DEF Promise!vars
  <1>8. CASE Enters(w)
    <2>1. PICK name \in Name :
            /\ \/ phase[w] = "root" /\ name = Root
               \/ phase[w] = "keys" /\ name = childName(w)
            /\ phase'[w] = "descend" /\ cur'[w] = name
            /\ qname'[w] = qname[w] /\ hop'[w] = hop[w] /\ seen'[w] = seen[w]
      BY <1>8 DEF Enters
    <2>2. /\ name \in ancestorsOf(qname[w])
          /\ IF Standing[w] = None THEN name = Root ELSE isStrictSubdomain(name, Standing[w])
      <3>1. CASE phase[w] = "root"
        BY <1>1, <1>3, <2>1, <3>1, SelfAndRoot
      <3>2. CASE phase[w] = "keys"
        BY <1>1, <1>3, <2>1, <3>2, ChildIsBelow, NoneAssumption
      <3>. QED BY <2>1, <3>1, <3>2
    <2>3. Standing' = [Standing EXCEPT ![w] = name]
      BY <1>2, <2>1
    <2>4. Walking[w] /\ Walking' = Walking
      BY <1>2, <1>3, <1>4, <2>1
    <2>5. qname' = qname /\ seen' = seen /\ hop' = hop
      BY <1>2, <1>4, <2>1
    <2>6. Promise!EnterZone(w)
      <3>1. /\ name \in Promise!ancestorsOf(qname[w])
            /\ IF Standing[w] = None THEN name = Promise!Root
               ELSE Promise!isStrictSubdomain(name, Standing[w])
        BY <2>2, SameNames
      <3>2. Outcomes[w] = "running" /\ Outcomes' = Outcomes
        BY <1>3, <1>5, <2>1
      <3>. QED BY <2>3, <2>4, <2>5, <3>1, <3>2 DEF Promise!EnterZone, Promise!Running
    <2>. QED BY <2>6 DEF Promise!Next
  <1>9. CASE Follows(w)
    <2>1. phase[w] = "leaf" /\ phase'[w] = "hop" /\ hop'[w] = hop[w] + 1 /\ seen'[w] = seen[w]
      BY <1>9, FollowsAppends
    <2>2. Standing[w] # None
      BY <1>1, <1>3, <2>1, NoneAssumption
    <2>3. Standing' = [Standing EXCEPT ![w] = None]
      BY <1>2, <2>1
    <2>4. Walking' = [Walking EXCEPT ![w] = FALSE]
      BY <1>2, <2>1
    <2>5. seen' = seen /\ hop' = [hop EXCEPT ![w] = hop[w] + 1] /\ qname' = [qname EXCEPT ![w] = qname'[w]]
      BY <1>2, <1>4, <2>1
    <2>6. Promise!Redirect(w)
      BY <1>1, <1>3, <1>5, <2>1, <2>2, <2>3, <2>4, <2>5, SameNames DEF Promise!Redirect, Promise!Running
    <2>. QED BY <2>6 DEF Promise!Next
  <1>10. CASE \/ ReturnsError(w) \/ ReturnsLoop(w) \/ ReturnsBogusZone(w) \/ ReturnsBogusData(w)
              \/ ReturnsVerdict(w)
    <2>1. phase'[w] = "done" /\ Same(w)
      BY <1>10, ReturnsShape DEF Returns
    <2>2. Standing' = [Standing EXCEPT ![w] = None]
      BY <1>2, <2>1
    <2>3. Walking' = [Walking EXCEPT ![w] = FALSE]
      BY <1>2, <2>1
    <2>4. qname' = qname /\ seen' = seen /\ hop' = hop
      BY <1>2, <1>4, <2>1 DEF Same
    <2>5. outcomeOf(w)' \in {"bogus", "error"} \cup
            (IF Standing[w] = None THEN {} ELSE Promise!Vouching \cup {"indeterminate"})
      <3>1. outcomeOf(w)' = IF res'[w].err # "nil" THEN "error" ELSE res'[w].verdict
        BY <2>1 DEF outcomeOf
      <3>2. phase[w] \in {"ds", "leaf"} => Standing[w] # None
        BY <1>1, <1>3, NoneAssumption
      <3>. QED BY <1>10, <3>1, <3>2, ReturnedOutcome
    <2>6. Promise!Return(w)
      BY <1>2, <1>3, <2>2, <2>3, <2>4, <2>5 DEF Promise!Return, Promise!Running
    <2>. QED BY <2>6 DEF Promise!Next
  <1>. QED BY <1>6, <1>7, <1>8, <1>9, <1>10 DEF Shape

\* Every step of the system is a step of Validation or none.
LEMMA NextImplements ==
  TypeOK /\ TypeOK' /\ Decisions /\ Positions /\ [Next]_vars => [Promise!Next]_(Promise!vars)
PROOF
  <1>. SUFFICES ASSUME TypeOK, TypeOK', Decisions, Positions, [Next]_vars
                PROVE  [Promise!Next]_(Promise!vars)
    OBVIOUS
  <1>1. ASSUME NEW w \in Walker, Validate(w) PROVE [Promise!Next]_(Promise!vars)
    <2>1. phase[w] # "done" /\ Shape(w) /\ Decision(w) /\ Position(w)
      BY <1>1, StepShape, StepRuns DEF Decisions, Positions
    <2>2. \A v \in Walker : v # w => Untouched(v)
      BY <1>1, ValidateUntouched
    <2>. QED BY <2>1, <2>2, ShapeImplements
  <1>2. ASSUME UNCHANGED <<phase, qname, hop, seen, cur, res>> PROVE [Promise!Next]_(Promise!vars)
    BY <1>2 DEF Promise!vars, Walking, Standing, Outcomes, outcomeOf
  <1>. QED BY <1>1, <1>2 DEF Next, Expire, Republish, Tick, Finished, calls, vars

\* Calls start as Validation says.
LEMMA InitImplements == Init => Promise!Init
PROOF
  <1>. SUFFICES ASSUME Init PROVE Promise!Init
    OBVIOUS
  <1>1. TypeOK
    BY InitType
  <1>2. qname \in [Walker -> Name]
    BY <1>1 DEF TypeOK, CallType
  <1>3. seen = [w \in Walker |-> {}] /\ hop = [w \in Walker |-> 0]
    BY DEF Init
  <1>4. \A w \in Walker : phase[w] = "hop"
    BY DEF Init
  <1>5. Walking = [w \in Walker |-> FALSE]
    BY <1>4 DEF Walking
  <1>6. Standing = [w \in Walker |-> None]
    BY <1>4 DEF Standing
  <1>7. Outcomes = [w \in Walker |-> "running"]
    BY <1>4 DEF Outcomes, outcomeOf
  <1>. QED BY <1>2, <1>3, <1>5, <1>6, <1>7, SameNames DEF Promise!Init

(***************************************************************************)
(* The walk, whatever its queries, its cache, its faults and the other     *)
(* calls do, makes only the moves Validation allows: no name is walked     *)
(* twice, zones are entered downwards from the root on every hop, and      *)
(* verdicts and redirects come only from inside a zone.                    *)
(* (Verifier.Validate)                                                     *)
(***************************************************************************)
THEOREM WalkImplementsValidation == Spec => ImplementsValidation
PROOF
  <1>1. Spec => []TypeOK /\ []Decisions /\ []Positions
    BY TypeCorrect, DecisionsHold, PositionsHold, PTL
  <1>. QED BY <1>1, InitImplements, NextImplements, PTL DEF Spec, Promise!Spec, ImplementsValidation

-----------------------------------------------------------------------------
\* Chains.

\* The chain has a step of that zone.
Has(chain, name) == \E i \in DOMAIN chain : chain[i].zone = name

\* new is old with the checks added to the step of the zone.
Merged(old, new) ==
  /\ Len(new) = Len(old) /\ DOMAIN new = DOMAIN old
  /\ \A i \in DOMAIN old :
       /\ new[i].zone = old[i].zone /\ new[i].signed = old[i].signed
       /\ old[i].sigs \subseteq new[i].sigs

\* new is old with a step at the end.
Extended(old, new, name, signed, sigs) ==
  /\ Len(new) = Len(old) + 1 /\ DOMAIN new = 1..(Len(old) + 1)
  /\ \A i \in DOMAIN old : new[i] = old[i]
  /\ new[Len(old) + 1] = [zone |-> name, signed |-> signed, sigs |-> sigs]

\* A zone met again gains checks, another zone gets a step at the end.
LEMMA AddStepChain ==
  ASSUME NEW r \in Result, NEW name \in Name, NEW signed \in BOOLEAN, NEW sigs \in SUBSET Outcome
  PROVE  LET new == addStep(r, name, signed, sigs).chain
         IN  IF Has(r.chain, name) THEN Merged(r.chain, new)
             ELSE Extended(r.chain, new, name, signed, sigs)
PROOF
  <1>. DEFINE old == r.chain
              new == addStep(r, name, signed, sigs).chain
              step == [zone |-> name, signed |-> signed, sigs |-> sigs]
              at == {i \in DOMAIN old : old[i].zone = name}
              wider == [i \in DOMAIN old |->
                          IF i \in at THEN [old[i] EXCEPT !.sigs = old[i].sigs \cup sigs] ELSE old[i]]
  <1>1. old \in Seq(Step) /\ step \in Step
    BY DEF Result, Step
  <1>2. DOMAIN old = 1..Len(old) /\ Len(old) \in Nat
    BY <1>1, LenProperties
  <1>3. \A i \in DOMAIN old : old[i] \in Step
    BY <1>1, <1>2, ElementOfSeq
  <1>4. CASE Has(old, name)
    <2>1. addStep(r, name, signed, sigs) = [r EXCEPT !.chain = wider]
      BY <1>4 DEF addStep, Has
    <2>2. new = wider
      <3>. HIDE DEF wider
      <3>. QED BY <2>1 DEF Result
    <2>3. Len(wider) = Len(old) /\ DOMAIN wider = DOMAIN old
      BY <1>2
    <2>4. ASSUME NEW i \in DOMAIN old
          PROVE  /\ wider[i].zone = old[i].zone /\ wider[i].signed = old[i].signed
                 /\ old[i].sigs \subseteq wider[i].sigs
      BY <1>3, <2>4 DEF Step
    <2>. HIDE DEF wider, new, old
    <2>5. Merged(old, new)
      BY <2>2, <2>3, <2>4 DEF Merged
    <2>. QED BY <1>4, <2>5 DEF old, new
  <1>5. CASE ~Has(old, name)
    <2>1. addStep(r, name, signed, sigs) = [r EXCEPT !.chain = Append(old, step)]
      BY <1>5 DEF addStep, Has
    <2>2. new = Append(old, step)
      BY <2>1 DEF Result
    <2>. HIDE DEF old, new
    <2>3. Extended(old, new, name, signed, sigs)
      <3>. HIDE DEF step
      <3>1. /\ Len(new) = Len(old) + 1 /\ DOMAIN new = 1..(Len(old) + 1)
            /\ \A i \in 1..Len(old) : new[i] = old[i]
            /\ new[Len(old) + 1] = step
        BY <1>1, <1>2, <2>2, AppendProperties
      <3>. QED BY <1>2, <3>1 DEF Extended, step
    <2>. QED BY <1>5, <2>3 DEF old, new
  <1>. QED BY <1>4, <1>5

\* The chain stays, or gains a step or checks for the zone in question; a
\* step is signed only when the zone is entered, its DNSKEYs verified.
Steps(w) ==
  \E name \in Name, signed \in BOOLEAN, sigs \in SUBSET Outcome :
    /\ StepAt(w, name)
    /\ signed => /\ phase[w] \in {"root", "keys"} /\ Verified(sigs, name, "DNSKEY")
                 /\ phase[w] = "keys" => dsSigs[w] \subseteq sigs
                 /\ phase'[w] = "descend" /\ cur'[w] = name
    /\ ~signed => phase'[w] = "done" \/ (phase[w] = "leaf" /\ phase'[w] = "hop")
    /\ IF Has(res[w].chain, name) THEN Merged(res[w].chain, res'[w].chain)
       ELSE Extended(res[w].chain, res'[w].chain, name, signed, sigs)

LEMMA ChainChange ==
  ASSUME TypeOK, NEW w \in Walker, Shape(w)
  PROVE  Steps(w) \/ (res'[w].chain = res[w].chain /\ ~Enters(w))
PROOF
  <1>1. res[w] \in Result /\ cur[w] \in Name
    BY DEF TypeOK, CallType
  <1>2. CASE Enters(w)
    <2>1. PICK name \in Name, sigs \in SUBSET Outcome :
            /\ \/ phase[w] = "root" /\ name = Root
               \/ phase[w] = "keys" /\ name = childName(w) /\ dsSigs[w] \subseteq sigs
            /\ Verified(sigs, name, "DNSKEY") /\ phase'[w] = "descend" /\ cur'[w] = name
            /\ res'[w] = addStep(res[w], name, TRUE, sigs)
      BY <1>2 DEF Enters
    <2>2. StepAt(w, name) /\ phase[w] \in {"root", "keys"} /\ (phase[w] = "keys" => dsSigs[w] \subseteq sigs)
      BY <2>1 DEF StepAt
    <2>3. IF Has(res[w].chain, name) THEN Merged(res[w].chain, res'[w].chain)
          ELSE Extended(res[w].chain, res'[w].chain, name, TRUE, sigs)
      BY <1>1, <2>1, AddStepChain
    <2>. QED BY <2>1, <2>2, <2>3 DEF Steps
  <1>3. ASSUME NEW name \in Name, NEW sigs \in SUBSET Outcome, StepAt(w, name),
               phase'[w] = "done" \/ (phase[w] = "leaf" /\ phase'[w] = "hop"),
               res'[w].chain = addStep(res[w], name, FALSE, sigs).chain
        PROVE  Steps(w)
    <2>1. IF Has(res[w].chain, name) THEN Merged(res[w].chain, res'[w].chain)
          ELSE Extended(res[w].chain, res'[w].chain, name, FALSE, sigs)
      BY <1>1, <1>3, AddStepChain
    <2>. QED BY <1>3, <2>1 DEF Steps
  <1>4. CASE Follows(w)
    <2>1. PICK sigs \in SUBSET Outcome :
            /\ phase[w] = "leaf" /\ phase'[w] = "hop"
            /\ res'[w].chain = addStep(res[w], cur[w], FALSE, sigs).chain
      BY <1>4, FollowsAppends
    <2>2. StepAt(w, cur[w])
      BY <2>1 DEF StepAt
    <2>. QED BY <1>1, <1>3, <2>1, <2>2
  <1>5. CASE Returns(w) /\ ~Enters(w)
    BY <1>3, <1>5 DEF Returns
  <1>6. CASE (Starts(w) \/ Loads(w) \/ Probes(w)) /\ ~Enters(w)
    BY <1>6 DEF Starts, Loads, Probes
  <1>. QED BY <1>2, <1>4, <1>5, <1>6, ReturnsShape DEF Shape

(***************************************************************************)
(* A result's chain only grows: no step is dropped, moved or marked anew,  *)
(* no check of one lost, by whatever later hop.  (addStep)                 *)
(***************************************************************************)
THEOREM ChainsGrow == Spec => ChainGrows
PROOF
  <1>. DEFINE Grows(old, new) ==
                /\ Len(old) <= Len(new)
                /\ \A i \in DOMAIN old : /\ new[i].zone = old[i].zone
                                         /\ new[i].signed = old[i].signed
                                         /\ old[i].sigs \subseteq new[i].sigs
  <1>1. ASSUME TypeOK, [Next]_vars, NEW w \in Walker PROVE Grows(res[w].chain, res'[w].chain)
    <2>1. Len(res[w].chain) \in Nat
      BY <1>1, LenProperties DEF TypeOK, CallType, Result
    <2>2. CASE res'[w].chain = res[w].chain
      BY <2>1, <2>2
    <2>3. CASE Steps(w)
      BY <2>1, <2>3 DEF Steps, Merged, Extended
    <2>. QED BY <1>1, <2>2, <2>3, StepOrStay, ChainChange DEF Untouched
  <1>2. TypeOK /\ [Next]_vars => \A w \in Walker : Grows(res[w].chain, res'[w].chain)
    BY <1>1
  <1>3. (\A w \in Walker : Grows(res[w].chain, res'[w].chain)) <=>
        (\A w \in Walker :
           LET old == res[w].chain
               new == res'[w].chain
           IN  /\ Len(old) <= Len(new)
               /\ \A i \in DOMAIN old : /\ new[i].zone = old[i].zone
                                        /\ new[i].signed = old[i].signed
                                        /\ old[i].sigs \subseteq new[i].sigs)
    OBVIOUS
  <1>. HIDE DEF Grows
  <1>. QED BY <1>2, <1>3, TypeCorrect, PTL DEF Spec, ChainGrows

\* A chain that is a path of trust.
Path(chain) ==
  \A i \in DOMAIN chain :
    /\ i = 1 <=> chain[i].zone = Root
    /\ \A j \in 1..(i - 1) : chain[j].zone # chain[i].zone
    /\ chain[i].signed => /\ Verified(chain[i].sigs, chain[i].zone, "DNSKEY")
                          /\ i > 1 => Verified(chain[i].sigs, chain[i].zone, "DS")
    /\ i > 1 => \E j \in 1..(i - 1) :
                  chain[j].signed /\ isStrictSubdomain(chain[i].zone, chain[j].zone)

\* The chain is a path; while the call runs all its zones are signed, the
\* one the walk stands in among them, and the DS of the one being entered
\* has verified.
OnPath(w) ==
  /\ Path(res[w].chain)
  /\ phase[w] # "done" => \A i \in DOMAIN res[w].chain : res[w].chain[i].signed
  /\ phase[w] \in {"descend", "ds", "keys", "leaf"} => Has(res[w].chain, cur[w])
  /\ phase[w] = "keys" => Verified(dsSigs[w], childName(w), "DS")

\* More checks of a zone met again leave the chain a path.
LEMMA MergedPath ==
  ASSUME NEW old, NEW new, Merged(old, new), Path(old), DOMAIN old = 1..Len(old), Len(old) \in Nat
  PROVE  Path(new)
PROOF
  <1>. SUFFICES ASSUME NEW i \in DOMAIN new
                PROVE  /\ i = 1 <=> new[i].zone = Root
                       /\ \A j \in 1..(i - 1) : new[j].zone # new[i].zone
                       /\ new[i].signed => /\ Verified(new[i].sigs, new[i].zone, "DNSKEY")
                                           /\ i > 1 => Verified(new[i].sigs, new[i].zone, "DS")
                       /\ i > 1 => \E j \in 1..(i - 1) :
                                     new[j].signed /\ isStrictSubdomain(new[i].zone, new[j].zone)
    BY DEF Path
  <1>1. i \in DOMAIN old /\ \A j \in 1..(i - 1) : j \in DOMAIN old
    BY DEF Merged
  <1>2. /\ new[i].zone = old[i].zone /\ new[i].signed = old[i].signed /\ old[i].sigs \subseteq new[i].sigs
        /\ \A j \in 1..(i - 1) : new[j].zone = old[j].zone /\ new[j].signed = old[j].signed
    BY <1>1 DEF Merged
  <1>3. \A type : Verified(old[i].sigs, old[i].zone, type) => Verified(new[i].sigs, new[i].zone, type)
    BY <1>2 DEF Verified
  <1>4. /\ i = 1 <=> old[i].zone = Root
        /\ \A j \in 1..(i - 1) : old[j].zone # old[i].zone
        /\ old[i].signed => /\ Verified(old[i].sigs, old[i].zone, "DNSKEY")
                            /\ i > 1 => Verified(old[i].sigs, old[i].zone, "DS")
        /\ i > 1 => \E j \in 1..(i - 1) :
                      old[j].signed /\ isStrictSubdomain(old[i].zone, old[j].zone)
    BY <1>1 DEF Path
  <1>. QED BY <1>2, <1>3, <1>4

\* A new zone at the end leaves it a path: the root first, any other below
\* a signed zone of the chain, and signed only when its keys verified.
LEMMA ExtendedPath ==
  ASSUME NEW old, NEW new, NEW name, NEW signed \in BOOLEAN, NEW sigs,
         Extended(old, new, name, signed, sigs), Path(old), ~Has(old, name),
         DOMAIN old = 1..Len(old), Len(old) \in Nat,
         \/ name = Root
         \/ /\ name # Root
            /\ \E j \in DOMAIN old : old[j].signed /\ isStrictSubdomain(name, old[j].zone)
            /\ signed => Verified(sigs, name, "DS"),
         signed => Verified(sigs, name, "DNSKEY")
  PROVE  Path(new)
PROOF
  <1>. DEFINE n == Len(old) + 1
  <1>. SUFFICES ASSUME NEW i \in DOMAIN new
                PROVE  /\ i = 1 <=> new[i].zone = Root
                       /\ \A j \in 1..(i - 1) : new[j].zone # new[i].zone
                       /\ new[i].signed => /\ Verified(new[i].sigs, new[i].zone, "DNSKEY")
                                           /\ i > 1 => Verified(new[i].sigs, new[i].zone, "DS")
                       /\ i > 1 => \E j \in 1..(i - 1) :
                                     new[j].signed /\ isStrictSubdomain(new[i].zone, new[j].zone)
    BY DEF Path
  <1>1. /\ DOMAIN new = 1..n /\ new[n].zone = name /\ new[n].signed = signed /\ new[n].sigs = sigs
        /\ \A j \in 1..(n - 1) : new[j] = old[j]
    BY DEF Extended
  <1>2. CASE i # n
    <2>1. i \in DOMAIN old /\ new[i] = old[i] /\ \A j \in 1..(i - 1) : j \in DOMAIN old /\ new[j] = old[j]
      BY <1>1, <1>2
    <2>. QED BY <2>1 DEF Path
  <1>3. CASE i = n
    <2>1. \A j \in 1..(i - 1) : j \in DOMAIN old /\ new[j] = old[j]
      BY <1>1, <1>3
    <2>2. \A j \in 1..(i - 1) : new[j].zone # new[i].zone
      BY <1>1, <1>3, <2>1 DEF Has
    <2>3. CASE name = Root
      <3>1. Len(old) = 0
        <4>1. SUFFICES ASSUME Len(old) # 0 PROVE FALSE
          OBVIOUS
        <4>2. 1 \in DOMAIN old
          BY <4>1
        <4>. QED BY <2>3, <4>2 DEF Path, Has
      <3>. QED BY <1>1, <1>3, <2>2, <2>3, <3>1
    <2>4. CASE name # Root
      <3>1. PICK j \in DOMAIN old : old[j].signed /\ isStrictSubdomain(name, old[j].zone)
        BY <2>4
      <3>2. i # 1 /\ j \in 1..(i - 1)
        BY <1>3, <3>1
      <3>. QED BY <1>1, <1>3, <2>1, <2>2, <2>4, <3>1, <3>2
    <2>. QED BY <2>3, <2>4
  <1>. QED BY <1>2, <1>3

\* Every step keeps the chain a path.
LEMMA ShapeOnPath ==
  ASSUME TypeOK, NEW w \in Walker, phase[w] # "done", Position(w), OnPath(w), Shape(w)
  PROVE  OnPath(w)'
PROOF
  <1>. DEFINE old == res[w].chain
              new == res'[w].chain
  <1>1. DOMAIN old = 1..Len(old) /\ Len(old) \in Nat
    BY LenProperties DEF TypeOK, CallType, Result
  <1>2. /\ Path(old) /\ \A i \in DOMAIN old : old[i].signed
        /\ phase[w] \in {"descend", "ds", "keys", "leaf"} => Has(old, cur[w])
        /\ phase[w] = "keys" => Verified(dsSigs[w], childName(w), "DS")
    BY DEF OnPath
  <1>. SUFFICES /\ Path(new)
                /\ phase'[w] # "done" => \A i \in DOMAIN new : new[i].signed
                /\ phase'[w] \in {"descend", "ds", "keys", "leaf"} => Has(new, cur'[w])
                /\ phase'[w] = "keys" => Verified(dsSigs'[w], childName(w)', "DS")
    BY DEF OnPath, Path, Has, Verified
  <1>3. CASE new = old /\ ~Enters(w)
    <2>1. phase'[w] \in {"hop", "root", "done"} \/ Loads(w) \/ Probes(w)
      BY <1>3, ReturnsShape DEF Shape, Returns, Starts, Follows
    <2>2. phase'[w] \in {"descend", "ds", "keys", "leaf"} =>
            phase[w] \in {"descend", "ds", "keys", "leaf"} /\ cur'[w] = cur[w]
      BY <2>1 DEF Loads, Probes, Loaded, Same
    <2>3. phase'[w] = "keys" => Verified(dsSigs'[w], childName(w)', "DS")
      <3>1. ASSUME phase'[w] = "keys" PROVE childName(w)' = childName(w) /\ Verified(dsSigs'[w], childName(w), "DS")
        BY <1>2, <2>1, <3>1 DEF Loads, Probes, Loaded, Same, childName
      <3>. QED BY <3>1
    <2>. HIDE DEF old, new
    <2>. QED BY <1>2, <1>3, <2>2, <2>3
  <1>4. CASE Steps(w)
    <2>1. PICK name \in Name, signed \in BOOLEAN, sigs \in SUBSET Outcome :
            /\ StepAt(w, name)
            /\ signed => /\ phase[w] \in {"root", "keys"} /\ Verified(sigs, name, "DNSKEY")
                         /\ phase[w] = "keys" => dsSigs[w] \subseteq sigs
                         /\ phase'[w] = "descend" /\ cur'[w] = name
            /\ ~signed => phase'[w] = "done" \/ (phase[w] = "leaf" /\ phase'[w] = "hop")
            /\ IF Has(old, name) THEN Merged(old, new) ELSE Extended(old, new, name, signed, sigs)
      BY <1>4 DEF Steps
    <2>. HIDE DEF old, new
    <2>2. CASE Has(old, name)
      <3>1. Merged(old, new)
        BY <2>1, <2>2
      <3>2. Path(new)
        BY <1>1, <1>2, <3>1, MergedPath
      <3>3. (\A i \in DOMAIN new : new[i].signed) /\ Has(new, name)
        BY <1>2, <2>2, <3>1 DEF Merged, Has
      <3>. QED BY <2>1, <3>2, <3>3
    <2>3. CASE ~Has(old, name)
      <3>1. Extended(old, new, name, signed, sigs)
        BY <2>1, <2>3
      <3>2. \/ phase[w] = "root" /\ name = Root
            \/ phase[w] \in {"ds", "keys"} /\ name = childName(w)
        BY <1>2, <2>1, <2>3 DEF StepAt
      <3>3. Path(new)
        <4>1. CASE name = Root
          BY <1>1, <1>2, <2>1, <2>3, <3>1, <4>1, ExtendedPath
        <4>2. CASE name # Root
          <5>1. phase[w] \in {"ds", "keys"} /\ name = childName(w) /\ isStrictSubdomain(name, cur[w])
            BY <3>2, <4>2, ChildIsBelow
          <5>2. \E j \in DOMAIN old : old[j].signed /\ isStrictSubdomain(name, old[j].zone)
            BY <1>2, <5>1 DEF Has
          <5>3. signed => Verified(sigs, name, "DS")
            BY <1>2, <2>1, <5>1 DEF Verified
          <5>. QED BY <1>1, <1>2, <2>1, <2>3, <3>1, <4>2, <5>2, <5>3, ExtendedPath
        <4>. QED BY <4>1, <4>2
      <3>4. phase'[w] # "done" => signed /\ \A i \in DOMAIN new : new[i].signed
        <4>1. phase'[w] # "done" => signed
          BY <2>1, <3>2
        <4>2. signed => \A i \in DOMAIN new : new[i].signed
          BY <1>1, <1>2, <3>1 DEF Extended
        <4>. QED BY <4>1, <4>2
      <3>5. Has(new, name)
        <4>1. Len(old) + 1 \in DOMAIN new /\ new[Len(old) + 1].zone = name
          BY <1>1, <3>1 DEF Extended
        <4>. QED BY <4>1 DEF Has
      <3>6. phase'[w] # "keys" /\ (phase'[w] \in {"descend", "ds", "keys", "leaf"} => cur'[w] = name)
        BY <2>1
      <3>. QED BY <3>3, <3>4, <3>5, <3>6
    <2>. QED BY <2>2, <2>3
  <1>. QED BY <1>3, <1>4, ChainChange

OnPaths == \A w \in Walker : OnPath(w)

LEMMA InitOnPaths == Init => OnPaths
PROOF BY DEF Init, NewResult, OnPaths, OnPath, Path

LEMMA NextOnPaths == TypeOK /\ Positions /\ OnPaths /\ [Next]_vars => OnPaths'
PROOF
  <1>. SUFFICES ASSUME TypeOK, Positions, OnPaths, [Next]_vars, NEW v \in Walker PROVE OnPath(v)'
    BY DEF OnPaths
  <1>1. Position(v) /\ OnPath(v)
    BY DEF Positions, OnPaths
  <1>2. CASE Untouched(v)
    BY <1>1, <1>2 DEF Untouched, OnPath, Path, Has, Verified, childName
  <1>. QED BY <1>1, <1>2, StepOrStay, ShapeOnPath

LEMMA OnPathsHold == Spec => []OnPaths
PROOF BY TypeCorrect, PositionsHold, InitOnPaths, NextOnPaths, PTL DEF Spec

(***************************************************************************)
(* The chain of every result is a path of trust from the root, on which no *)
(* zone is signed unless its DNSKEY rrset and, below the root, its DS      *)
(* rrset verified, however many hops added to it.  (addStep)               *)
(***************************************************************************)
THEOREM ChainsArePaths == Spec => []ChainIsPath
PROOF
  <1>1. OnPaths => ChainIsPath
    <2>1. ASSUME NEW chain, Path(chain), NEW i \in DOMAIN chain
          PROVE  /\ i = 1 <=> chain[i].zone = Root
                 /\ \A j \in 1..(i - 1) : chain[j].zone # chain[i].zone
                 /\ chain[i].signed =>
                      /\ \E c \in chain[i].sigs : /\ c.type = "DNSKEY" /\ c.name = chain[i].zone
                                                  /\ c.result = "verified"
                      /\ i > 1 => \E c \in chain[i].sigs : /\ c.type = "DS" /\ c.name = chain[i].zone
                                                           /\ c.result = "verified"
                 /\ i > 1 => \E j \in 1..(i - 1) :
                               chain[j].signed /\ isStrictSubdomain(chain[i].zone, chain[j].zone)
      BY <2>1 DEF Path, Verified
    <2>. QED BY <2>1 DEF OnPaths, OnPath, ChainIsPath
  <1>. QED BY <1>1, OnPathsHold, PTL

-----------------------------------------------------------------------------
\* Where a Bogus chain ends.

\* What BogusEndsChain says of a result.
EndsAt(r, name, zoneName, labels) ==
  LET chain == r.chain
  IN  /\ chain # << >>
      /\ chain[Len(chain)].zone = r.bogusAt
      /\ isAtOrBelow(name, r.bogusAt)
      /\ chain[Len(chain)].signed = (zoneName = r.bogusAt /\ labels > Len(name))

\* The chain ends with that zone, and has none with more labels.
EndsWith(chain, name) ==
  /\ Len(chain) > 0 /\ chain[Len(chain)].zone = name
  /\ \A i \in DOMAIN chain : Len(chain[i].zone) <= Len(name)

\* On the first hop the chain ends with the zone the walk stands in.
FirstHop(w) ==
  res[w].aliases = << >> =>
    /\ phase[w] \in {"hop", "root"} => Len(res[w].chain) = 0 /\ cur[w] = Root /\ depth[w] = 0
    /\ phase[w] \in {"descend", "ds", "keys", "leaf"} => EndsWith(res[w].chain, cur[w])
    /\ phase[w] = "done" /\ res[w].verdict = "bogus" => EndsAt(res[w], qname[w], cur[w], depth[w])

\* A zone with more labels than those of the chain is put at its end.
LEMMA DeeperIsAtEnd ==
  ASSUME NEW r \in Result, NEW name \in Name, NEW signed \in BOOLEAN, NEW sigs \in SUBSET Outcome,
         \A i \in DOMAIN r.chain : Len(r.chain[i].zone) < Len(name)
  PROVE  LET new == addStep(r, name, signed, sigs).chain
         IN  EndsWith(new, name) /\ new[Len(new)].signed = signed
PROOF
  <1>. DEFINE old == r.chain
              new == addStep(r, name, signed, sigs).chain
  <1>1. DOMAIN old = 1..Len(old) /\ Len(old) \in Nat /\ old \in Seq(Step)
    BY LenProperties DEF Result
  <1>2. Len(name) \in Nat /\ \A i \in DOMAIN old : Len(old[i].zone) \in Nat
    BY <1>1, ElementOfSeq DEF Step, Name
  <1>3. ~Has(old, name)
    BY <1>2 DEF Has
  <1>4. Extended(old, new, name, signed, sigs)
    BY <1>3, AddStepChain
  <1>. HIDE DEF old, new
  <1>5. \A i \in DOMAIN old : Len(old[i].zone) < Len(name)
    BY DEF old
  <1>6. /\ Len(new) = Len(old) + 1 /\ new[Len(new)].zone = name /\ new[Len(new)].signed = signed
        /\ \A i \in DOMAIN new : (i \in DOMAIN old /\ new[i] = old[i]) \/ new[i].zone = name
    BY <1>1, <1>4 DEF Extended
  <1>7. \A i \in DOMAIN new : Len(new[i].zone) <= Len(name)
    BY <1>2, <1>5, <1>6
  <1>8. EndsWith(new, name)
    BY <1>1, <1>6, <1>7 DEF EndsWith
  <1>. QED BY <1>6, <1>8 DEF new

\* The zones of the chain have fewer labels than the one being entered.
LEMMA ChildIsDeeper ==
  ASSUME TypeOK, NEW w \in Walker, phase[w] \in {"root", "ds", "keys"}, Position(w), FirstHop(w),
         res[w].aliases = << >>, NEW name,
         \/ phase[w] = "root" /\ name = Root
         \/ phase[w] \in {"ds", "keys"} /\ name = childName(w)
  PROVE  \A i \in DOMAIN res[w].chain : Len(res[w].chain[i].zone) < Len(name)
PROOF
  <1>1. res[w].chain \in Seq(Step)
    BY DEF TypeOK, CallType, Result
  <1>. DEFINE chain == res[w].chain
  <1>2. DOMAIN chain = 1..Len(chain) /\ Len(chain) \in Nat
    BY <1>1, LenProperties
  <1>3. CASE phase[w] = "root"
    BY <1>2, <1>3 DEF FirstHop
  <1>4. CASE phase[w] \in {"ds", "keys"}
    <2>1. Len(name) = depth[w] /\ Len(cur[w]) < depth[w] /\ Len(cur[w]) \in Nat /\ depth[w] \in Nat
      <3>1. name = childName(w) /\ Len(childName(w)) = depth[w]
        BY <1>4, ChildNameType
      <3>2. Len(cur[w]) < depth[w]
        BY <1>4 DEF Position
      <3>. QED BY <3>1, <3>2 DEF TypeOK, CallType, Name
    <2>2. \A i \in DOMAIN chain : Len(chain[i].zone) <= Len(cur[w])
      BY <1>4 DEF FirstHop, EndsWith
    <2>3. \A i \in DOMAIN chain : Len(chain[i].zone) \in Nat
      <3>1. \A i \in DOMAIN chain : chain[i] \in Step
        BY <1>1, <1>2, ElementOfSeq
      <3>2. \A i \in DOMAIN chain : chain[i].zone \in Seq(Nat)
        BY <3>1 DEF Step, Name
      <3>. QED BY <3>2, LenProperties
    <2>. HIDE DEF chain
    <2>4. \A i \in DOMAIN chain : Len(chain[i].zone) < Len(name)
      BY <2>1, <2>2, <2>3
    <2>. QED BY <2>4 DEF chain
  <1>. QED BY <1>3, <1>4

\* An ancestor has the name below it.
LEMMA AncestorIsAbove ==
  ASSUME NEW name \in Name, NEW a \in ancestorsOf(name)
  PROVE  isAtOrBelow(name, a)
PROOF BY AncestorIsPrefix DEF isAtOrBelow, Name

\* A verdict that vouches for something is not Bogus.
LEMMA VerdictNotBogus ==
  ASSUME TypeOK, NEW w \in Walker, Undecided(res[w]), ReturnsVerdict(w)
  PROVE  res'[w].verdict # "bogus"
PROOF
  <1>1. res[w] \in Result /\ cur[w] \in Name
    BY DEF TypeOK, CallType
  <1>2. ASSUME NEW r \in Result, Undecided(r), NEW v \in Verdict PROVE applyOutcome(r, v).verdict = v
    <2>1. applyOutcome(r, v) = [r EXCEPT !.verdict = v, !.combined = v]
      BY <1>2, UndecidedCombines
    <2>. QED BY <2>1 DEF Result
  <1>3. CASE Returning(w, insecureOutcome(res[w], childName(w)))
    <2>1. applyOutcome(res[w], "insecure") = [res[w] EXCEPT !.verdict = "insecure", !.combined = "insecure"]
      BY <1>1, UndecidedCombines DEF Verdict
    <2>. QED BY <1>1, <1>3, <2>1 DEF Returning, insecureOutcome, Result
  <1>4. ASSUME NEW sigs \in SUBSET Outcome, NEW answer, NEW wildcard,
               Returning(w, secureOutcome(addStep(res[w], cur[w], FALSE, sigs), answer, wildcard))
        PROVE  res'[w].verdict # "bogus"
    <2>. DEFINE s == addStep(res[w], cur[w], FALSE, sigs)
    <2>1. s \in Result /\ Undecided(s)
      BY <1>1, AddStepKeeps, AddStepUndecided
    <2>2. res'[w] = secureOutcome(s, answer, wildcard)
      BY <1>4 DEF Returning
    <2>. HIDE DEF s
    <2>3. applyOutcome(s, "secure") = [s EXCEPT !.verdict = "secure", !.combined = "secure"]
      BY <2>1, UndecidedCombines DEF Verdict
    <2>. QED BY <2>1, <2>2, <2>3 DEF secureOutcome, Result
  <1>5. ASSUME NEW v \in {"secure-nodata", "secure-nxdomain", "indeterminate"},
               Returning(w, applyOutcome(res[w], v))
        PROVE  res'[w].verdict # "bogus"
    <2>1. v \in Verdict
      BY <1>5 DEF Verdict
    <2>2. res'[w].verdict = v
      BY <1>1, <1>2, <1>5, <2>1 DEF Returning
    <2>. QED BY <1>5, <2>2
  <1>. QED BY <1>3, <1>4, <1>5 DEF ReturnsVerdict

\* The result of a call that returns with Bogus.
LEMMA BogusResult ==
  ASSUME NEW r \in Result, Undecided(r), NEW at, NEW code
  PROVE  LET s == bogusOutcome(r, at, code)
         IN  s.verdict = "bogus" /\ s.bogusAt = at /\ s.chain = r.chain
PROOF
  <1>1. applyOutcome(r, "bogus") = [r EXCEPT !.verdict = "bogus", !.combined = "bogus"]
    BY UndecidedCombines DEF Verdict
  <1>. QED BY <1>1 DEF bogusOutcome, Result

\* Every step keeps the end of a chain of one hop.
LEMMA ShapeFirstHop ==
  ASSUME TypeOK, NEW w \in Walker, phase[w] # "done", Decision(w), Linked(w), Position(w), OnPath(w),
         FirstHop(w), Shape(w)
  PROVE  FirstHop(w)'
PROOF
  <1>. DEFINE old == res[w].chain
              new == res'[w].chain
  <1>1. /\ res[w] \in Result /\ cur[w] \in Name /\ qname[w] \in Name /\ depth[w] \in Nat
        /\ Len(qname[w]) \in Nat /\ Undecided(res[w])
    BY DEF TypeOK, CallType, Decision, Name
  <1>2. SUFFICES ASSUME res'[w].aliases = << >>
        PROVE  /\ phase'[w] \in {"hop", "root"} => Len(new) = 0 /\ cur'[w] = Root /\ depth'[w] = 0
               /\ phase'[w] \in {"descend", "ds", "keys", "leaf"} => EndsWith(new, cur'[w])
               /\ phase'[w] = "done" /\ res'[w].verdict = "bogus" =>
                    EndsAt(res'[w], qname'[w], cur'[w], depth'[w])
    BY DEF FirstHop, EndsWith, EndsAt
  <1>3. ~Follows(w)
    <2>. SUFFICES ASSUME Follows(w) PROVE FALSE
      OBVIOUS
    <2>1. PICK alias \in Alias : res'[w].aliases = Append(res[w].aliases, alias)
      BY FollowsAppends
    <2>2. res[w].aliases \in Seq(Alias)
      BY <1>1 DEF Result
    <2>. QED BY <1>2, <2>1, <2>2, AppendProperties
  <1>4. res[w].aliases = << >>
    BY <1>2, <1>3, AliasesKept
  <1>5. CASE Starts(w)
    BY <1>4, <1>5 DEF Starts, FirstHop
  <1>6. CASE Loads(w) \/ Probes(w)
    BY <1>4, <1>6 DEF Loads, Probes, Loaded, Same, FirstHop
  <1>7. CASE Enters(w)
    <2>1. PICK name \in Name, sigs \in SUBSET Outcome :
            /\ \/ phase[w] = "root" /\ name = Root
               \/ phase[w] = "keys" /\ name = childName(w)
            /\ phase'[w] = "descend" /\ cur'[w] = name
            /\ res'[w] = addStep(res[w], name, TRUE, sigs)
      BY <1>7 DEF Enters
    <2>2. \A i \in DOMAIN old : Len(old[i].zone) < Len(name)
      BY <1>4, <2>1, ChildIsDeeper
    <2>3. EndsWith(new, name)
      BY <1>1, <2>1, <2>2, DeeperIsAtEnd
    <2>. QED BY <2>1, <2>3
  <1>8. CASE ReturnsError(w) \/ ReturnsVerdict(w)
    <2>1. phase'[w] = "done"
      BY <1>8, ReturnsShape DEF Returns
    <2>2. res'[w].verdict # "bogus"
      <3>1. CASE ReturnsError(w)
        BY <1>1, <3>1 DEF ReturnsError, Returning, failed, uncheckable, Undecided, Result
      <3>2. CASE ReturnsVerdict(w)
        BY <1>1, <3>2, VerdictNotBogus
      <3>. QED BY <1>8, <3>1, <3>2
    <2>. QED BY <2>1, <2>2
  <1>9. CASE ReturnsLoop(w)
    <2>1. phase[w] = "hop" /\ (hop[w] > MaxAliasHops \/ qname[w] \in seen[w])
      BY <1>9 DEF ReturnsLoop
    <2>2. hop[w] = 0 /\ IsFiniteSet(seen[w]) /\ Cardinality(seen[w]) = 0
      BY <1>4, <2>1 DEF Linked
    <2>3. seen[w] = {}
      BY <2>2, FS_EmptySet
    <2>. QED BY <2>1, <2>2, <2>3, BoundsAssumption
  <1>10. CASE ReturnsBogusZone(w)
    <2>1. PICK name \in Name, sigs \in SUBSET Outcome, code \in Failure :
            /\ \/ phase[w] = "root" /\ name = Root
               \/ phase[w] \in {"ds", "keys"} /\ name = childName(w)
            /\ Returning(w, bogusOutcome(addStep(res[w], name, FALSE, sigs), name, code))
      BY <1>10 DEF ReturnsBogusZone
    <2>. DEFINE s == addStep(res[w], name, FALSE, sigs)
    <2>2. s \in Result /\ Undecided(s)
      BY <1>1, AddStepKeeps, AddStepUndecided
    <2>3. \A i \in DOMAIN old : Len(old[i].zone) < Len(name)
      BY <1>4, <2>1, ChildIsDeeper
    <2>4. EndsWith(s.chain, name) /\ s.chain[Len(s.chain)].signed = FALSE
      BY <1>1, <2>3, DeeperIsAtEnd
    <2>5. /\ phase'[w] = "done" /\ res'[w] = bogusOutcome(s, name, code)
          /\ qname'[w] = qname[w] /\ cur'[w] = cur[w] /\ depth'[w] = depth[w]
      BY <2>1 DEF Returning, Same
    <2>. HIDE DEF s
    <2>6. res'[w].bogusAt = name /\ new = s.chain
      BY <2>2, <2>5, BogusResult
    <2>7. isAtOrBelow(qname[w], name) /\ ~(cur[w] = name /\ depth[w] > Len(qname[w]))
      <3>1. CASE phase[w] = "root"
        BY <1>1, <1>4, <2>1, <3>1, SelfAndRoot, AncestorIsAbove DEF FirstHop
      <3>2. CASE phase[w] \in {"ds", "keys"}
        <4>1. name = childName(w)
          BY <2>1, <3>2
        <4>. QED BY <1>1, <3>2, <4>1, ChildIsBelow, AncestorIsAbove DEF isStrictSubdomain
      <3>. QED BY <2>1, <3>1, <3>2
    <2>8. new # << >>
      BY <2>4, <2>6 DEF EndsWith
    <2>9. EndsAt(res'[w], qname[w], cur[w], depth[w])
      BY <2>4, <2>6, <2>7, <2>8 DEF EndsAt, EndsWith
    <2>. QED BY <2>5, <2>9
  <1>11. CASE ReturnsBogusData(w)
    <2>1. PICK sigs \in SUBSET Outcome, code \in Failure :
            /\ phase[w] = "leaf"
            /\ Returning(w, bogusOutcome(addStep(res[w], cur[w], FALSE, sigs), cur[w], code))
      BY <1>11 DEF ReturnsBogusData
    <2>. DEFINE s == addStep(res[w], cur[w], FALSE, sigs)
    <2>2. s \in Result /\ Undecided(s)
      BY <1>1, AddStepKeeps, AddStepUndecided
    <2>3. /\ EndsWith(old, cur[w]) /\ Has(old, cur[w]) /\ \A i \in DOMAIN old : old[i].signed = TRUE
          /\ cur[w] \in ancestorsOf(qname[w]) /\ depth[w] = Len(qname[w]) + 1
      <3>1. \A i \in DOMAIN old : old[i] \in Step
        BY <1>1, ElementOfSeq, LenProperties DEF Result
      <3>2. \A i \in DOMAIN old : old[i].signed
        BY DEF OnPath
      <3>3. \A i \in DOMAIN old : old[i].signed = TRUE
        BY <3>1, <3>2 DEF Step
      <3>. QED BY <1>4, <2>1, <3>3 DEF FirstHop, OnPath, Position
    <2>4. Merged(old, s.chain)
      BY <1>1, <2>3, AddStepChain
    <2>5. /\ phase'[w] = "done" /\ res'[w] = bogusOutcome(s, cur[w], code)
          /\ qname'[w] = qname[w] /\ cur'[w] = cur[w] /\ depth'[w] = depth[w]
      BY <2>1 DEF Returning, Same
    <2>. HIDE DEF s
    <2>6. res'[w].bogusAt = cur[w] /\ new = s.chain
      BY <2>2, <2>5, BogusResult
    <2>7. DOMAIN old = 1..Len(old) /\ Len(old) \in Nat
      BY <1>1, LenProperties DEF Result
    <2>8. new # << >> /\ new[Len(new)].zone = cur[w] /\ new[Len(new)].signed = TRUE
      <3>. HIDE DEF old, new
      <3>1. Len(old) \in DOMAIN old /\ Len(new) = Len(old) /\ Len(new) > 0
        BY <2>3, <2>4, <2>6, <2>7 DEF EndsWith, Merged
      <3>. QED BY <2>3, <2>4, <2>6, <3>1 DEF EndsWith, Merged
    <2>9. isAtOrBelow(qname[w], cur[w]) /\ depth[w] > Len(qname[w])
      BY <1>1, <2>3, AncestorIsAbove
    <2>10. EndsAt(res'[w], qname[w], cur[w], depth[w])
      BY <2>6, <2>8, <2>9 DEF EndsAt
    <2>. QED BY <2>5, <2>10
  <1>. QED BY <1>3, <1>5, <1>6, <1>7, <1>8, <1>9, <1>10, <1>11 DEF Shape

FirstHops == \A w \in Walker : FirstHop(w)

LEMMA InitFirstHops == Init => FirstHops
PROOF BY DEF Init, NewResult, FirstHops, FirstHop

LEMMA NextFirstHops ==
  /\ TypeOK /\ Decisions /\ AllLinked /\ Positions /\ OnPaths /\ FirstHops /\ [Next]_vars
  => FirstHops'
PROOF
  <1>. SUFFICES ASSUME TypeOK, Decisions, AllLinked, Positions, OnPaths, FirstHops, [Next]_vars,
                       NEW v \in Walker
                PROVE  FirstHop(v)'
    BY DEF FirstHops
  <1>1. Decision(v) /\ Linked(v) /\ Position(v) /\ OnPath(v) /\ FirstHop(v)
    BY DEF Decisions, AllLinked, Positions, OnPaths, FirstHops
  <1>2. CASE Untouched(v)
    BY <1>1, <1>2 DEF Untouched, FirstHop, EndsWith, EndsAt
  <1>. QED BY <1>1, <1>2, StepOrStay, ShapeFirstHop

(***************************************************************************)
(* Without redirects a Bogus chain ends with the step of the zone that     *)
(* failed, signed exactly when it was the zone's data and not its keys     *)
(* that did: what a reader of the chain concludes from its last step is    *)
(* where the validation failed.  (addStep, descendInto, resolveLeaf)       *)
(***************************************************************************)
THEOREM BogusChainsEnd == Spec => []BogusEndsChain
PROOF
  <1>1. Decisions /\ FirstHops => BogusEndsChain
    <2>1. ASSUME NEW w \in Walker, Decision(w), FirstHop(w), res[w].verdict = "bogus",
                 res[w].aliases = << >>
          PROVE  EndsAt(res[w], qname[w], cur[w], depth[w])
      BY <2>1 DEF Decision, Undecided, FirstHop
    <2>. QED BY <2>1 DEF Decisions, FirstHops, EndsAt, BogusEndsChain
  <1>2. Spec => []TypeOK /\ []Decisions /\ []AllLinked /\ []Positions /\ []OnPaths
    BY TypeCorrect, DecisionsHold, LinkedHolds, PositionsHold, OnPathsHold, PTL
  <1>3. Spec => []FirstHops
    BY <1>2, InitFirstHops, NextFirstHops, PTL DEF Spec
  <1>. QED BY <1>1, <1>2, <1>3, PTL

-----------------------------------------------------------------------------
\* The cache.

\* The questions it holds an answer to.
Questions == {[name |-> e.name, type |-> e.type] : e \in cache}

\* What a call has had answered is in the cache, and so is what it has just
\* loaded and, while it asks for a zone's keys, the DS question that led it
\* there; so what is not in the cache it has not had answered.
Recalled(w) ==
  /\ Answered(w) \subseteq Questions
  /\ io[w] = "loaded" => Asked(w) \in Questions
  /\ phase[w] = "keys" => [name |-> childName(w), type |-> "DS"] \in Questions
  /\ io[w] = "query" => Asked(w) \notin Answered(w)

AllRecalled == UseCache => \A w \in Walker : Recalled(w)

\* No step changes the type a call asks for, nor takes a question out of the
\* cache.
LEMMA QuestionsStay ==
  ASSUME [Next]_vars
  PROVE  qtype' = qtype /\ Questions \subseteq Questions'
PROOF
  <1>1. ASSUME cache' = cache PROVE Questions \subseteq Questions'
    BY <1>1 DEF Questions
  <1>2. ASSUME NEW w \in Walker, KeepAnswer(w) PROVE qtype' = qtype /\ Questions \subseteq Questions'
    <2>1. qtype' = qtype
      BY <1>2 DEF KeepAnswer, applyRecords
    <2>2. PICK resp : Put(Asked(w), resp)
      BY <1>2 DEF KeepAnswer
    <2>3. CASE ~UseCache
      BY <1>1, <2>1, <2>2, <2>3 DEF Put
    <2>4. CASE UseCache
      <3>. DEFINE kept == [name |-> Asked(w).name, type |-> Asked(w).type,
                           rrs |-> resp.rrs, sigs |-> resp.sigs]
      <3>1. kept \in cache' /\ \A e \in cache : e \in cache' \/ (e.name = kept.name /\ e.type = kept.type)
        BY <2>2, <2>4 DEF Put, Cached
      <3>. HIDE DEF kept
      <3>. QED BY <2>1, <3>1 DEF Questions
    <2>. QED BY <2>3, <2>4
  <1>3. ASSUME NEW w \in Walker, Hop(w) \/ Load(w), ~KeepAnswer(w) PROVE qtype' = qtype /\ cache' = cache
    BY <1>3 DEF Hop, HopLimit, HopLoop, HopStart, ContextEnded, Load, CacheHit, CacheMiss, QueryReply,
                QueryDamaged, QueryError, QueryCancelled, QueryReturn, applyRecords, Local, shared
  <1>4. ASSUME NEW w \in Walker, Cut(w) \/ Leaf(w) PROVE qtype' = qtype /\ cache' = cache
    BY <1>4 DEF Cut, ValidateRoot, NextLabel, NoDS, CheckDS, AuthenticateKeys,
                Leaf, LeafAnswer, LeafDNAME, LeafCNAME, LeafDenial, Local, shared
  <1>. QED BY <1>1, <1>2, <1>3, <1>4 DEF Next, Validate, Expire, Republish, Tick, Finished, calls, vars

\* How a load of call w ends: its question is in the cache by then, and goes
\* to the resolver only when it is not.
LoadEnds(w) ==
  /\ io'[w] = "loaded" => Loads(w) /\ Asked(w) \in Questions'
  /\ io'[w] = "query" => Loads(w) /\ Asked(w) \notin Questions

LEMMA StepLoads ==
  ASSUME TypeOK, UseCache, NEW w \in Walker, Validate(w)
  PROVE  LoadEnds(w)
PROOF
  <1>1. ASSUME io'[w] \notin {"loaded", "query"} PROVE LoadEnds(w)
    BY <1>1 DEF LoadEnds
  <1>2. ASSUME NEW r, Done(w, r) PROVE LoadEnds(w)
    BY <1>1, <1>2 DEF Done, TypeOK, CallType
  <1>3. CASE Hop(w)
    BY <1>1, <1>2, <1>3 DEF Hop, HopLimit, HopLoop, HopStart, ContextEnded, Enter, TypeOK, CallType
  <1>4. ASSUME NEW name, NEW digests, NEW before, NEW noMatch,
               authenticate(w, name, digests, before, noMatch)
        PROVE  LoadEnds(w)
    <2>1. ASSUME NEW z, NEW r, Descend(w, z, name, r) PROVE LoadEnds(w)
      BY <1>1, <2>1 DEF Descend, TypeOK, CallType
    <2>. QED BY <1>2, <1>4, <2>1 DEF authenticate
  <1>5. CASE Cut(w)
    <2>1. CASE ValidateRoot(w) \/ AuthenticateKeys(w)
      BY <1>4, <2>1 DEF ValidateRoot, AuthenticateKeys
    <2>2. CASE NextLabel(w)
      BY <1>1, <2>2 DEF NextLabel, Enter, TypeOK, CallType
    <2>3. CASE NoDS(w)
      BY <1>1, <1>2, <2>3 DEF NoDS, notACut, TypeOK, CallType
    <2>4. CASE CheckDS(w)
      BY <1>1, <1>2, <2>4 DEF CheckDS, Enter, TypeOK, CallType
    <2>. QED BY <1>5, <2>1, <2>2, <2>3, <2>4 DEF Cut
  <1>6. ASSUME NEW type, NEW owner, NEW targets, followAlias(w, type, owner, targets)
        PROVE  LoadEnds(w)
    <2>1. ASSUME NEW r, NEW target, Redirect(w, r, type, owner, target) PROVE LoadEnds(w)
      BY <1>1, <2>1 DEF Redirect, TypeOK, CallType
    <2>. QED BY <1>2, <1>6, <2>1 DEF followAlias
  <1>7. CASE Leaf(w)
    BY <1>2, <1>6, <1>7 DEF Leaf, LeafAnswer, LeafDNAME, LeafCNAME, LeafDenial
  <1>8. ASSUME NEW rrs, NEW sigs, applyRecords(w, rrs, sigs), io[w] \in {"lookup", "answered"},
               \E e \in cache' : e.name = Asked(w).name /\ e.type = Asked(w).type
        PROVE  LoadEnds(w)
    <2>1. io'[w] = "loaded" /\ Loads(w)
      BY <1>8 DEF applyRecords, Loads, Same, TypeOK, CallType, ControlType
    <2>2. Asked(w) = [name |-> Asked(w).name, type |-> Asked(w).type]
      BY DEF Asked
    <2>3. Asked(w) \in Questions'
      BY <1>8, <2>2 DEF Questions
    <2>. QED BY <2>1, <2>3 DEF LoadEnds
  <1>9. CASE Load(w)
    <2>1. CASE CacheHit(w)
      BY <1>8, <2>1 DEF CacheHit, Cached, shared
    <2>2. CASE KeepAnswer(w)
      <3>1. io[w] = "answered"
        BY <2>2 DEF KeepAnswer
      <3>2. PICK resp : Put(Asked(w), resp) /\ applyRecords(w, resp.rrs, resp.sigs)
        BY <2>2 DEF KeepAnswer
      <3>3. \E e \in cache' : e.name = Asked(w).name /\ e.type = Asked(w).type
        <4>. DEFINE kept == [name |-> Asked(w).name, type |-> Asked(w).type,
                             rrs |-> resp.rrs, sigs |-> resp.sigs]
        <4>1. kept \in cache'
          BY <3>2 DEF Put
        <4>2. kept.name = Asked(w).name /\ kept.type = Asked(w).type
          OBVIOUS
        <4>. QED BY <4>1, <4>2
      <3>. QED BY <1>8, <3>1, <3>2, <3>3
    <2>3. CASE CacheMiss(w)
      <3>1. io'[w] = "query" /\ Loads(w)
        BY <2>3 DEF CacheMiss, Loads, Same, TypeOK, CallType, ControlType
      <3>2. Asked(w) \notin Questions
        BY <2>3 DEF CacheMiss, Cached, Questions
      <3>. QED BY <3>1, <3>2 DEF LoadEnds
    <2>4. CASE QueryReply(w) \/ QueryDamaged(w)
      BY <1>1, <1>2, <2>4 DEF QueryReply, QueryDamaged, QueryReturn, TypeOK, CallType
    <2>5. CASE QueryError(w) \/ QueryCancelled(w)
      BY <1>2, <2>5 DEF QueryError, QueryCancelled
    <2>. QED BY <1>9, <2>1, <2>2, <2>3, <2>4, <2>5 DEF Load
  <1>. QED BY <1>3, <1>5, <1>7, <1>9 DEF Validate

\* Every step of a call keeps what it had answered in the cache.
LEMMA ShapeRecalled ==
  ASSUME TypeOK, NEW w \in Walker, Position(w), Recalled(w), Shape(w), LoadEnds(w),
         qtype' = qtype, Questions \subseteq Questions'
  PROVE  Recalled(w)'
PROOF
  <1>. DEFINE old == res[w].chain
              new == res'[w].chain
  <1>1. /\ HopsAnswered(w) \subseteq Questions' /\ ProbesAnswered(w) \subseteq Questions'
        /\ KeysAnswered(w) \subseteq Questions'
        /\ io[w] = "loaded" => Asked(w) \in Questions'
        /\ phase[w] = "keys" => [name |-> childName(w), type |-> "DS"] \in Questions'
    BY DEF Recalled, Answered
  <1>2. res[w] \in Result /\ qname[w] \in Name /\ Len(qname[w]) \in Nat /\ depth[w] \in Nat
    BY DEF TypeOK, CallType, Name
  <1>3. DOMAIN old = 1..Len(old) /\ Len(old) \in Nat
    BY <1>2, LenProperties DEF Result
  <1>4. \A i \in DOMAIN old : old[i].signed => [name |-> old[i].zone, type |-> "DNSKEY"] \in Questions'
    BY <1>1 DEF KeysAnswered
  <1>5. KeysAnswered(w)' \subseteq Questions'
    <2>1. ASSUME NEW name \in Name, NEW signed \in BOOLEAN, NEW sigs \in SUBSET Outcome,
                 IF Has(old, name) THEN Merged(old, new) ELSE Extended(old, new, name, signed, sigs),
                 signed => [name |-> name, type |-> "DNSKEY"] \in Questions',
                 NEW i \in DOMAIN new, new[i].signed
          PROVE  [name |-> new[i].zone, type |-> "DNSKEY"] \in Questions'
      <3>1. CASE Merged(old, new)
        BY <1>4, <2>1, <3>1 DEF Merged
      <3>2. CASE Extended(old, new, name, signed, sigs)
        BY <1>3, <1>4, <2>1, <3>2 DEF Extended
      <3>. QED BY <2>1, <3>1, <3>2
    <2>2. CASE Enters(w)
      <3>1. PICK name \in Name, sigs \in SUBSET Outcome :
              /\ \/ phase[w] = "root" /\ name = Root
                 \/ phase[w] = "keys" /\ name = childName(w)
              /\ io[w] = "loaded" /\ res'[w] = addStep(res[w], name, TRUE, sigs)
        BY <2>2 DEF Enters
      <3>2. IF Has(old, name) THEN Merged(old, new) ELSE Extended(old, new, name, TRUE, sigs)
        BY <1>2, <3>1, AddStepChain
      <3>3. [name |-> name, type |-> "DNSKEY"] \in Questions'
        BY <1>1, <3>1 DEF Asked
      <3>. QED BY <2>1, <3>2, <3>3 DEF KeysAnswered
    <2>3. CASE ~Enters(w)
      <3>1. ~(phase[w] \in {"root", "keys"} /\ phase'[w] = "descend")
        BY <2>3, ReturnsShape DEF Shape, Returns, Starts, Loads, Probes, Loaded, Follows
      <3>2. CASE new = old
        BY <1>4, <3>2 DEF KeysAnswered
      <3>3. CASE Steps(w)
        <4>1. PICK name \in Name, signed \in BOOLEAN, sigs \in SUBSET Outcome :
                /\ ~signed
                /\ IF Has(old, name) THEN Merged(old, new) ELSE Extended(old, new, name, signed, sigs)
          BY <3>1, <3>3 DEF Steps
        <4>. QED BY <2>1, <4>1 DEF KeysAnswered
      <3>. QED BY <3>2, <3>3, ChainChange
    <2>. QED BY <2>2, <2>3
  <1>6. HopsAnswered(w)' \subseteq Questions'
    <2>1. ASSUME NEW s \in seen[w] \ {qname[w]}
          PROVE  DSProbes(s, Len(s)) \cup {[name |-> s, type |-> qtype[w]]} \subseteq Questions'
      BY <1>1, <2>1 DEF HopsAnswered
    <2>2. CASE Follows(w)
      <3>1. /\ phase[w] = "leaf" /\ io[w] = "loaded" /\ depth[w] = Len(qname[w]) + 1
            /\ seen'[w] = seen[w]
        BY <2>2 DEF Follows, Position
      <3>2. DSProbes(qname[w], Len(qname[w])) \subseteq Questions'
        BY <1>1, <1>2, <3>1 DEF ProbesAnswered
      <3>3. [name |-> qname[w], type |-> qtype[w]] \in Questions'
        BY <1>1, <3>1 DEF Asked
      <3>. QED BY <2>1, <3>1, <3>2, <3>3 DEF HopsAnswered
    <2>3. CASE ~Follows(w)
      <3>1. qname'[w] = qname[w] /\ seen'[w] \subseteq seen[w] \cup {qname[w]}
        BY <2>3, ReturnsShape DEF Shape, Returns, Starts, Loads, Probes, Enters, Same
      <3>. QED BY <2>1, <3>1 DEF HopsAnswered
    <2>. QED BY <2>2, <2>3
  <1>7. ProbesAnswered(w)' \subseteq Questions'
    <2>1. ASSUME phase'[w] \notin {"descend", "ds", "keys", "leaf"} PROVE ProbesAnswered(w)' \subseteq Questions'
      BY <2>1 DEF ProbesAnswered
    <2>2. ASSUME phase[w] \in {"ds", "keys"}, qname'[w] = qname[w], depth'[w] = depth[w] + 1,
                 [name |-> childName(w), type |-> "DS"] \in Questions'
          PROVE  ProbesAnswered(w)' \subseteq Questions'
      <3>1. DSProbes(qname[w], depth[w] - 1) \subseteq Questions'
        BY <1>1, <2>2 DEF ProbesAnswered
      <3>2. DSProbes(qname[w], depth[w]) \subseteq Questions'
        BY <1>2, <2>2, <3>1 DEF DSProbes, childName
      <3>. QED BY <1>2, <2>2, <3>2 DEF ProbesAnswered
    <2>3. CASE Loads(w)
      BY <1>1, <2>3 DEF Loads, Same, ProbesAnswered
    <2>4. CASE Probes(w)
      <3>1. CASE phase[w] = "ds" /\ io[w] = "loaded" /\ depth'[w] = depth[w] + 1
        BY <1>1, <2>2, <2>4, <3>1 DEF Probes, Same, Asked
      <3>2. CASE phase[w] \in {"descend", "ds"} /\ depth'[w] = depth[w]
        BY <1>1, <2>4, <3>2 DEF Probes, Same, ProbesAnswered
      <3>. QED BY <2>4, <3>1, <3>2 DEF Probes, Loaded
    <2>5. CASE Enters(w)
      <3>1. CASE phase[w] = "root"
        <4>1. phase'[w] = "descend" /\ depth'[w] = 1
          BY <2>5, <3>1, RootIsName DEF Enters
        <4>. QED BY <4>1 DEF ProbesAnswered, DSProbes
      <3>2. CASE phase[w] = "keys"
        <4>1. qname'[w] = qname[w] /\ depth'[w] = depth[w] + 1
          BY <2>5, <3>2, ChildNameType DEF Enters
        <4>. QED BY <1>1, <2>2, <3>2, <4>1
      <3>. QED BY <2>5, <3>1, <3>2 DEF Enters
    <2>. QED BY <2>1, <2>3, <2>4, <2>5, ReturnsShape DEF Shape, Returns, Starts, Follows
  <1>8. Answered(w)' \subseteq Questions'
    BY <1>5, <1>6, <1>7 DEF Answered
  <1>9. ASSUME Loads(w) PROVE Asked(w)' = Asked(w) /\ Answered(w)' = Answered(w)
    BY <1>9 DEF Loads, Same, Asked, childName, Answered, HopsAnswered, ProbesAnswered, KeysAnswered
  <1>10. phase'[w] = "keys" => [name |-> childName(w)', type |-> "DS"] \in Questions'
    <2>1. CASE Loads(w)
      BY <1>1, <2>1 DEF Loads, Same, childName
    <2>2. CASE Probes(w)
      BY <1>1, <2>2 DEF Probes, Loaded, Same, Asked, childName
    <2>. QED BY <2>1, <2>2, ReturnsShape DEF Shape, Returns, Starts, Enters, Follows
  <1>11. io'[w] = "loaded" => Asked(w)' \in Questions'
    BY <1>9 DEF LoadEnds
  <1>12. io'[w] = "query" => Asked(w)' \notin Answered(w)'
    BY <1>9 DEF LoadEnds, Recalled
  <1>. QED BY <1>8, <1>10, <1>11, <1>12 DEF Recalled

LEMMA InitRecalled == Init => AllRecalled
PROOF BY DEF Init, NewResult, AllRecalled, Recalled, Answered, HopsAnswered, ProbesAnswered, KeysAnswered

LEMMA NextRecalled == TypeOK /\ Positions /\ AllRecalled /\ [Next]_vars => AllRecalled'
PROOF
  <1>. SUFFICES ASSUME TypeOK, Positions, AllRecalled, [Next]_vars, UseCache, NEW v \in Walker
                PROVE  Recalled(v)'
    BY DEF AllRecalled
  <1>1. Position(v) /\ Recalled(v) /\ qtype' = qtype /\ Questions \subseteq Questions'
    BY QuestionsStay DEF Positions, AllRecalled
  <1>2. CASE Untouched(v)
    <2>1. Asked(v)' = Asked(v) /\ childName(v)' = childName(v)
      BY <1>2 DEF Untouched, Asked, childName
    <2>2. Answered(v)' = Answered(v)
      BY <1>2 DEF Untouched, Answered, HopsAnswered, ProbesAnswered, KeysAnswered
    <2>. QED BY <1>1, <1>2, <2>1, <2>2 DEF Untouched, Recalled
  <1>3. ASSUME Validate(v) PROVE Recalled(v)'
    BY <1>1, <1>3, StepShape, StepLoads, ShapeRecalled
  <1>4. ASSUME NEW w \in Walker, w # v, Validate(w) PROVE Recalled(v)'
    BY <1>2, <1>4, ValidateUntouched
  <1>5. ASSUME UNCHANGED <<phase, io, qname, qtype, hop, seen, depth, cur, zone, kid, dsSigs, found, res>>
        PROVE  Recalled(v)'
    BY <1>2, <1>5 DEF Untouched
  <1>. QED BY <1>3, <1>4, <1>5 DEF Next, Expire, Republish, Tick, Finished, calls, vars

(***************************************************************************)
(* With a cache no call ever asks the resolver again for what it has had   *)
(* answered, with records or without, though other calls put their own     *)
(* answers to the same questions in between.  (loadRecords, MemoryCache)   *)
(***************************************************************************)
THEOREM AnswersFoundAgain == Spec => []AskedOnce
PROOF
  <1>1. AllRecalled => AskedOnce
    BY DEF AllRecalled, Recalled, AskedOnce
  <1>. QED BY <1>1, TypeCorrect, PositionsHold, InitRecalled, NextRecalled, PTL DEF Spec
=============================================================================
