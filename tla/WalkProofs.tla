----------------------------- MODULE WalkProofs -----------------------------
(***************************************************************************)
(* Proofs about the results of the walk: their verdicts, codes and         *)
(* aliases.                                                                *)
(*                                                                         *)
(* Every step of a call has one of a few shapes (StepShape): it returns    *)
(* with one of the outcomes, starts a hop, loads, moves to the next cut,   *)
(* enters a zone or follows an alias.  The shapes say at one call what the *)
(* actions say of all, so an invariant is proved shape by shape.           *)
(***************************************************************************)
EXTENDS TrustProofs, FiniteSetTheorems

-----------------------------------------------------------------------------
\* Names on the way down.

\* The name probed below cur, at a greater depth, is strictly below it.
LEMMA DeeperIsBelow ==
  ASSUME NEW name \in Name, NEW m \in 0..Len(name), NEW n \in 0..Len(name), m < n
  PROVE  isStrictSubdomain(LastNLabels(name, n), LastNLabels(name, m))
PROOF
  <1>. DEFINE a == LastNLabels(name, m)
              b == LastNLabels(name, n)
  <1>1. Len(name) \in Nat
    BY DEF Name
  <1>2. a \in Name /\ Len(a) = m /\ b \in Name /\ Len(b) = n
    BY PrefixIsName
  <1>3. \A i \in 1..m : a[i] = name[i] /\ b[i] = name[i]
    BY <1>1, SubSeqProperties DEF LastNLabels, Name
  <1>4. LastNLabels(b, m) = a
    <2>1. LastNLabels(b, m) \in Name /\ Len(LastNLabels(b, m)) = m
      BY <1>2, PrefixIsName
    <2>2. \A i \in 1..m : LastNLabels(b, m)[i] = b[i]
      BY <1>1, <1>2, SubSeqProperties DEF LastNLabels, Name
    <2>. HIDE DEF a, b
    <2>. QED BY <1>2, <1>3, <2>1, <2>2, SeqEqual DEF Name
  <1>. HIDE DEF a, b
  <1>5. isStrictSubdomain(b, a)
    BY <1>2, <1>4 DEF isStrictSubdomain, isAtOrBelow
  <1>. QED BY <1>5 DEF a, b

\* An ancestor is the part of the name that has its length.
LEMMA AncestorIsPrefix ==
  ASSUME NEW name \in Name, NEW a \in ancestorsOf(name)
  PROVE  a = LastNLabels(name, Len(a)) /\ Len(a) \in 0..Len(name) /\ a \in Name
PROOF BY PrefixIsName DEF ancestorsOf

\* A name is an ancestor of itself and the root of every name.
LEMMA SelfAndRoot ==
  ASSUME NEW name \in Name
  PROVE  name \in ancestorsOf(name) /\ Root \in ancestorsOf(name)
PROOF
  <1>1. Len(name) \in Nat
    BY DEF Name
  <1>2. LastNLabels(name, Len(name)) = name
    <2>1. LastNLabels(name, Len(name)) \in Name /\ Len(LastNLabels(name, Len(name))) = Len(name)
      BY <1>1, PrefixIsName
    <2>2. \A i \in 1..Len(name) : LastNLabels(name, Len(name))[i] = name[i]
      BY <1>1, SubSeqProperties DEF LastNLabels, Name
    <2>. QED BY <2>1, <2>2, SeqEqual DEF Name
  <1>3. LastNLabels(name, 0) = Root
    <2>1. LastNLabels(name, 0) \in Name /\ Len(LastNLabels(name, 0)) = 0
      BY <1>1, PrefixIsName
    <2>. QED BY <2>1, EmptySeq DEF Name, Root
  <1>. QED BY <1>1, <1>2, <1>3 DEF ancestorsOf

-----------------------------------------------------------------------------
\* The shapes of a step of call w.

\* The locals of Validate stay.
Same(w) ==
  /\ qname'[w] = qname[w] /\ hop'[w] = hop[w] /\ seen'[w] = seen[w] /\ cur'[w] = cur[w]

\* The call returns r.
Returning(w, r) ==
  phase'[w] = "done" /\ res'[w] = r /\ Same(w) /\ depth'[w] = depth[w]

\* With an error.
ReturnsError(w) ==
  \/ \E err \in {"ErrResolver", "ErrChainTimeout"} : Returning(w, failed(res[w], err))
  \/ \E check : Returning(w, uncheckable(res[w], check))

\* With Bogus, for the loop over the aliases.
ReturnsLoop(w) ==
  /\ phase[w] = "hop" /\ (hop[w] > MaxAliasHops \/ qname[w] \in seen[w])
  /\ \E code \in {"alias-limit", "alias-loop"} : Returning(w, setBogus(res[w], qname[w], code))

Failure == Code \ {"none"}

\* With Bogus, for a zone whose keys or DS did not verify.
ReturnsBogusZone(w) ==
  \E name \in Name, sigs \in SUBSET Outcome, code \in Failure :
    /\ \/ phase[w] = "root" /\ name = Root
       \/ phase[w] \in {"ds", "keys"} /\ name = childName(w)
    /\ Returning(w, bogusOutcome(addStep(res[w], name, FALSE, sigs), name, code))

\* With Bogus, for what is in the zone the walk stands in.
ReturnsBogusData(w) ==
  /\ phase[w] = "leaf"
  /\ \E sigs \in SUBSET Outcome, code \in Failure :
       Returning(w, bogusOutcome(addStep(res[w], cur[w], FALSE, sigs), cur[w], code))

\* What a wildcard answer, and a verdict that something is absent, rest on.
ProvenExpansion(w, wildcard) ==
  wildcard # None => proveQnameNonExistence(zone[w], nextCloserName(qname[w], wildcard))

ProvenAbsence(w, v) ==
  /\ ~found[w]
  /\ v = "secure-nodata" => \E b \in proveNoData(zone[w], qname[w], qtype[w]) : b
  /\ v = "secure-nxdomain" => \E b \in proveNXDomain(zone[w], qname[w]) : b

\* With a verdict that vouches for something.
ReturnsVerdict(w) ==
  \/ /\ phase[w] = "ds" /\ proveNoDS(zone[w], childName(w))
     /\ Returning(w, insecureOutcome(res[w], childName(w)))
  \/ /\ phase[w] = "leaf"
     /\ \E sigs \in SUBSET Outcome, answer \in (SUBSET Record) \ {{}}, wildcard \in Name \cup {None} :
          /\ ProvenExpansion(w, wildcard)
          /\ Returning(w, secureOutcome(addStep(res[w], cur[w], FALSE, sigs), answer, wildcard))
  \/ /\ phase[w] = "leaf"
     /\ \E v \in {"secure-nodata", "secure-nxdomain", "indeterminate"} :
          ProvenAbsence(w, v) /\ Returning(w, applyOutcome(res[w], v))

\* A hop starts.
Starts(w) ==
  /\ phase[w] = "hop" /\ phase'[w] = "root"
  /\ hop[w] <= MaxAliasHops /\ qname[w] \notin seen[w]
  /\ seen'[w] = seen[w] \cup {qname[w]}
  /\ qname'[w] = qname[w] /\ hop'[w] = hop[w] /\ cur'[w] = cur[w] /\ depth'[w] = depth[w]
  /\ res'[w] = res[w]

\* A load goes on.
Loads(w) ==
  /\ phase[w] \in {"root", "ds", "keys", "leaf"} /\ phase'[w] = phase[w]
  /\ Same(w) /\ depth'[w] = depth[w] /\ dsSigs'[w] = dsSigs[w] /\ res'[w] = res[w]

\* The rrset of that name and type verified.
Verified(sigs, name, type) ==
  \E c \in sigs : c.name = name /\ c.type = type /\ c.result = "verified"

\* A cut is probed, found or not found, or the leaf is next.
Probes(w) ==
  /\ Same(w) /\ res'[w] = res[w]
  /\ \/ /\ phase[w] = "descend" /\ depth'[w] = depth[w]
        /\ phase'[w] = IF depth[w] <= Len(qname[w]) THEN "ds" ELSE "leaf"
     \/ Loaded(w, "ds") /\ phase'[w] = "descend" /\ depth'[w] = depth[w] + 1
     \/ /\ Loaded(w, "ds") /\ phase'[w] = "keys" /\ depth'[w] = depth[w]
        /\ Verified(dsSigs'[w], childName(w), "DS")

\* A zone is entered.
Enters(w) ==
  \E name \in Name, sigs \in SUBSET Outcome :
    /\ \/ phase[w] = "root" /\ name = Root
       \/ phase[w] = "keys" /\ name = childName(w) /\ dsSigs[w] \subseteq sigs
    /\ io[w] = "loaded"
    /\ Verified(sigs, name, "DNSKEY")
    /\ phase'[w] = "descend" /\ cur'[w] = name /\ depth'[w] = Len(name) + 1
    /\ qname'[w] = qname[w] /\ hop'[w] = hop[w] /\ seen'[w] = seen[w]
    /\ res'[w] = addStep(res[w], name, TRUE, sigs)

\* What the alias leads to, by the records of the store z.
LeadsTo(z, name, alias) ==
  \/ /\ alias.type = "CNAME" /\ alias.from = name
     /\ alias.target \in Vals(FindRRSet(z, name, "CNAME"))
  \/ /\ alias.type = "DNAME" /\ alias.from \in properAncestors(name)
     /\ \E v \in Vals(FindRRSet(z, alias.from, "DNAME")) :
          alias.target = synthesiseDNAMETarget(name, alias.from, v)

\* An alias is followed.
Follows(w) ==
  \E alias \in Alias, sigs \in SUBSET Outcome :
    /\ phase[w] = "leaf" /\ io[w] = "loaded" /\ ~found[w]
    /\ checkRRSet(zone[w], alias.from, alias.type, "None").ok
    /\ LeadsTo(zone[w], qname[w], alias)
    /\ phase'[w] = "hop" /\ qname'[w] = alias.target /\ hop'[w] = hop[w] + 1
    /\ seen'[w] = seen[w] /\ cur'[w] = cur[w] /\ depth'[w] = depth[w]
    /\ LET r == addStep(res[w], cur[w], FALSE, sigs)
       IN  res'[w] = [r EXCEPT !.combined = Combined(r, "secure"),
                               !.aliases = Append(r.aliases, alias)]

Shape(w) ==
  \/ ReturnsError(w) \/ ReturnsLoop(w) \/ ReturnsBogusZone(w) \/ ReturnsBogusData(w)
  \/ ReturnsVerdict(w)
  \/ Starts(w) \/ Loads(w) \/ Probes(w) \/ Enters(w) \/ Follows(w)

\* A failed rrset has a code other than none.
LEMMA FailureHasCode ==
  ASSUME NEW z \in Store, NEW name \in Name, NEW type \in RRType, NEW mode,
         ~checkRRSet(z, name, type, mode).ok
  PROVE  checkRRSet(z, name, type, mode).code \in Failure
PROOF
  <1>. DEFINE check == checkRRSet(z, name, type, mode)
              results == CheckRRSet(z, name, type, mode)
  <1>1. check.code \in Code
    BY CheckType
  <1>2. check.code = sigFailureCode(results) /\ \A c \in results : c.result # "verified"
    BY DEF checkRRSet
  <1>3. results \subseteq Outcome
    BY CheckRRSetType
  <1>4. sigFailureCode(results) # "none"
    <2>1. CASE results = {}
      BY <2>1 DEF sigFailureCode
    <2>2. CASE results # {}
      <3>. HIDE DEF results
      <3>. DEFINE met == {c.result : c \in results}
                  First(i) == /\ sigFailureOrder[i] \in met
                              /\ \A j \in 1..(i - 1) : sigFailureOrder[j] \notin met
      <3>1. \A i \in 1..5 : sigFailureOrder[i] # "none"
        BY DEF sigFailureOrder
      <3>2. \E i \in 1..5 : sigFailureOrder[i] \in met
        <4>1. PICK c \in results : TRUE
          BY <2>2
        <4>2. c.result \in met /\ c.result \in SigStatus \ {"verified"}
          BY <1>2, <1>3, <4>1 DEF Outcome
        <4>. QED BY <4>2 DEF sigFailureOrder, SigStatus
      <3>3. \E i \in 1..5 : First(i)
        <4>. HIDE DEF met
        <4>. QED BY <3>2
      <3>4. sigFailureCode(results) = sigFailureOrder[CHOOSE i \in 1..5 : First(i)]
        BY <2>2 DEF sigFailureCode
      <3>. HIDE DEF First
      <3>5. (CHOOSE i \in 1..5 : First(i)) \in 1..5
        BY <3>3
      <3>. QED BY <3>1, <3>4, <3>5
    <2>. QED BY <2>1, <2>2
  <1>. QED BY <1>1, <1>2, <1>4 DEF Failure

\* A verified rrset shows in its checks.
LEMMA OkIsVerified ==
  ASSUME NEW z, NEW name, NEW type, NEW mode, checkRRSet(z, name, type, mode).ok
  PROVE  Verified(checkRRSet(z, name, type, mode).sigs, name, type)
PROOF BY DEF checkRRSet, CheckRRSet, Verified

\* A call that returns does so at its own place.
LEMMA DoneReturns ==
  ASSUME TypeOK, NEW w \in Walker, NEW r, Done(w, r)
  PROVE  Returning(w, r)
PROOF BY DEF TypeOK, CallType, Done, Returning, Same

\* The top of the loop.
LEMMA HopShape ==
  ASSUME TypeOK, NEW w \in Walker, Hop(w)
  PROVE  Shape(w)
PROOF
  <1>0. hop[w] \in Nat /\ qname[w] \in Name
    BY BoundsAssumption DEF TypeOK, CallType
  <1>1. CASE HopLimit(w)
    BY <1>1, DoneReturns DEF HopLimit, ReturnsLoop, Shape
  <1>2. CASE HopLoop(w)
    BY <1>2, DoneReturns DEF HopLoop, HopGo, ReturnsLoop, Shape
  <1>3. CASE HopStart(w)
    <2>1. Starts(w)
      BY <1>3 DEF HopStart, HopGo, Enter, TypeOK, CallType, Starts
    <2>. QED BY <2>1 DEF Shape
  <1>4. CASE ContextEnded(w)
    BY <1>4, DoneReturns DEF ContextEnded, ReturnsError, Shape
  <1>. QED BY <1>1, <1>2, <1>3, <1>4 DEF Hop

\* loadRecords.
LEMMA LoadShape ==
  ASSUME TypeOK, NEW w \in Walker, Load(w)
  PROVE  Shape(w)
PROOF
  <1>1. phase[w] \in {"root", "ds", "keys", "leaf"}
    BY DEF Load, CacheHit, CacheMiss, QueryReply, QueryDamaged, QueryError, QueryCancelled,
           KeepAnswer, TypeOK, CallType, ControlType
  <1>2. ASSUME NEW rrs, NEW sigs, applyRecords(w, rrs, sigs) PROVE Shape(w)
    BY <1>1, <1>2 DEF applyRecords, TypeOK, CallType, Loads, Same, Shape
  <1>3. ASSUME NEW resp, QueryReturn(w, resp) PROVE Shape(w)
    <2>1. CASE Usable(resp)
      BY <1>1, <1>3, <2>1 DEF QueryReturn, TypeOK, CallType, Loads, Same, Shape
    <2>. QED BY <1>3, <2>1, DoneReturns DEF QueryReturn, ReturnsError, Shape
  <1>4. CASE CacheHit(w) \/ KeepAnswer(w)
    BY <1>2, <1>4 DEF CacheHit, KeepAnswer
  <1>5. CASE CacheMiss(w)
    BY <1>1, <1>5 DEF CacheMiss, TypeOK, CallType, Loads, Same, Shape
  <1>6. CASE QueryReply(w) \/ QueryDamaged(w)
    BY <1>3, <1>6 DEF QueryReply, QueryDamaged
  <1>7. CASE QueryError(w) \/ QueryCancelled(w)
    BY <1>7, DoneReturns DEF QueryError, QueryCancelled, ReturnsError, Shape
  <1>. QED BY <1>4, <1>5, <1>6, <1>7 DEF Load

\* A verified rrset has records.
LEMMA OkHasRecords ==
  ASSUME NEW z, NEW name, NEW type, NEW mode, checkRRSet(z, name, type, mode).ok
  PROVE  FindRRSet(z, name, type) # {}
PROOF
  <1>1. PICK s \in FindRRSIGs(z, name, type) : CheckRRSIG(z, name, type, s, mode) = "verified"
    BY DEF checkRRSet, CheckRRSet
  <1>. QED BY <1>1 DEF CheckRRSIG, validityStatus

\* A zone is entered, or the call returns for it.
LEMMA AuthenticateShape ==
  ASSUME TypeOK, NEW w \in Walker, NEW name \in Name, NEW digests,
         NEW before \in SUBSET Outcome, NEW noMatch \in Failure,
         \/ phase[w] = "root" /\ name = Root
         \/ phase[w] = "keys" /\ name = childName(w) /\ dsSigs[w] \subseteq before,
         io[w] = "loaded",
         authenticate(w, name, digests, before, noMatch)
  PROVE  Shape(w)
PROOF
  <1>. DEFINE ksks  == keysMatchingDS(kid[w], name, digests)
              z     == AddTrustedKeys(kid[w], ksks)
              check == checkRRSet(z, name, "DNSKEY", "KSK")
              sigs  == before \cup check.sigs
  <1>1. z \in Store /\ "DNSKEY" \in RRType
    BY TrustedType, BoundsAssumption DEF TypeOK, CallType
  <1>2. check.sigs \subseteq Outcome /\ (~check.ok => check.code \in Failure)
    <2>. HIDE DEF z
    <2>. QED BY <1>1, CheckType, FailureHasCode
  <1>3. sigs \in SUBSET Outcome
    BY <1>2
  <1>4. CASE Done(w, bogusOutcome(addStep(res[w], name, FALSE, before), name, noMatch))
    BY <1>4, DoneReturns DEF ReturnsBogusZone, Shape
  <1>5. CASE Done(w, uncheckable(res[w], check))
    <2>. HIDE DEF check
    <2>. QED BY <1>5, DoneReturns DEF ReturnsError, Shape
  <1>6. CASE ~check.ok /\ Done(w, bogusOutcome(addStep(res[w], name, FALSE, sigs), name, check.code))
    <2>. HIDE DEF check, sigs
    <2>. QED BY <1>2, <1>3, <1>6, DoneReturns DEF ReturnsBogusZone, Shape
  <1>7. CASE check.ok /\ Descend(w, z, name, addStep(res[w], name, TRUE, sigs))
    <2>1. Verified(sigs, name, "DNSKEY")
      <3>1. Verified(check.sigs, name, "DNSKEY")
        <4>. HIDE DEF z
        <4>. QED BY <1>7, OkIsVerified
      <3>. HIDE DEF check
      <3>. QED BY <3>1 DEF Verified
    <2>2. phase[w] = "keys" => dsSigs[w] \subseteq sigs
      BY DEF Root
    <2>. DEFINE r == addStep(res[w], name, TRUE, sigs)
    <2>3. Descend(w, z, name, r)
      BY <1>7
    <2>. HIDE DEF z, sigs, r
    <2>4. /\ phase'[w] = "descend" /\ cur'[w] = name /\ depth'[w] = Len(name) + 1
          /\ qname'[w] = qname[w] /\ hop'[w] = hop[w] /\ seen'[w] = seen[w] /\ res'[w] = r
      BY <2>3 DEF Descend, TypeOK, CallType
    <2>5. Enters(w)
      BY <1>3, <2>1, <2>2, <2>4 DEF Enters, r
    <2>. QED BY <2>5 DEF Shape
  <1>. QED BY <1>4, <1>5, <1>6, <1>7 DEF authenticate

\* validateRoot and descendInto.
LEMMA CutShape ==
  ASSUME TypeOK, NEW w \in Walker, Cut(w)
  PROVE  Shape(w)
PROOF
  <1>0. \A c \in {"trust-anchor-mismatch", "no-dnskey", "ds-mismatch"} : c \in Failure
    BY DEF Failure, Code
  <1>1. CASE ValidateRoot(w)
    BY <1>0, <1>1, AuthenticateShape, RootIsName DEF ValidateRoot, Loaded
  <1>2. CASE NextLabel(w)
    <2>1. Probes(w)
      BY <1>2 DEF NextLabel, Enter, TypeOK, CallType, Probes, Same
    <2>. QED BY <2>1 DEF Shape
  <1>3. CASE NoDS(w)
    <2>1. CASE proveNoDS(zone[w], childName(w)) /\ Done(w, insecureOutcome(res[w], childName(w)))
      BY <1>3, <2>1, DoneReturns DEF NoDS, Loaded, ReturnsVerdict, Shape
    <2>2. CASE notACut(w)
      <3>1. Probes(w)
        BY <1>3, <2>2 DEF NoDS, notACut, Loaded, TypeOK, CallType, Probes, Same
      <3>. QED BY <3>1 DEF Shape
    <2>. QED BY <1>3, <2>1, <2>2 DEF NoDS
  <1>4. CASE CheckDS(w)
    <2>. DEFINE child == childName(w)
                check == checkRRSet(zone[w], child, "DS", "None")
    <2>1. child \in Name /\ zone[w] \in Store /\ Loaded(w, "ds") /\ phase[w] = "ds" /\ "DS" \in RRType
      BY <1>4, ChildNameType, BoundsAssumption DEF CheckDS, Loaded, TypeOK, CallType
    <2>2. check.sigs \in SUBSET Outcome /\ (~check.ok => check.code \in Failure)
      BY <2>1, CheckType, FailureHasCode
    <2>3. check.ok => Verified(check.sigs, child, "DS")
      BY OkIsVerified
    <2>. HIDE DEF check
    <2>4. CASE Done(w, uncheckable(res[w], check))
      BY <2>4, DoneReturns DEF ReturnsError, Shape
    <2>5. CASE ~check.ok
               /\ Done(w, bogusOutcome(addStep(res[w], child, FALSE, check.sigs), child, check.code))
      BY <2>1, <2>2, <2>5, DoneReturns DEF ReturnsBogusZone, Shape
    <2>6. CASE /\ check.ok
               /\ dsSigs' = [dsSigs EXCEPT ![w] = check.sigs]
               /\ Enter(w, "keys")
               /\ UNCHANGED <<qname, hop, seen, depth, cur, zone, found, res>>
      <3>1. phase'[w] = "keys" /\ dsSigs'[w] = check.sigs
        BY <2>6 DEF Enter, TypeOK, CallType
      <3>2. Probes(w)
        BY <2>1, <2>3, <2>6, <3>1 DEF Probes, Same
      <3>. QED BY <3>2 DEF Shape
    <2>. QED BY <1>4, <2>4, <2>5, <2>6 DEF CheckDS, check
  <1>5. CASE AuthenticateKeys(w)
    <2>1. childName(w) \in Name /\ dsSigs[w] \in SUBSET Outcome
      BY <1>5, ChildNameType DEF AuthenticateKeys, Loaded, TypeOK, CallType
    <2>. QED BY <1>0, <1>5, <2>1, AuthenticateShape DEF AuthenticateKeys, Loaded
  <1>. QED BY <1>1, <1>2, <1>3, <1>4, <1>5 DEF Cut

\* An alias is followed, or the call returns for it.
LEMMA FollowAliasShape ==
  ASSUME TypeOK, NEW w \in Walker, Loaded(w, "leaf"), ~found[w],
         NEW type \in {"CNAME", "DNAME"}, NEW owner \in Name, NEW targets \in SUBSET Name,
         \A target \in targets :
           LeadsTo(zone[w], qname[w], [type |-> type, from |-> owner, target |-> target, zone |-> cur[w]]),
         followAlias(w, type, owner, targets)
  PROVE  Shape(w)
PROOF
  <1>. DEFINE check == checkRRSet(zone[w], owner, type, "None")
              r     == addZoneSigs(res[w], cur[w], check.sigs)
  <1>1. zone[w] \in Store /\ cur[w] \in Name /\ type \in RRType /\ phase[w] = "leaf"
    BY BoundsAssumption DEF TypeOK, CallType, Loaded
  <1>2. check.sigs \in SUBSET Outcome /\ (~check.ok => check.code \in Failure)
    BY <1>1, CheckType, FailureHasCode
  <1>3. r = addStep(res[w], cur[w], FALSE, check.sigs)
    BY DEF addZoneSigs
  <1>4. CASE Done(w, uncheckable(res[w], check))
    <2>. HIDE DEF check
    <2>. QED BY <1>4, DoneReturns DEF ReturnsError, Shape
  <1>5. CASE ~check.ok /\ Done(w, bogusOutcome(r, cur[w], check.code))
    <2>. HIDE DEF check, r
    <2>. QED BY <1>1, <1>2, <1>3, <1>5, DoneReturns DEF ReturnsBogusData, Shape
  <1>6. ASSUME NEW target \in targets, check.ok, Redirect(w, r, type, owner, target)
        PROVE  Shape(w)
    <2>. DEFINE alias == [type |-> type, from |-> owner, target |-> target, zone |-> cur[w]]
    <2>1. alias \in Alias
      BY <1>1 DEF Alias
    <2>2. check.ok /\ LeadsTo(zone[w], qname[w], alias)
      BY <1>6
    <2>3. check = checkRRSet(zone[w], alias.from, alias.type, "None") /\ alias.target = target
      OBVIOUS
    <2>. HIDE DEF check, r
    <2>4. /\ phase'[w] = "hop" /\ qname'[w] = target /\ hop'[w] = hop[w] + 1
          /\ seen'[w] = seen[w] /\ cur'[w] = cur[w] /\ depth'[w] = depth[w]
          /\ res'[w] = [r EXCEPT !.combined = Combined(r, "secure"),
                                 !.aliases = Append(r.aliases, alias)]
      BY <1>6 DEF Redirect, TypeOK, CallType
    <2>. HIDE DEF alias
    <2>5. Follows(w)
      <3>. USE <1>2, <2>1 DEF Follows
      <3>1. /\ phase[w] = "leaf" /\ io[w] = "loaded" /\ ~found[w]
            /\ checkRRSet(zone[w], alias.from, alias.type, "None").ok
            /\ LeadsTo(zone[w], qname[w], alias)
            /\ phase'[w] = "hop" /\ qname'[w] = alias.target /\ hop'[w] = hop[w] + 1
            /\ seen'[w] = seen[w] /\ cur'[w] = cur[w] /\ depth'[w] = depth[w]
        BY <1>1, <2>2, <2>3, <2>4 DEF Loaded
      <3>2. LET s == addStep(res[w], cur[w], FALSE, check.sigs)
            IN  res'[w] = [s EXCEPT !.combined = Combined(s, "secure"),
                                    !.aliases = Append(s.aliases, alias)]
        BY <1>3, <2>4
      <3>. WITNESS alias \in Alias, check.sigs \in SUBSET Outcome
      <3>. QED BY <3>1, <3>2
    <2>. QED BY <2>5 DEF Shape
  <1>. QED BY <1>4, <1>5, <1>6 DEF followAlias

\* resolveLeaf.
LEMMA LeafShape ==
  ASSUME TypeOK, NEW w \in Walker, Leaf(w)
  PROVE  Shape(w)
PROOF
  <1>1. /\ phase[w] = "leaf" /\ zone[w] \in Store /\ cur[w] \in Name /\ qname[w] \in Name
        /\ qtype[w] \in RRType
    BY DEF Leaf, LeafAnswer, LeafDNAME, LeafCNAME, LeafDenial, Loaded, TypeOK, CallType
  <1>2. CASE LeafAnswer(w)
    <2>. DEFINE check  == checkRRSet(zone[w], qname[w], qtype[w], "None")
                r      == addZoneSigs(res[w], cur[w], check.sigs)
                answer == FindRRSet(zone[w], qname[w], qtype[w])
    <2>1. check.sigs \in SUBSET Outcome /\ (~check.ok => check.code \in Failure)
      BY <1>1, CheckType, FailureHasCode
    <2>2. check.ok => answer \in (SUBSET Record) \ {{}}
      BY <1>1, OkHasRecords DEF FindRRSet, Store
    <2>3. r = addStep(res[w], cur[w], FALSE, check.sigs)
      BY DEF addZoneSigs
    <2>4. CASE Done(w, uncheckable(res[w], check))
      <3>. HIDE DEF check
      <3>. QED BY <2>4, DoneReturns DEF ReturnsError, Shape
    <2>5. ASSUME NEW code \in Failure, Done(w, bogusOutcome(r, cur[w], code)) PROVE Shape(w)
      <3>. HIDE DEF check, r
      <3>. QED BY <1>1, <2>1, <2>3, <2>5, DoneReturns DEF ReturnsBogusData, Shape
    <2>6. ASSUME NEW wildcard \in Name \cup {None}, ProvenExpansion(w, wildcard),
                 check.ok, Done(w, secureOutcome(r, answer, wildcard))
          PROVE  Shape(w)
      <3>. HIDE DEF check, r, answer
      <3>1. Returning(w, secureOutcome(addStep(res[w], cur[w], FALSE, check.sigs), answer, wildcard))
        BY <2>3, <2>6, DoneReturns
      <3>2. ReturnsVerdict(w)
        BY <1>1, <2>1, <2>2, <2>6, <3>1 DEF ReturnsVerdict
      <3>. QED BY <3>2 DEF Shape
    <2>7. "wildcard-proof-missing" \in Failure
      BY DEF Failure, Code
    <2>8. \A n \in detectWildcard(zone[w], qname[w], qtype[w]) :
            /\ LastNLabels(qname[w], n) \in Name
            /\ nextCloserName(qname[w], LastNLabels(qname[w], n)) = LastNLabels(qname[w], n + 1)
      <3>1. detectWildcard(zone[w], qname[w], qtype[w]) \subseteq 0..Len(qname[w])
        BY <1>1, RecordAssumption DEF detectWildcard, FindRRSIGs, Store, Name
      <3>. QED BY <1>1, <3>1, PrefixIsName DEF nextCloserName
    <2>9. ASSUME NEW n \in detectWildcard(zone[w], qname[w], qtype[w]), check.ok,
                 proveQnameNonExistence(zone[w], LastNLabels(qname[w], n + 1)),
                 Done(w, secureOutcome(r, answer, LastNLabels(qname[w], n)))
          PROVE  Shape(w)
      <3>1. ProvenExpansion(w, LastNLabels(qname[w], n))
        BY <2>8, <2>9 DEF ProvenExpansion
      <3>. HIDE DEF r, answer, check
      <3>. QED BY <2>6, <2>8, <2>9, <3>1
    <2>10. ProvenExpansion(w, None)
      BY DEF ProvenExpansion
    <2>. HIDE DEF r, answer, check
    <2>. QED BY <1>2, <2>1, <2>4, <2>5, <2>6, <2>7, <2>9, <2>10 DEF LeafAnswer, r, answer, check
  <1>3. CASE LeafDNAME(w)
    <2>1. PICK owner \in dnameOwners(w) :
            followAlias(w, "DNAME", owner, {synthesiseDNAMETarget(qname[w], owner, v) :
                                              v \in Vals(FindRRSet(zone[w], owner, "DNAME"))})
      BY <1>3 DEF LeafDNAME
    <2>. DEFINE targets == {synthesiseDNAMETarget(qname[w], owner, v) :
                              v \in Vals(FindRRSet(zone[w], owner, "DNAME"))}
    <2>2. owner \in Name /\ owner \in properAncestors(qname[w])
      BY <1>1, <2>1, AncestorIsName DEF dnameOwners, properAncestors
    <2>3. targets \in SUBSET Name
      <3>1. Vals(FindRRSet(zone[w], owner, "DNAME")) \subseteq Name
        BY <1>1, RecordAssumption DEF Vals, FindRRSet, Store
      <3>2. owner \in ancestorsOf(qname[w])
        BY <2>2 DEF properAncestors
      <3>. QED BY <1>1, <3>1, <3>2, SynthesisedIsName
    <2>4. \A target \in targets :
            LeadsTo(zone[w], qname[w],
                    [type |-> "DNAME", from |-> owner, target |-> target, zone |-> cur[w]])
      BY <2>2 DEF LeadsTo
    <2>5. Loaded(w, "leaf") /\ ~found[w] /\ followAlias(w, "DNAME", owner, targets)
      BY <1>3, <2>1 DEF LeafDNAME
    <2>. HIDE DEF targets
    <2>. QED BY <2>2, <2>3, <2>4, <2>5, FollowAliasShape
  <1>4. CASE LeafCNAME(w)
    <2>1. /\ Loaded(w, "leaf") /\ ~found[w]
          /\ cnamesAt(w) = FindRRSet(zone[w], qname[w], "CNAME")
          /\ followAlias(w, "CNAME", qname[w], Vals(cnamesAt(w)))
      BY <1>4 DEF LeafCNAME, cnamesAt
    <2>2. Vals(cnamesAt(w)) \in SUBSET Name
      BY <1>1, <2>1, RecordAssumption DEF Vals, FindRRSet, Store
    <2>3. \A target \in Vals(cnamesAt(w)) :
            LeadsTo(zone[w], qname[w],
                    [type |-> "CNAME", from |-> qname[w], target |-> target, zone |-> cur[w]])
      BY <2>1 DEF LeadsTo
    <2>. QED BY <1>1, <2>1, <2>2, <2>3, FollowAliasShape
  <1>5. CASE LeafDenial(w)
    <2>1. PICK v \in {"secure-nodata", "secure-nxdomain", "indeterminate"} :
            ProvenAbsence(w, v) /\ Done(w, applyOutcome(res[w], v))
      BY <1>5 DEF LeafDenial, ProvenAbsence
    <2>. QED BY <1>1, <2>1, DoneReturns DEF ReturnsVerdict, Shape
  <1>. QED BY <1>2, <1>3, <1>4, <1>5 DEF Leaf

\* Every step of a call has a shape.
LEMMA StepShape ==
  ASSUME TypeOK, NEW w \in Walker, Validate(w)
  PROVE  Shape(w)
PROOF BY HopShape, LoadShape, CutShape, LeafShape DEF Validate

\* A call that has returned takes no step.
LEMMA StepRuns ==
  ASSUME TypeOK, NEW w \in Walker, Validate(w)
  PROVE  phase[w] # "done"
PROOF
  <1>1. CASE Hop(w)
    BY <1>1 DEF Hop, HopLimit, HopLoop, HopStart, ContextEnded, HopGo
  <1>2. CASE Load(w)
    BY <1>2 DEF Load, CacheHit, CacheMiss, QueryReply, QueryDamaged, QueryError, QueryCancelled,
                KeepAnswer, TypeOK, ControlType
  <1>3. CASE Cut(w) \/ Leaf(w)
    BY <1>3 DEF Cut, ValidateRoot, NextLabel, NoDS, CheckDS, AuthenticateKeys,
                Leaf, LeafAnswer, LeafDNAME, LeafCNAME, LeafDenial, Loaded
  <1>. QED BY <1>1, <1>2, <1>3 DEF Validate

\* Of every call, a step of the system takes a step or leaves it alone.
LEMMA StepOrStay ==
  ASSUME TypeOK, [Next]_vars, NEW v \in Walker
  PROVE  (phase[v] # "done" /\ Shape(v)) \/ Untouched(v)
PROOF
  <1>1. ASSUME NEW w \in Walker, Validate(w)
        PROVE  (phase[v] # "done" /\ Shape(v)) \/ Untouched(v)
    BY <1>1, StepShape, StepRuns, ValidateUntouched
  <1>2. ASSUME UNCHANGED <<phase, io, qname, qtype, hop, seen, depth, cur, zone, kid, dsSigs,
                           found, res>>
        PROVE  Untouched(v)
    BY <1>2 DEF Untouched
  <1>. QED BY <1>1, <1>2 DEF Next, Expire, Republish, Tick, Finished, calls, vars

-----------------------------------------------------------------------------
\* Results.

\* A step of the chain changes nothing else of a result.
LEMMA AddStepKeeps ==
  ASSUME NEW r \in Result, NEW name \in Name, NEW signed \in BOOLEAN, NEW sigs \in SUBSET Outcome
  PROVE  LET s == addStep(r, name, signed, sigs)
         IN  /\ s \in Result
             /\ s.verdict = r.verdict /\ s.combined = r.combined /\ s.code = r.code
             /\ s.bogusAt = r.bogusAt /\ s.insecureAt = r.insecureAt /\ s.aliases = r.aliases
             /\ s.answer = r.answer /\ s.wildcard = r.wildcard /\ s.err = r.err
PROOF
  <1>. DEFINE s == addStep(r, name, signed, sigs)
  <1>1. s \in Result
    BY StepType
  <1>2. \E c : s = [r EXCEPT !.chain = c]
    BY DEF addStep
  <1>. HIDE DEF s
  <1>3. /\ s.verdict = r.verdict /\ s.combined = r.combined /\ s.code = r.code
        /\ s.bogusAt = r.bogusAt /\ s.insecureAt = r.insecureAt /\ s.aliases = r.aliases
        /\ s.answer = r.answer /\ s.wildcard = r.wildcard /\ s.err = r.err
    BY <1>2 DEF Result
  <1>. QED BY <1>1, <1>3 DEF s

\* The result of a call that runs: nothing is decided.
Undecided(r) ==
  /\ r.verdict = "indeterminate" /\ r.combined \in {None, "secure"} /\ r.code = "none"
  /\ r.bogusAt = None /\ r.insecureAt = None /\ r.answer = {} /\ r.err = "nil"

\* The code and the places of a result go with its verdict.
Consistent(r) ==
  /\ (r.code # "none") <=> \/ r.verdict \in {"bogus", "insecure"}
                           \/ r.err = "ErrVerifier" /\ r.code = "unsupported-algorithm"
  /\ (r.bogusAt # None) <=> (r.verdict = "bogus")
  /\ (r.insecureAt # None) <=> (r.verdict = "insecure")
  /\ (r.answer # {}) <=> (r.verdict = "secure")
  /\ r.err # "nil" => r.verdict = "indeterminate"

\* While a call runs its result is undecided; what it returns is consistent.
Decision(w) == IF phase[w] = "done" THEN Consistent(res[w]) ELSE Undecided(res[w])

\* A step of the chain decides nothing.
LEMMA AddStepUndecided ==
  ASSUME NEW r \in Result, NEW name \in Name, NEW signed \in BOOLEAN, NEW sigs \in SUBSET Outcome,
         Undecided(r)
  PROVE  Undecided(addStep(r, name, signed, sigs))
PROOF BY AddStepKeeps DEF Undecided

\* The first verdict is the one returned, the hops before being secure.
LEMMA UndecidedCombines ==
  ASSUME NEW r \in Result, Undecided(r), NEW v \in Verdict
  PROVE  /\ Combined(r, v) = v
         /\ applyOutcome(r, v) = [r EXCEPT !.verdict = v, !.combined = v]
PROOF
  <1>1. Combined(r, v) = v
    BY DEF Undecided, Combined, combineVerdicts, Verdict
  <1>. QED BY <1>1 DEF applyOutcome

\* What is returned from an undecided result is consistent.
LEMMA OutcomesConsistent ==
  ASSUME NEW r \in Result, Undecided(r), NEW at \in Name
  PROVE  /\ \A err \in {"ErrResolver", "ErrChainTimeout"} : Consistent(failed(r, err))
         /\ \A check : Consistent(uncheckable(r, check))
         /\ \A code \in Failure : Consistent(setBogus(r, at, code)) /\ Consistent(bogusOutcome(r, at, code))
         /\ Consistent(insecureOutcome(r, at))
         /\ \A answer \in (SUBSET Record) \ {{}}, wildcard \in Name \cup {None} :
              Consistent(secureOutcome(r, answer, wildcard))
         /\ \A v \in {"secure-nodata", "secure-nxdomain", "indeterminate"} :
              Consistent(applyOutcome(r, v))
PROOF
  <1>0. at # None
    BY NoneAssumption
  <1>1. \A err \in {"ErrResolver", "ErrChainTimeout"} : Consistent(failed(r, err))
    BY DEF failed, Consistent, Undecided, Result
  <1>2. ASSUME NEW check PROVE Consistent(uncheckable(r, check))
    BY DEF uncheckable, Consistent, Undecided, Result
  <1>3. ASSUME NEW code \in Failure PROVE Consistent(setBogus(r, at, code))
    BY <1>0, <1>3 DEF setBogus, Consistent, Undecided, Result, Failure
  <1>4. ASSUME NEW code \in Failure PROVE Consistent(bogusOutcome(r, at, code))
    <2>1. applyOutcome(r, "bogus") = [r EXCEPT !.verdict = "bogus", !.combined = "bogus"]
      BY UndecidedCombines DEF Verdict
    <2>. QED BY <1>0, <1>4, <2>1 DEF bogusOutcome, Consistent, Undecided, Result, Failure
  <1>5. Consistent(insecureOutcome(r, at))
    <2>1. applyOutcome(r, "insecure") = [r EXCEPT !.verdict = "insecure", !.combined = "insecure"]
      BY UndecidedCombines DEF Verdict
    <2>. QED BY <1>0, <2>1 DEF insecureOutcome, Consistent, Undecided, Result
  <1>6. ASSUME NEW answer \in (SUBSET Record) \ {{}}, NEW wildcard \in Name \cup {None}
        PROVE  Consistent(secureOutcome(r, answer, wildcard))
    <2>1. applyOutcome(r, "secure") = [r EXCEPT !.verdict = "secure", !.combined = "secure"]
      BY UndecidedCombines DEF Verdict
    <2>. QED BY <1>6, <2>1 DEF secureOutcome, Consistent, Undecided, Result
  <1>7. ASSUME NEW v \in {"secure-nodata", "secure-nxdomain", "indeterminate"}
        PROVE  Consistent(applyOutcome(r, v))
    <2>1. applyOutcome(r, v) = [r EXCEPT !.verdict = v, !.combined = v]
      <3>1. v \in Verdict
        BY <1>7 DEF Verdict
      <3>. QED BY <3>1, UndecidedCombines
    <2>. QED BY <1>7, <2>1 DEF Consistent, Undecided, Result
  <1>. QED BY <1>1, <1>2, <1>3, <1>4, <1>5, <1>6, <1>7

\* A step decides at most once.
LEMMA ShapeDecision ==
  ASSUME TypeOK, NEW w \in Walker, phase[w] # "done", Decision(w), Shape(w)
  PROVE  Decision(w)'
PROOF
  <1>1. /\ res[w] \in Result /\ Undecided(res[w]) /\ cur[w] \in Name /\ qname[w] \in Name
        /\ phase[w] \in {"ds", "keys"} => childName(w) \in Name
    BY ChildNameType DEF TypeOK, CallType, Decision
  <1>2. ASSUME NEW r, Returning(w, r), Consistent(r) PROVE Decision(w)'
    BY <1>2 DEF Returning, Decision, Consistent
  <1>3. \A name \in Name, signed \in BOOLEAN, sigs \in SUBSET Outcome :
          LET s == addStep(res[w], name, signed, sigs) IN s \in Result /\ Undecided(s)
    BY <1>1, AddStepKeeps, AddStepUndecided
  <1>4. CASE ReturnsError(w)
    BY <1>1, <1>2, <1>4, OutcomesConsistent DEF ReturnsError
  <1>5. CASE ReturnsLoop(w)
    <2>1. {"alias-limit", "alias-loop"} \subseteq Failure
      BY DEF Failure, Code
    <2>. QED BY <1>1, <1>2, <1>5, <2>1, OutcomesConsistent DEF ReturnsLoop
  <1>6. CASE ReturnsBogusZone(w)
    BY <1>2, <1>3, <1>6, OutcomesConsistent DEF ReturnsBogusZone
  <1>7. CASE ReturnsBogusData(w)
    BY <1>1, <1>2, <1>3, <1>7, OutcomesConsistent DEF ReturnsBogusData
  <1>8. CASE ReturnsVerdict(w)
    BY <1>1, <1>2, <1>3, <1>8, OutcomesConsistent DEF ReturnsVerdict
  <1>9. CASE Starts(w) \/ Loads(w) \/ Probes(w)
    <2>1. phase'[w] # "done" /\ res'[w] = res[w]
      BY <1>9 DEF Starts, Loads, Probes
    <2>. QED BY <1>1, <2>1 DEF Decision, Undecided
  <1>10. CASE Enters(w)
    <2>1. phase'[w] # "done" /\ Undecided(res'[w])
      BY <1>3, <1>10 DEF Enters
    <2>. QED BY <2>1 DEF Decision, Undecided
  <1>11. CASE Follows(w)
    <2>1. PICK alias \in Alias, sigs \in SUBSET Outcome :
            /\ phase'[w] = "hop"
            /\ LET r == addStep(res[w], cur[w], FALSE, sigs)
               IN  res'[w] = [r EXCEPT !.combined = Combined(r, "secure"),
                                       !.aliases = Append(r.aliases, alias)]
      BY <1>11 DEF Follows
    <2>. DEFINE r == addStep(res[w], cur[w], FALSE, sigs)
    <2>2. r \in Result /\ Undecided(r)
      BY <1>1, <1>3
    <2>3. res'[w] = [r EXCEPT !.combined = Combined(r, "secure"), !.aliases = Append(r.aliases, alias)]
      BY <2>1
    <2>. HIDE DEF r
    <2>4. Combined(r, "secure") = "secure"
      BY <2>2, UndecidedCombines DEF Verdict
    <2>. QED BY <2>1, <2>2, <2>3, <2>4 DEF Decision, Undecided, Result
  <1>. QED BY <1>4, <1>5, <1>6, <1>7, <1>8, <1>9, <1>10, <1>11 DEF Shape

Decisions == \A w \in Walker : Decision(w)

\* Nothing is decided at first, and every step keeps decisions consistent.
LEMMA InitDecisions == Init => Decisions
PROOF BY DEF Init, NewResult, Decisions, Decision, Undecided

LEMMA NextDecisions == TypeOK /\ Decisions /\ [Next]_vars => Decisions'
PROOF
  <1>. SUFFICES ASSUME TypeOK, Decisions, [Next]_vars, NEW v \in Walker PROVE Decision(v)'
    BY DEF Decisions
  <1>1. Decision(v)
    BY DEF Decisions
  <1>2. CASE Untouched(v)
    BY <1>1, <1>2 DEF Untouched, Decision, Consistent, Undecided
  <1>. QED BY <1>1, <1>2, StepOrStay, ShapeDecision

\* A call decides when it returns, and then consistently.
LEMMA DecisionsHold == Spec => []Decisions
PROOF BY TypeCorrect, InitDecisions, NextDecisions, PTL DEF Spec

(***************************************************************************)
(* The code, the bogus and insecure places and the answer of a result go   *)
(* with its verdict, and no verdict with an error, whatever hops, checks   *)
(* and failures led to it.  (applyOutcome, setBogus, checkRRSet)           *)
(***************************************************************************)
THEOREM CodesGoWithVerdicts == Spec => []CodeMatchesVerdict
PROOF
  <1>1. ASSUME NEW r, Undecided(r) PROVE Consistent(r)
    BY <1>1 DEF Undecided, Consistent
  <1>2. Decisions => CodeMatchesVerdict
    BY <1>1 DEF Decisions, Decision, Consistent, CodeMatchesVerdict
  <1>. QED BY <1>2, DecisionsHold, PTL

-----------------------------------------------------------------------------
\* Aliases.

\* An outcome adds neither an alias nor a step of the chain.
LEMMA OutcomesKeep ==
  ASSUME NEW r \in Result
  PROVE  /\ \A err : LET s == failed(r, err) IN s.aliases = r.aliases /\ s.chain = r.chain
         /\ \A check : LET s == uncheckable(r, check) IN s.aliases = r.aliases /\ s.chain = r.chain
         /\ \A at, code : LET s == setBogus(r, at, code) IN s.aliases = r.aliases /\ s.chain = r.chain
         /\ \A at, code : LET s == bogusOutcome(r, at, code) IN s.aliases = r.aliases /\ s.chain = r.chain
         /\ \A at : LET s == insecureOutcome(r, at) IN s.aliases = r.aliases /\ s.chain = r.chain
         /\ \A a, wildcard : LET s == secureOutcome(r, a, wildcard)
                             IN  s.aliases = r.aliases /\ s.chain = r.chain
         /\ \A v : LET s == applyOutcome(r, v) IN s.aliases = r.aliases /\ s.chain = r.chain
PROOF BY DEF failed, uncheckable, setBogus, bogusOutcome, insecureOutcome, secureOutcome,
             applyOutcome, Result

\* The zone a step of the chain is for.
StepAt(w, name) ==
  \/ phase[w] = "root" /\ name = Root
  \/ phase[w] \in {"ds", "keys"} /\ name = childName(w)
  \/ phase[w] = "leaf" /\ name = cur[w]

\* A call that returns has followed no alias and added at most one step,
\* of the zone that failed.
Returns(w) ==
  /\ phase'[w] = "done" /\ Same(w) /\ depth'[w] = depth[w]
  /\ res'[w].aliases = res[w].aliases
  /\ \/ res'[w].chain = res[w].chain
     \/ \E name \in Name, sigs \in SUBSET Outcome :
          StepAt(w, name) /\ res'[w].chain = addStep(res[w], name, FALSE, sigs).chain

LEMMA ReturnsShape ==
  ASSUME TypeOK, NEW w \in Walker,
         \/ ReturnsError(w) \/ ReturnsLoop(w) \/ ReturnsBogusZone(w) \/ ReturnsBogusData(w)
         \/ ReturnsVerdict(w)
  PROVE  Returns(w)
PROOF
  <1>1. res[w] \in Result /\ cur[w] \in Name
    BY DEF TypeOK, CallType
  <1>2. ASSUME NEW r, r.aliases = res[w].aliases, r.chain = res[w].chain, Returning(w, r)
        PROVE  Returns(w)
    BY <1>2 DEF Returning, Returns
  <1>3. ASSUME NEW r, NEW name \in Name, NEW sigs \in SUBSET Outcome, StepAt(w, name),
               LET s == addStep(res[w], name, FALSE, sigs)
               IN  r.aliases = s.aliases /\ r.chain = s.chain,
               Returning(w, r)
        PROVE  Returns(w)
    <2>1. addStep(res[w], name, FALSE, sigs).aliases = res[w].aliases
      BY <1>1, AddStepKeeps
    <2>. QED BY <1>3, <2>1 DEF Returning, Returns
  <1>4. \A name \in Name, sigs \in SUBSET Outcome : addStep(res[w], name, FALSE, sigs) \in Result
    BY <1>1, StepType
  <1>5. CASE ReturnsError(w) \/ ReturnsLoop(w)
    BY <1>1, <1>2, <1>5, OutcomesKeep DEF ReturnsError, ReturnsLoop
  <1>6. CASE ReturnsBogusZone(w)
    <2>1. PICK name \in Name, sigs \in SUBSET Outcome, code \in Failure :
            /\ StepAt(w, name)
            /\ Returning(w, bogusOutcome(addStep(res[w], name, FALSE, sigs), name, code))
      BY <1>6 DEF ReturnsBogusZone, StepAt
    <2>. DEFINE s == addStep(res[w], name, FALSE, sigs)
                t == bogusOutcome(s, name, code)
    <2>2. s \in Result
      BY <1>4
    <2>3. t.aliases = s.aliases /\ t.chain = s.chain
      <3>. HIDE DEF s
      <3>. QED BY <2>2, OutcomesKeep
    <2>4. Returning(w, t)
      BY <2>1
    <2>. HIDE DEF t
    <2>. QED BY <1>3, <2>1, <2>3, <2>4
  <1>7. CASE ReturnsBogusData(w)
    <2>1. PICK sigs \in SUBSET Outcome, code \in Failure :
            /\ StepAt(w, cur[w])
            /\ Returning(w, bogusOutcome(addStep(res[w], cur[w], FALSE, sigs), cur[w], code))
      BY <1>7 DEF ReturnsBogusData, StepAt
    <2>. DEFINE s == addStep(res[w], cur[w], FALSE, sigs)
                t == bogusOutcome(s, cur[w], code)
    <2>2. s \in Result
      BY <1>1, <1>4
    <2>3. t.aliases = s.aliases /\ t.chain = s.chain
      <3>. HIDE DEF s
      <3>. QED BY <2>2, OutcomesKeep
    <2>4. Returning(w, t)
      BY <2>1
    <2>. HIDE DEF t
    <2>. QED BY <1>1, <1>3, <2>1, <2>3, <2>4
  <1>8. CASE ReturnsVerdict(w)
    <2>1. CASE Returning(w, insecureOutcome(res[w], childName(w)))
      BY <1>1, <1>2, <2>1, OutcomesKeep
    <2>2. ASSUME NEW sigs \in SUBSET Outcome, NEW answer, NEW wildcard, phase[w] = "leaf",
                 Returning(w, secureOutcome(addStep(res[w], cur[w], FALSE, sigs), answer, wildcard))
          PROVE  Returns(w)
      <3>. DEFINE s == addStep(res[w], cur[w], FALSE, sigs)
                  t == secureOutcome(s, answer, wildcard)
      <3>1. StepAt(w, cur[w]) /\ s \in Result
        BY <1>1, <1>4, <2>2 DEF StepAt
      <3>2. t.aliases = s.aliases /\ t.chain = s.chain
        <4>. HIDE DEF s
        <4>. QED BY <3>1, OutcomesKeep
      <3>3. Returning(w, t)
        BY <2>2
      <3>. HIDE DEF t
      <3>. QED BY <1>1, <1>3, <3>1, <3>2, <3>3
    <2>3. ASSUME NEW v, Returning(w, applyOutcome(res[w], v)) PROVE Returns(w)
      BY <1>1, <1>2, <2>3, OutcomesKeep
    <2>. QED BY <1>8, <2>1, <2>2, <2>3 DEF ReturnsVerdict
  <1>. QED BY <1>5, <1>6, <1>7, <1>8

\* A step that follows no alias leaves those there are.
LEMMA AliasesKept ==
  ASSUME TypeOK, NEW w \in Walker, Shape(w), ~Follows(w)
  PROVE  res'[w].aliases = res[w].aliases /\ qname'[w] = qname[w] /\ hop'[w] = hop[w]
PROOF
  <1>1. CASE Returns(w)
    BY <1>1 DEF Returns, Same
  <1>2. CASE Starts(w) \/ Loads(w) \/ Probes(w)
    BY <1>2 DEF Starts, Loads, Probes, Same
  <1>3. CASE Enters(w)
    <2>1. res[w] \in Result
      BY DEF TypeOK, CallType
    <2>2. PICK name \in Name, sigs \in SUBSET Outcome :
            /\ qname'[w] = qname[w] /\ hop'[w] = hop[w]
            /\ res'[w] = addStep(res[w], name, TRUE, sigs)
      BY <1>3 DEF Enters
    <2>3. addStep(res[w], name, TRUE, sigs).aliases = res[w].aliases
      BY <2>1, AddStepKeeps
    <2>. QED BY <2>2, <2>3
  <1>. QED BY <1>1, <1>2, <1>3, ReturnsShape DEF Shape

\* The names a redirect of that alias may have been met on.
WalkedFrom(alias, names) ==
  IF alias.type = "CNAME" THEN {alias.from} ELSE {s \in names : isStrictSubdomain(s, alias.from)}

\* The aliases link up, and there is one per name walked, the one in hand
\* and the walk of it aside.
Linked(w) ==
  LET aliases == res[w].aliases
      n == Len(aliases)
  IN  /\ n = hop[w]
      /\ n > 0 => aliases[n].target = qname[w]
      /\ \A i \in 2..n : aliases[i - 1].target \in WalkedFrom(aliases[i], seen[w])
      /\ \A i \in 1..n : aliases[i].target \in seen[w] \/ i = n
      /\ IsFiniteSet(seen[w])
      /\ Cardinality(seen[w]) \in {n, n + 1}
      /\ phase[w] = "hop" => Cardinality(seen[w]) = n
      /\ phase[w] \notin {"hop", "done"} => Cardinality(seen[w]) = n + 1 /\ qname[w] \in seen[w]

\* The name an alias is met on is one its redirect may have been met on.
LEMMA LeadsFrom ==
  ASSUME NEW z, NEW name \in Name, NEW alias \in Alias, LeadsTo(z, name, alias), NEW names, name \in names
  PROVE  name \in WalkedFrom(alias, names)
PROOF
  <1>1. CASE alias.type = "CNAME"
    BY <1>1 DEF LeadsTo, WalkedFrom
  <1>2. CASE alias.type = "DNAME"
    <2>1. alias.from \in ancestorsOf(name) /\ alias.from # name
      BY <1>2 DEF LeadsTo, properAncestors
    <2>2. alias.from = LastNLabels(name, Len(alias.from)) /\ Len(alias.from) \in 0..Len(name)
      BY <2>1, AncestorIsPrefix
    <2>3. isStrictSubdomain(name, alias.from)
      BY <2>1, <2>2 DEF isStrictSubdomain, isAtOrBelow, Name
    <2>. QED BY <1>2, <2>3 DEF WalkedFrom
  <1>. QED BY <1>1, <1>2 DEF Alias

\* An alias followed is added to those there are, the chain gains checks.
LEMMA FollowsAppends ==
  ASSUME TypeOK, NEW w \in Walker, Follows(w)
  PROVE  \E alias \in Alias, sigs \in SUBSET Outcome :
           /\ phase[w] = "leaf" /\ io[w] = "loaded" /\ ~found[w]
           /\ checkRRSet(zone[w], alias.from, alias.type, "None").ok
           /\ LeadsTo(zone[w], qname[w], alias)
           /\ phase'[w] = "hop" /\ qname'[w] = alias.target /\ hop'[w] = hop[w] + 1
           /\ seen'[w] = seen[w]
           /\ res'[w].aliases = Append(res[w].aliases, alias)
           /\ res'[w].chain = addStep(res[w], cur[w], FALSE, sigs).chain
PROOF
  <1>1. PICK alias \in Alias, sigs \in SUBSET Outcome :
          /\ phase[w] = "leaf" /\ io[w] = "loaded" /\ ~found[w]
          /\ checkRRSet(zone[w], alias.from, alias.type, "None").ok
          /\ LeadsTo(zone[w], qname[w], alias)
          /\ phase'[w] = "hop" /\ qname'[w] = alias.target /\ hop'[w] = hop[w] + 1
          /\ seen'[w] = seen[w]
          /\ LET r == addStep(res[w], cur[w], FALSE, sigs)
             IN  res'[w] = [r EXCEPT !.combined = Combined(r, "secure"),
                                     !.aliases = Append(r.aliases, alias)]
    BY DEF Follows
  <1>. DEFINE r == addStep(res[w], cur[w], FALSE, sigs)
  <1>2. res[w] \in Result /\ cur[w] \in Name
    BY DEF TypeOK, CallType
  <1>3. r \in Result /\ r.aliases = res[w].aliases
    BY <1>2, AddStepKeeps
  <1>4. res'[w] = [r EXCEPT !.combined = Combined(r, "secure"), !.aliases = Append(r.aliases, alias)]
    BY <1>1
  <1>5. res'[w].aliases = Append(res[w].aliases, alias) /\ res'[w].chain = r.chain
    <2>. HIDE DEF r
    <2>. QED BY <1>3, <1>4 DEF Result
  <1>. QED BY <1>1, <1>5

\* An alias followed links up with the last.
LEMMA FollowsLinked ==
  ASSUME TypeOK, NEW w \in Walker, Linked(w), Follows(w)
  PROVE  Linked(w)'
PROOF
  <1>. DEFINE old == res[w].aliases
              new == res'[w].aliases
              n == Len(old)
  <1>1. PICK alias \in Alias :
          /\ phase[w] = "leaf" /\ LeadsTo(zone[w], qname[w], alias)
          /\ phase'[w] = "hop" /\ qname'[w] = alias.target /\ hop'[w] = hop[w] + 1
          /\ seen'[w] = seen[w] /\ new = Append(old, alias)
    BY FollowsAppends
  <1>2. res[w] \in Result /\ qname[w] \in Name
    BY DEF TypeOK, CallType
  <1>4. old \in Seq(Alias) /\ n \in Nat
    BY <1>2, LenProperties DEF Result
  <1>5. /\ Len(new) = n + 1 /\ new[n + 1] = alias /\ \A i \in 1..n : new[i] = old[i]
    BY <1>1, <1>4, AppendProperties
  <1>6. /\ n = hop[w] /\ (n > 0 => old[n].target = qname[w])
        /\ \A i \in 2..n : old[i - 1].target \in WalkedFrom(old[i], seen[w])
        /\ \A i \in 1..n : old[i].target \in seen[w] \/ i = n
        /\ IsFiniteSet(seen[w]) /\ Cardinality(seen[w]) = n + 1 /\ qname[w] \in seen[w]
    BY <1>1 DEF Linked
  <1>7. qname[w] \in WalkedFrom(alias, seen[w])
    BY <1>1, <1>2, <1>6, LeadsFrom
  <1>. HIDE DEF old, new, n
  <1>8. \A i \in 2..(n + 1) : new[i - 1].target \in WalkedFrom(new[i], seen[w])
    <2>. SUFFICES ASSUME NEW i \in 2..(n + 1) PROVE new[i - 1].target \in WalkedFrom(new[i], seen[w])
      OBVIOUS
    <2>1. CASE i = n + 1
      <3>1. i - 1 = n /\ n \in 1..n /\ n > 0
        BY <1>4, <2>1
      <3>2. new[i - 1].target = qname[w] /\ new[i] = alias
        BY <1>5, <1>6, <2>1, <3>1
      <3>. QED BY <1>7, <3>2
    <2>2. CASE i # n + 1
      <3>1. i \in 2..n /\ i \in 1..n /\ i - 1 \in 1..n
        BY <1>4, <2>2
      <3>. QED BY <1>5, <1>6, <3>1
    <2>. QED BY <2>1, <2>2
  <1>9. \A i \in 1..(n + 1) : new[i].target \in seen[w] \/ i = n + 1
    <2>. SUFFICES ASSUME NEW i \in 1..(n + 1), i # n + 1 PROVE new[i].target \in seen[w]
      OBVIOUS
    <2>1. i \in 1..n
      BY <1>4
    <2>2. old[i].target \in seen[w]
      BY <1>6, <2>1
    <2>. QED BY <1>5, <2>1, <2>2
  <1>10. new = res'[w].aliases
    BY DEF new
  <1>. QED BY <1>1, <1>4, <1>5, <1>6, <1>8, <1>9, <1>10 DEF Linked, WalkedFrom

\* A hop walks a name that was not walked.
LEMMA StartsLinked ==
  ASSUME TypeOK, NEW w \in Walker, Linked(w), Starts(w)
  PROVE  Linked(w)'
PROOF
  <1>. DEFINE aliases == res[w].aliases
              n == Len(aliases)
  <1>1. aliases \in Seq(Alias) /\ n \in Nat
    BY LenProperties DEF TypeOK, CallType, Result
  <1>2. /\ n = hop[w] /\ (n > 0 => aliases[n].target = qname[w])
        /\ \A i \in 2..n : aliases[i - 1].target \in WalkedFrom(aliases[i], seen[w])
        /\ \A i \in 1..n : aliases[i].target \in seen[w] \/ i = n
        /\ IsFiniteSet(seen[w]) /\ Cardinality(seen[w]) = n
    BY DEF Linked, Starts
  <1>3. /\ phase'[w] = "root" /\ seen'[w] = seen[w] \cup {qname[w]} /\ qname[w] \notin seen[w]
        /\ qname'[w] = qname[w] /\ hop'[w] = hop[w] /\ res'[w].aliases = aliases
    BY DEF Starts
  <1>4. IsFiniteSet(seen'[w]) /\ Cardinality(seen'[w]) = n + 1
    <2>1. IsFiniteSet(seen[w] \cup {qname[w]}) /\ Cardinality(seen[w] \cup {qname[w]}) = Cardinality(seen[w]) + 1
      BY <1>2, <1>3, FS_AddElement
    <2>. QED BY <1>2, <1>3, <2>1
  <1>. HIDE DEF aliases, n
  <1>5. \A a : WalkedFrom(a, seen[w]) \subseteq WalkedFrom(a, seen'[w])
    BY <1>3 DEF WalkedFrom
  <1>6. Len(aliases) = n
    BY DEF n
  <1>7. \A i \in 2..n : aliases[i - 1].target \in WalkedFrom(aliases[i], seen'[w])
    BY <1>2, <1>5
  <1>8. \A i \in 1..n : aliases[i].target \in seen'[w] \/ i = n
    BY <1>2, <1>3
  <1>. QED BY <1>1, <1>2, <1>3, <1>4, <1>6, <1>7, <1>8 DEF Linked, WalkedFrom

\* Every step keeps the aliases linked.
LEMMA ShapeLinked ==
  ASSUME TypeOK, NEW w \in Walker, phase[w] # "done", Linked(w), Shape(w)
  PROVE  Linked(w)'
PROOF
  <1>1. CASE Follows(w)
    BY <1>1, FollowsLinked
  <1>2. CASE Starts(w)
    BY <1>2, StartsLinked
  <1>3. CASE ~Follows(w) /\ ~Starts(w)
    <2>1. res'[w].aliases = res[w].aliases /\ qname'[w] = qname[w] /\ hop'[w] = hop[w]
      BY <1>3, AliasesKept
    <2>2. /\ seen'[w] = seen[w]
          /\ phase'[w] = "done" \/ (phase'[w] # "hop" /\ phase[w] # "hop")
      BY <1>3, ReturnsShape DEF Shape, Returns, Loads, Probes, Loaded, Enters, Same
    <2>. QED BY <2>1, <2>2 DEF Linked, WalkedFrom
  <1>. QED BY <1>1, <1>2, <1>3

AllLinked == \A w \in Walker : Linked(w)

LEMMA InitLinked == Init => AllLinked
PROOF
  <1>. SUFFICES ASSUME Init, NEW w \in Walker PROVE Linked(w)
    BY DEF AllLinked
  <1>1. res[w].aliases = << >> /\ seen[w] = {} /\ hop[w] = 0 /\ phase[w] = "hop"
    BY DEF Init, NewResult
  <1>2. Len(res[w].aliases) = 0 /\ IsFiniteSet({}) /\ Cardinality({}) = 0
    BY <1>1, FS_EmptySet
  <1>. QED BY <1>1, <1>2 DEF Linked

LEMMA NextLinked == TypeOK /\ AllLinked /\ [Next]_vars => AllLinked'
PROOF
  <1>. SUFFICES ASSUME TypeOK, AllLinked, [Next]_vars, NEW v \in Walker PROVE Linked(v)'
    BY DEF AllLinked
  <1>1. Linked(v)
    BY DEF AllLinked
  <1>2. CASE Untouched(v)
    BY <1>1, <1>2 DEF Untouched, Linked, WalkedFrom
  <1>. QED BY <1>1, <1>2, StepOrStay, ShapeLinked

LEMMA LinkedHolds == Spec => []AllLinked
PROOF BY TypeCorrect, InitLinked, NextLinked, PTL DEF Spec

(***************************************************************************)
(* The aliases of every result link up, one per redirect and each met on   *)
(* the walk of a name of its own, however long the chase; there is at most *)
(* one more than MaxAliasHops.  (Validate's loop, tryDNAME, tryCNAME)      *)
(***************************************************************************)
THEOREM AliasesLinkUp == Spec => []AliasesLinked
PROOF
  <1>1. TypeOK /\ AllLinked => AliasesLinked
    <2>. SUFFICES ASSUME TypeOK, AllLinked, NEW w \in Walker
                  PROVE  /\ Len(res[w].aliases) <= MaxAliasHops + 1
                         /\ Linked(w)
      BY DEF AliasesLinked, Linked, WalkedFrom
    <2>. QED BY BoundsAssumption DEF TypeOK, CallType, AllLinked, Linked
  <1>. QED BY <1>1, TypeCorrect, LinkedHolds, PTL

-----------------------------------------------------------------------------
\* What the aliases say was published.

\* The alias was published, for one of the names.
PublishedFrom(names, alias) ==
  \E p \in Published :
    /\ p.type = alias.type /\ p.name \in Sources(alias.from)
    /\ IF alias.type = "CNAME" THEN alias.target \in p.vals
       ELSE \E s \in names, v \in p.vals :
              /\ isStrictSubdomain(s, alias.from)
              /\ alias.target = synthesiseDNAMETarget(s, alias.from, v)

\* A verified alias of a zone whose keys are its own was published.
LEMMA VerifiedAlias ==
  ASSUME TypeOK, NEW w \in Walker, NEW alias \in Alias, qname[w] \in seen[w],
         GenuineKeys(zone[w], cur[w]), LeadsTo(zone[w], qname[w], alias),
         checkRRSet(zone[w], alias.from, alias.type, "None").ok
  PROVE  PublishedFrom(seen[w], alias)
PROOF
  <1>1. zone[w] \in Store /\ qname[w] \in Name /\ alias.from \in Name /\ alias.type \in {"CNAME", "DNAME"}
    BY DEF TypeOK, CallType, Alias
  <1>2. IsPublished(alias.from, alias.type, FindRRSet(zone[w], alias.from, alias.type))
    BY <1>1, VerifiedIsPublished
  <1>3. PICK p \in Published :
          /\ p.type = alias.type /\ p.name \in Sources(alias.from)
          /\ p.vals = Vals(FindRRSet(zone[w], alias.from, alias.type))
    BY <1>2 DEF IsPublished
  <1>4. CASE alias.type = "CNAME"
    <2>1. alias.target \in p.vals
      BY <1>3, <1>4 DEF LeadsTo
    <2>. QED BY <1>3, <1>4, <2>1 DEF PublishedFrom
  <1>5. CASE alias.type = "DNAME"
    <2>1. isStrictSubdomain(qname[w], alias.from)
      BY <1>1, <1>5, LeadsFrom DEF WalkedFrom
    <2>2. \E v \in p.vals : alias.target = synthesiseDNAMETarget(qname[w], alias.from, v)
      BY <1>3, <1>5 DEF LeadsTo
    <2>. QED BY <1>3, <1>5, <2>1, <2>2 DEF PublishedFrom
  <1>. QED BY <1>1, <1>4, <1>5

AliasAuthentic(w) == \A i \in DOMAIN res[w].aliases : PublishedFrom(seen[w], res[w].aliases[i])

\* Every step follows only published aliases.
LEMMA ShapeAuthentic ==
  ASSUME TypeOK, NEW w \in Walker, phase[w] # "done", Linked(w), KeysAuthentic(w), AliasAuthentic(w),
         Shape(w)
  PROVE  AliasAuthentic(w)'
PROOF
  <1>. DEFINE old == res[w].aliases
              new == res'[w].aliases
  <1>1. \A i \in DOMAIN old : PublishedFrom(seen'[w], old[i])
    <2>1. seen[w] \subseteq seen'[w]
      BY ReturnsShape DEF Shape, Returns, Starts, Loads, Probes, Enters, Follows, Same
    <2>. QED BY <2>1 DEF AliasAuthentic, PublishedFrom
  <1>2. CASE Follows(w)
    <2>1. PICK alias \in Alias :
            /\ phase[w] = "leaf" /\ ~found[w]
            /\ checkRRSet(zone[w], alias.from, alias.type, "None").ok
            /\ LeadsTo(zone[w], qname[w], alias)
            /\ seen'[w] = seen[w] /\ new = Append(old, alias)
      BY <1>2, FollowsAppends
    <2>2. GenuineKeys(zone[w], cur[w])
      BY <2>1 DEF KeysAuthentic
    <2>3. qname[w] \in seen[w]
      BY <2>1 DEF Linked
    <2>4. PublishedFrom(seen'[w], alias)
      BY <2>1, <2>2, <2>3, VerifiedAlias
    <2>5. old \in Seq(Alias)
      BY DEF TypeOK, CallType, Result
    <2>. HIDE DEF old, new
    <2>6. /\ DOMAIN new = 1..(Len(old) + 1) /\ DOMAIN old = 1..Len(old) /\ Len(old) \in Nat
          /\ new[Len(old) + 1] = alias /\ \A i \in 1..Len(old) : new[i] = old[i]
      BY <2>1, <2>5, AppendProperties, LenProperties
    <2>7. ASSUME NEW i \in DOMAIN new PROVE PublishedFrom(seen'[w], new[i])
      <3>1. CASE i = Len(old) + 1
        BY <2>4, <2>6, <3>1
      <3>2. CASE i # Len(old) + 1
        <4>1. i \in DOMAIN old /\ new[i] = old[i]
          BY <2>6, <2>7, <3>2
        <4>. QED BY <1>1, <4>1
      <3>. QED BY <3>1, <3>2
    <2>. QED BY <2>7 DEF AliasAuthentic, PublishedFrom, new
  <1>3. CASE ~Follows(w)
    <2>1. new = old
      BY <1>3, AliasesKept
    <2>. QED BY <1>1, <2>1 DEF AliasAuthentic, PublishedFrom
  <1>. QED BY <1>2, <1>3

AllAuthentic == \A w \in Walker : AliasAuthentic(w)

LEMMA InitAuthentic == Init => AllAuthentic
PROOF BY DEF Init, NewResult, AllAuthentic, AliasAuthentic

LEMMA NextAuthentic ==
  TypeOK /\ AllLinked /\ TrustInvariant /\ AllAuthentic /\ [Next]_vars => AllAuthentic'
PROOF
  <1>. SUFFICES ASSUME TypeOK, AllLinked, TrustInvariant, AllAuthentic, [Next]_vars, NEW v \in Walker
                PROVE  AliasAuthentic(v)'
    BY DEF AllAuthentic
  <1>1. Linked(v) /\ KeysAuthentic(v) /\ AliasAuthentic(v)
    BY DEF AllLinked, TrustInvariant, Trust, AllAuthentic
  <1>2. CASE Untouched(v)
    BY <1>1, <1>2 DEF Untouched, AliasAuthentic, PublishedFrom
  <1>. QED BY <1>1, <1>2, StepOrStay, ShapeAuthentic

(***************************************************************************)
(* Every redirect a call follows, on whatever hop, was published by the    *)
(* owner of the zone it is in: whatever the resolver and the cache return, *)
(* an alias that was changed, made up or stripped of its signatures is not *)
(* followed.  (tryCNAME, tryDNAME)                                         *)
(***************************************************************************)
THEOREM RedirectsAuthentic == Spec => []AliasesAuthentic
PROOF
  <1>1. AllAuthentic => AliasesAuthentic
    BY DEF AllAuthentic, AliasAuthentic, AliasesAuthentic, PublishedAlias, PublishedFrom
  <1>. QED BY <1>1, TypeCorrect, LinkedHolds, TrustHandedDown, InitAuthentic, NextAuthentic, PTL DEF Spec
=============================================================================
