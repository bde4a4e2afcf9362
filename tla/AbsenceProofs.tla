---------------------------- MODULE AbsenceProofs ----------------------------
(***************************************************************************)
(* Proof that a verdict of absence rests on records the zone signed.       *)
(*                                                                         *)
(* A denial record takes part in a proof only when its rrset verifies, and *)
(* while the keys of the zone the walk stands in are genuine (TrustProofs) *)
(* that makes it one the zone signed (VerifiedIsAttested).  So each of the *)
(* walker's proofs, whichever candidates the store's order offers it,      *)
(* yields signed records that say together what its verdict says; the      *)
(* closest encloser, a maximum over the ancestors of qname, is one of them *)
(* and shown to be there.                                                  *)
(***************************************************************************)
EXTENDS WalkProofs, WellFoundedInduction

-----------------------------------------------------------------------------
\* Ancestors.

\* Of a set of ancestors of one name, Longest is one.
LEMMA LongestIsMember ==
  ASSUME NEW name \in Name, NEW names \in SUBSET ancestorsOf(name), names # {}
  PROVE  Longest(names) \in names
PROOF
  <1>. DEFINE T == {Len(name) - Len(a) : a \in names}
  <1>1. Len(name) \in Nat /\ \A a \in names : Len(a) \in 0..Len(name)
    BY AncestorIsName DEF Name
  <1>2. T \in SUBSET Nat /\ T # {}
    BY <1>1
  <1>3. PICK least \in T : \A y \in T : ~(<<y, least>> \in OpToRel(<, Nat))
    <2>. HIDE DEF T
    <2>. QED BY <1>2, WFMin, NatLessThanWellFounded
  <1>4. \A y \in T : least <= y
    <2>. SUFFICES ASSUME NEW y \in T, y < least PROVE FALSE
      BY <1>2
    <2>. HIDE DEF T
    <2>1. y \in Nat /\ least \in Nat
      BY <1>2
    <2>2. <<y, least>> \in Nat \X Nat /\ <<y, least>>[1] = y /\ <<y, least>>[2] = least
      BY <2>1
    <2>3. <<y, least>> \in OpToRel(<, Nat)
      BY Zenon, <2>2 DEF OpToRel
    <2>. QED BY <1>3, <2>3
  <1>5. PICK n \in names : least = Len(name) - Len(n)
    OBVIOUS
  <1>6. \A m \in names : Len(m) <= Len(n)
    <2>. SUFFICES ASSUME NEW m \in names PROVE Len(m) <= Len(n)
      OBVIOUS
    <2>1. Len(name) - Len(m) \in T
      OBVIOUS
    <2>2. Len(name) - Len(n) <= Len(name) - Len(m)
      BY <1>4, <1>5, <2>1
    <2>. QED BY <1>1, <2>2
  <1>. QED BY <1>6 DEF Longest

\* A name is at or below its ancestors.
LEMMA BelowAncestor ==
  ASSUME NEW name \in Name, NEW a \in ancestorsOf(name)
  PROVE  isAtOrBelow(name, a)
PROOF BY AncestorIsPrefix DEF isAtOrBelow, Name

\* A name and another have an ancestor in common, and the longest is one.
LEMMA CommonAncestor ==
  ASSUME NEW a \in Name, NEW b \in Name
  PROVE  longestCommonAncestor(a, b) \in ancestorsOf(a) \cap ancestorsOf(b)
PROOF
  <1>. DEFINE names == ancestorsOf(a) \cap ancestorsOf(b)
  <1>1. names \in SUBSET ancestorsOf(a) /\ names # {}
    BY SelfAndRoot
  <1>. HIDE DEF names
  <1>2. Longest(names) \in names
    BY <1>1, LongestIsMember
  <1>. QED BY <1>2 DEF names, longestCommonAncestor

\* The encloser an NSEC gives is an ancestor of the name, and an end of the
\* range is at or below it.
LEMMA EncloserIsShown ==
  ASSUME NEW name \in Name, NEW c \in Record, c.type = "NSEC"
  PROVE  LET a == closestEncloserNSEC(name, c)
         IN  /\ a \in ancestorsOf(name)
             /\ isAtOrBelow(c.name, a) \/ isAtOrBelow(c.val.next, a)
PROOF
  <1>. DEFINE x == longestCommonAncestor(name, c.name)
              y == longestCommonAncestor(name, c.val.next)
  <1>1. c.name \in Name /\ c.val.next \in Name
    BY RecordAssumption
  <1>2. x \in ancestorsOf(name) /\ x \in ancestorsOf(c.name)
    BY <1>1, CommonAncestor
  <1>3. y \in ancestorsOf(name) /\ y \in ancestorsOf(c.val.next)
    BY <1>1, CommonAncestor
  <1>4. isAtOrBelow(c.name, x) /\ isAtOrBelow(c.val.next, y)
    BY <1>1, <1>2, <1>3, BelowAncestor
  <1>. HIDE DEF x, y
  <1>5. {x, y} \in SUBSET ancestorsOf(name) /\ {x, y} # {}
    BY <1>2, <1>3
  <1>6. Longest({x, y}) \in {x, y}
    BY <1>5, LongestIsMember
  <1>7. closestEncloserNSEC(name, c) = Longest({x, y})
    BY DEF closestEncloserNSEC, x, y
  <1>. QED BY <1>2, <1>3, <1>4, <1>6, <1>7

\* The next closer name below a proper ancestor is an ancestor, one longer.
LEMMA NextCloserIsAncestor ==
  ASSUME NEW name \in Name, NEW a \in properAncestors(name)
  PROVE  /\ nextCloserName(name, a) \in ancestorsOf(name)
         /\ Len(nextCloserName(name, a)) >= Len(a)
PROOF
  <1>1. a = LastNLabels(name, Len(a)) /\ Len(a) \in 0..Len(name) /\ Len(name) \in Nat
    BY AncestorIsPrefix DEF properAncestors, Name
  <1>2. Len(a) # Len(name)
    <2>1. LastNLabels(name, Len(name)) = name
      <3>1. PICK n \in 0..Len(name) : name = LastNLabels(name, n)
        BY SelfAndRoot DEF ancestorsOf
      <3>2. Len(LastNLabels(name, n)) = n
        BY PrefixIsName
      <3>. QED BY <3>1, <3>2
    <2>. QED BY <1>1, <2>1 DEF properAncestors
  <1>3. Len(a) + 1 \in 0..Len(name)
    BY <1>1, <1>2
  <1>. QED BY <1>1, <1>3, PrefixIsName DEF nextCloserName, ancestorsOf

-----------------------------------------------------------------------------
\* Attested records.

\* Under genuine keys, a denial record whose rrset verifies is one the zone
\* signed.
LEMMA VerifiedIsAttested ==
  ASSUME NEW z \in Store, NEW apex, GenuineKeys(z, apex), NEW c \in z.rrs,
         c.type \in {"NSEC", "NSEC3"}, VerifyRRSet(z, c.name, c.type, "None")
  PROVE  c \in Attested(apex) /\ c \in Record /\ c.name \in Name
PROOF
  <1>1. c \in Record /\ c.name \in Name
    BY RecordAssumption DEF Store
  <1>2. checkRRSet(z, c.name, c.type, "None").ok
    BY DEF VerifyRRSet, checkRRSet
  <1>3. PICK s \in Signature :
          /\ s.signer = apex /\ Genuine(apex, s.by) /\ s.type = c.type
          /\ s.owner \in Sources(c.name)
          /\ s.vals = Vals(FindRRSet(z, c.name, c.type))
    BY <1>1, <1>2, VerifiedIsSigned
  <1>4. c.val \in s.vals
    BY <1>3 DEF Vals, FindRRSet
  <1>. QED BY <1>1, <1>3, <1>4 DEF Attested

\* What the walker looks up among them: matches speak of the name, covers
\* deny it.
LEMMA CandidatesAttested ==
  ASSUME NEW z \in Store, NEW apex, GenuineKeys(z, apex), NEW name
  PROVE  /\ \A c \in matchingNSEC(z, name) : c \in Attested(apex) /\ SpeaksOf(c, name)
         /\ \A c \in nsec3Matches(z, name) : c \in Attested(apex) /\ SpeaksOf(c, name)
         /\ \A c \in coveringNSEC(z, name) : /\ c \in Attested(apex) /\ Skips(c, name)
                                             /\ c \in Record /\ c.type = "NSEC"
         /\ \A c \in findCoveringNSEC3(z, name) : /\ c \in Attested(apex) /\ Skips(c, name)
                                                  /\ c.type = "NSEC3"
PROOF
  <1>1. ASSUME NEW c \in matchingNSEC(z, name) PROVE c \in Attested(apex) /\ SpeaksOf(c, name)
    <2>1. c \in z.rrs /\ c.type = "NSEC" /\ c.name = name /\ VerifyRRSet(z, c.name, c.type, "None")
      BY <1>1 DEF matchingNSEC, findNSEC, nsecHandlers
    <2>. QED BY <2>1, VerifiedIsAttested DEF SpeaksOf
  <1>2. ASSUME NEW c \in nsec3Matches(z, name) PROVE c \in Attested(apex) /\ SpeaksOf(c, name)
    <2>1. /\ c \in z.rrs /\ c.type = "NSEC3" /\ OwnerHashFromName(c) = Hash(name)
          /\ VerifyRRSet(z, c.name, c.type, "None")
      BY <1>2 DEF nsec3Matches, nsec3Handlers
    <2>. QED BY <2>1, VerifiedIsAttested DEF SpeaksOf
  <1>3. ASSUME NEW c \in coveringNSEC(z, name)
        PROVE  c \in Attested(apex) /\ Skips(c, name) /\ c \in Record /\ c.type = "NSEC"
    <2>1. c \in z.rrs /\ c.type = "NSEC" /\ CoversName(c, name) /\ VerifyRRSet(z, c.name, c.type, "None")
      BY <1>3 DEF coveringNSEC, findNSEC, nsecHandlers
    <2>. QED BY <2>1, VerifiedIsAttested DEF Skips
  <1>4. ASSUME NEW c \in findCoveringNSEC3(z, name)
        PROVE  c \in Attested(apex) /\ Skips(c, name) /\ c.type = "NSEC3"
    <2>1. /\ c \in z.rrs /\ c.type = "NSEC3" /\ CoversHash(c, Hash(name))
          /\ VerifyRRSet(z, c.name, c.type, "None")
      BY <1>4 DEF findCoveringNSEC3, nsec3Handlers
    <2>. QED BY <2>1, VerifiedIsAttested DEF Skips
  <1>. QED BY <1>1, <1>2, <1>3, <1>4

\* A type absent by NSEC or NSEC3 at a name is denied there.
LEMMA NoDataAttested ==
  ASSUME NEW z \in Store, NEW apex, GenuineKeys(z, apex), NEW name, NEW type,
         noDataNSEC(z, name, type) \/ noDataNSEC3(z, name, type)
  PROVE  TypeDenied(Attested(apex), name, type)
PROOF BY CandidatesAttested DEF noDataNSEC, noDataNSEC3, TypeDenied

\* A name an NSEC covers does not exist below the encloser it gives.
LEMMA CoveredBelow ==
  ASSUME NEW z \in Store, NEW apex, GenuineKeys(z, apex), NEW name \in Name,
         NEW c \in coveringNSEC(z, name)
  PROVE  LET a == closestEncloserNSEC(name, c)
         IN  a \in ancestorsOf(name) /\ NothingBelow(Attested(apex), name, a)
PROOF
  <1>. DEFINE a == closestEncloserNSEC(name, c)
  <1>1. c \in Attested(apex) /\ Skips(c, name) /\ c \in Record /\ c.type = "NSEC"
    BY CandidatesAttested
  <1>2. a \in ancestorsOf(name) /\ (isAtOrBelow(c.name, a) \/ isAtOrBelow(c.val.next, a))
    BY <1>1, EncloserIsShown
  <1>. HIDE DEF a
  <1>3. NameShown(Attested(apex), a)
    BY <1>1, <1>2 DEF NameShown
  <1>4. name \in ancestorsOf(name) /\ Len(name) >= Len(a) /\ NameDenied(Attested(apex), name)
    BY <1>1, <1>2, SelfAndRoot, AncestorIsName DEF NameDenied, Name
  <1>5. NothingBelow(Attested(apex), name, a)
    BY <1>3, <1>4 DEF NothingBelow
  <1>. QED BY <1>2, <1>5 DEF a

\* The closest encloser proof of NSEC3 shows the same.
LEMMA ClosestBelow ==
  ASSUME NEW z \in Store, NEW apex, GenuineKeys(z, apex), NEW name \in Name,
         closestEncloserProofNSEC3(z, name)
  PROVE  LET a == closestEncloserNSEC3(z, name)
         IN  a \in properAncestors(name) /\ NothingBelow(Attested(apex), name, a)
PROOF
  <1>. DEFINE proven == provenAncestors(z, name)
              a == closestEncloserNSEC3(z, name)
  <1>1. /\ proven # {} /\ name \notin proven /\ a = Longest(proven)
        /\ findCoveringNSEC3(z, nextCloserName(name, a)) # {}
    BY DEF closestEncloserProofNSEC3, closestEncloserNSEC3
  <1>2. proven \in SUBSET ancestorsOf(name) /\ \A b \in proven : nsec3Matches(z, b) # {}
    BY DEF provenAncestors
  <1>. HIDE DEF proven, a
  <1>3. a \in proven
    BY <1>1, <1>2, LongestIsMember
  <1>4. a \in properAncestors(name) /\ nsec3Matches(z, a) # {}
    BY <1>1, <1>2, <1>3 DEF properAncestors
  <1>5. NameShown(Attested(apex), a)
    BY <1>4, CandidatesAttested DEF NameShown
  <1>6. NameDenied(Attested(apex), nextCloserName(name, a))
    BY <1>1, CandidatesAttested DEF NameDenied
  <1>7. NothingBelow(Attested(apex), name, a)
    BY <1>4, <1>5, <1>6, NextCloserIsAncestor DEF NothingBelow
  <1>. QED BY <1>4, <1>7 DEF a

-----------------------------------------------------------------------------
\* The walker's proofs.

\* A delegation proven unsigned is one the parent denies DS for.
LEMMA NoDSAttested ==
  ASSUME NEW z \in Store, NEW apex, GenuineKeys(z, apex), NEW child, proveNoDS(z, child)
  PROVE  DSDenied(Attested(apex), child)
PROOF BY CandidatesAttested DEF proveNoDS, proveNoDSWithNSEC, proveNoDSWithNSEC3, DSDenied

\* A next closer name proven absent is denied.
LEMMA NonExistenceAttested ==
  ASSUME NEW z \in Store, NEW apex, GenuineKeys(z, apex), NEW name, proveQnameNonExistence(z, name)
  PROVE  NameDenied(Attested(apex), name)
PROOF BY CandidatesAttested DEF proveQnameNonExistence, NameDenied

\* What secure-nodata and secure-nxdomain need of the records.
NoDataShown(records, name, type) ==
  \/ TypeDenied(records, name, type)
  \/ NameDenied(records, name) /\ NameShown(records, name)
  \/ \E a \in ancestorsOf(name) :
       NothingBelow(records, name, a) /\ TypeDenied(records, wildcardAt(a), type)

NXDomainShown(records, name) ==
  \E a \in properAncestors(name) :
    NothingBelow(records, name, a) /\ NameDenied(records, wildcardAt(a))

\* NODATA, by whichever NSEC comes first or by NSEC3.
LEMMA NoDataMeans ==
  ASSUME NEW z \in Store, NEW apex, GenuineKeys(z, apex), NEW name \in Name, NEW type,
         \E b \in proveNoData(z, name, type) : b
  PROVE  NoDataShown(Attested(apex), name, type)
PROOF
  <1>1. proveNoDataWithNSEC3(z, name, type) \/ \E b \in proveNoDataWithNSEC(z, name, type) : b
    BY Zenon DEF proveNoData
  <1>2. CASE noDataNSEC(z, name, type) \/ noDataNSEC3(z, name, type)
    BY <1>2, NoDataAttested DEF NoDataShown
  <1>3. CASE closestEncloserProofNSEC3(z, name)
             /\ noDataNSEC3(z, wildcardAt(closestEncloserNSEC3(z, name)), type)
    <2>. DEFINE a == closestEncloserNSEC3(z, name)
    <2>1. a \in properAncestors(name) /\ NothingBelow(Attested(apex), name, a)
      BY <1>3, ClosestBelow
    <2>2. TypeDenied(Attested(apex), wildcardAt(a), type)
      BY <1>3, NoDataAttested
    <2>. HIDE DEF a
    <2>. QED BY <2>1, <2>2 DEF NoDataShown, properAncestors
  <1>4. ASSUME NEW c \in coveringNSEC(z, name), isStrictSubdomain(c.val.next, name)
        PROVE  NoDataShown(Attested(apex), name, type)
    <2>1. c \in Attested(apex) /\ Skips(c, name) /\ c.type = "NSEC"
      BY CandidatesAttested
    <2>2. NameDenied(Attested(apex), name) /\ NameShown(Attested(apex), name)
      BY <1>4, <2>1 DEF NameDenied, NameShown, isStrictSubdomain
    <2>. QED BY <2>2 DEF NoDataShown
  <1>5. ASSUME NEW c \in coveringNSEC(z, name),
               noDataNSEC(z, wildcardAt(closestEncloserNSEC(name, c)), type)
        PROVE  NoDataShown(Attested(apex), name, type)
    <2>. DEFINE a == closestEncloserNSEC(name, c)
    <2>1. a \in ancestorsOf(name) /\ NothingBelow(Attested(apex), name, a)
      BY CoveredBelow
    <2>2. TypeDenied(Attested(apex), wildcardAt(a), type)
      BY <1>5, NoDataAttested
    <2>. HIDE DEF a
    <2>. QED BY <2>1, <2>2 DEF NoDataShown
  <1>6. CASE \E b \in proveNoDataWithNSEC(z, name, type) : b
    <2>1. \/ noDataNSEC(z, name, type)
          \/ \E c \in coveringNSEC(z, name) :
               \/ isStrictSubdomain(c.val.next, name)
               \/ noDataNSEC(z, wildcardAt(closestEncloserNSEC(name, c)), type)
      BY <1>6, Zenon DEF proveNoDataWithNSEC
    <2>. QED BY <1>2, <1>4, <1>5, <2>1
  <1>. QED BY <1>1, <1>2, <1>3, <1>6 DEF proveNoDataWithNSEC3

\* NXDOMAIN likewise.
LEMMA NXDomainMeans ==
  ASSUME NEW z \in Store, NEW apex, GenuineKeys(z, apex), NEW name \in Name,
         \E b \in proveNXDomain(z, name) : b
  PROVE  NXDomainShown(Attested(apex), name)
PROOF
  <1>1. proveNXDomainWithNSEC3(z, name) \/ \E b \in proveNXDomainWithNSEC(z, name) : b
    BY Zenon DEF proveNXDomain
  <1>2. CASE proveNXDomainWithNSEC3(z, name)
    <2>. DEFINE a == closestEncloserNSEC3(z, name)
    <2>1. a \in properAncestors(name) /\ NothingBelow(Attested(apex), name, a)
      BY <1>2, ClosestBelow DEF proveNXDomainWithNSEC3
    <2>2. NameDenied(Attested(apex), wildcardAt(a))
      BY <1>2, CandidatesAttested DEF proveNXDomainWithNSEC3, NameDenied
    <2>. HIDE DEF a
    <2>. QED BY <2>1, <2>2 DEF NXDomainShown
  <1>3. CASE \E b \in proveNXDomainWithNSEC(z, name) : b
    <2>1. PICK c \in coveringNSEC(z, name) :
            /\ closestEncloserNSEC(name, c) # name
            /\ coveringNSEC(z, wildcardAt(closestEncloserNSEC(name, c))) # {}
      BY <1>3, Zenon DEF proveNXDomainWithNSEC
    <2>. DEFINE a == closestEncloserNSEC(name, c)
    <2>2. a \in ancestorsOf(name) /\ NothingBelow(Attested(apex), name, a)
      BY CoveredBelow
    <2>3. NameDenied(Attested(apex), wildcardAt(a))
      BY <2>1, CandidatesAttested DEF NameDenied
    <2>4. a # name
      BY <2>1
    <2>. HIDE DEF a
    <2>. QED BY <2>2, <2>3, <2>4 DEF NXDomainShown, properAncestors
  <1>. QED BY <1>1, <1>2, <1>3

-----------------------------------------------------------------------------
\* The walk.

\* What a result says of absence, in a zone, about a question.
ShownBy(r, records, name, type) ==
  /\ r.verdict = "insecure" => DSDenied(records, r.insecureAt)
  /\ r.verdict = "secure-nodata" => NoDataShown(records, name, type)
  /\ r.verdict = "secure-nxdomain" => NXDomainShown(records, name)
  /\ r.verdict = "secure" /\ r.wildcard # None /\ type # "DNSKEY" =>
       NameDenied(records, nextCloserName(name, r.wildcard))

\* That is what AbsentBySigned says.
LEMMA AbsentMeans ==
  ASSUME NEW w \in Walker
  PROVE  AbsentBySigned(w) <=> ShownBy(res[w], Attested(cur[w]), qname[w], qtype[w])
PROOF BY DEF AbsentBySigned, ShownBy, NoDataShown, NXDomainShown

\* A result without a verdict of absence needs nothing.
LEMMA NothingToShow ==
  ASSUME NEW r, r.verdict \in {"indeterminate", "bogus"}, NEW records, NEW name, NEW type
  PROVE  ShownBy(r, records, name, type)
PROOF BY DEF ShownBy

\* The verdicts an undecided result can return with, and what goes with them.
LEMMA ReturnedVerdicts ==
  ASSUME NEW r \in Result, Undecided(r)
  PROVE  /\ \A err : failed(r, err).verdict = "indeterminate"
         /\ \A check : uncheckable(r, check).verdict = "indeterminate"
         /\ \A at, code : setBogus(r, at, code).verdict = "bogus"
         /\ \A at, code : bogusOutcome(r, at, code).verdict = "bogus"
         /\ \A at : LET s == insecureOutcome(r, at) IN s.verdict = "insecure" /\ s.insecureAt = at
         /\ \A answer, wildcard : LET s == secureOutcome(r, answer, wildcard)
                                  IN  s.verdict = "secure" /\ s.wildcard = wildcard
         /\ \A v \in Verdict : applyOutcome(r, v).verdict = v
PROOF
  <1>1. ASSUME NEW v \in Verdict
        PROVE  applyOutcome(r, v) \in Result /\ applyOutcome(r, v).verdict = v
    <2>1. applyOutcome(r, v) = [r EXCEPT !.verdict = v, !.combined = v]
      BY <1>1, UndecidedCombines
    <2>2. applyOutcome(r, v) \in Result
      BY <1>1, OutcomeType
    <2>3. applyOutcome(r, v).verdict = v
      BY <2>1 DEF Result
    <2>. QED BY <2>2, <2>3
  <1>2. {"bogus", "insecure", "secure"} \subseteq Verdict
    BY DEF Verdict
  <1>3. \A at, code : bogusOutcome(r, at, code).verdict = "bogus"
    BY <1>1, <1>2 DEF bogusOutcome, Result
  <1>4. \A at : LET s == insecureOutcome(r, at) IN s.verdict = "insecure" /\ s.insecureAt = at
    BY <1>1, <1>2 DEF insecureOutcome, Result
  <1>5. \A answer, wildcard : LET s == secureOutcome(r, answer, wildcard)
                              IN  s.verdict = "secure" /\ s.wildcard = wildcard
    BY <1>1, <1>2 DEF secureOutcome, Result
  <1>6. /\ \A err : failed(r, err).verdict = "indeterminate"
        /\ \A check : uncheckable(r, check).verdict = "indeterminate"
        /\ \A at, code : setBogus(r, at, code).verdict = "bogus"
    BY DEF failed, uncheckable, setBogus, Result, Undecided
  <1>. QED BY <1>1, <1>3, <1>4, <1>5, <1>6

\* No step changes the type a call asks for.
LEMMA TypeKept ==
  ASSUME [Next]_vars
  PROVE  qtype' = qtype
PROOF
  <1>1. ASSUME NEW w \in Walker, Hop(w) \/ Load(w) PROVE qtype' = qtype
    BY <1>1 DEF Hop, HopLimit, HopLoop, HopStart, ContextEnded, Load, CacheHit, CacheMiss, QueryReply,
                QueryDamaged, QueryError, QueryCancelled, QueryReturn, KeepAnswer, applyRecords, Local
  <1>2. ASSUME NEW w \in Walker, Cut(w) \/ Leaf(w) PROVE qtype' = qtype
    BY <1>2 DEF Cut, ValidateRoot, NextLabel, NoDS, CheckDS, AuthenticateKeys,
                Leaf, LeafAnswer, LeafDNAME, LeafCNAME, LeafDenial, Local
  <1>. QED BY <1>1, <1>2 DEF Next, Validate, Expire, Republish, Tick, Finished, calls, vars

\* A step that returns a verdict of absence has the records for it.
LEMMA ShapeAbsence ==
  ASSUME TypeOK, NEW w \in Walker, phase[w] # "done", Decision(w), KeysAuthentic(w), Shape(w),
         qtype'[w] = qtype[w]
  PROVE  AbsentBySigned(w)'
PROOF
  <1>. DEFINE records == Attested(cur[w])
  <1>1. /\ res[w] \in Result /\ Undecided(res[w]) /\ cur[w] \in Name /\ qname[w] \in Name
        /\ zone[w] \in Store
    BY DEF TypeOK, CallType, Decision
  <1>2. ASSUME NEW r, Returning(w, r), ShownBy(r, records, qname[w], qtype[w])
        PROVE  AbsentBySigned(w)'
    <2>1. res'[w] = r /\ cur'[w] = cur[w] /\ qname'[w] = qname[w]
      BY <1>2 DEF Returning, Same
    <2>2. ShownBy(res'[w], Attested(cur'[w]), qname'[w], qtype'[w])
      BY <1>2, <2>1
    <2>. QED BY <2>2 DEF AbsentBySigned, ShownBy, NoDataShown, NXDomainShown, Attested
  <1>3. \A name \in Name, sigs \in SUBSET Outcome :
          LET s == addStep(res[w], name, FALSE, sigs) IN s \in Result /\ Undecided(s)
    BY <1>1, AddStepKeeps, AddStepUndecided
  <1>. HIDE DEF records
  <1>4. CASE ReturnsError(w) \/ ReturnsLoop(w)
    BY <1>1, <1>2, <1>4, ReturnedVerdicts, NothingToShow DEF ReturnsError, ReturnsLoop
  <1>5. CASE ReturnsBogusZone(w) \/ ReturnsBogusData(w)
    <2>1. PICK name \in Name, sigs \in SUBSET Outcome, code \in Failure :
            Returning(w, bogusOutcome(addStep(res[w], name, FALSE, sigs), name, code))
      BY <1>1, <1>5 DEF ReturnsBogusZone, ReturnsBogusData
    <2>. DEFINE s == addStep(res[w], name, FALSE, sigs)
                t == bogusOutcome(s, name, code)
    <2>2. s \in Result /\ Undecided(s)
      BY <1>3
    <2>3. t.verdict = "bogus"
      <3>. HIDE DEF s
      <3>. QED BY <2>2, ReturnedVerdicts
    <2>4. Returning(w, t)
      BY <2>1
    <2>. HIDE DEF t
    <2>. QED BY <1>2, <2>3, <2>4, NothingToShow
  <1>6. CASE ReturnsVerdict(w)
    <2>1. CASE /\ phase[w] = "ds" /\ proveNoDS(zone[w], childName(w))
               /\ Returning(w, insecureOutcome(res[w], childName(w)))
      <3>1. DSDenied(records, childName(w))
        BY <1>1, <2>1, NoDSAttested DEF KeysAuthentic, records
      <3>2. ShownBy(insecureOutcome(res[w], childName(w)), records, qname[w], qtype[w])
        BY <1>1, <3>1, ReturnedVerdicts DEF ShownBy
      <3>. QED BY <1>2, <2>1, <3>2
    <2>2. ASSUME NEW sigs \in SUBSET Outcome, NEW answer, NEW wildcard, phase[w] = "leaf",
                 ProvenExpansion(w, wildcard),
                 Returning(w, secureOutcome(addStep(res[w], cur[w], FALSE, sigs), answer, wildcard))
          PROVE  AbsentBySigned(w)'
      <3>. DEFINE s == addStep(res[w], cur[w], FALSE, sigs)
                  t == secureOutcome(s, answer, wildcard)
      <3>1. wildcard # None /\ qtype[w] # "DNSKEY" => NameDenied(records, nextCloserName(qname[w], wildcard))
        BY <1>1, <2>2, NonExistenceAttested DEF KeysAuthentic, ProvenExpansion, records
      <3>2. s \in Result /\ Undecided(s)
        BY <1>1, <1>3
      <3>3. t.verdict = "secure" /\ t.wildcard = wildcard
        <4>. HIDE DEF s
        <4>. QED BY <3>2, ReturnedVerdicts
      <3>4. Returning(w, t)
        BY <2>2
      <3>. HIDE DEF t
      <3>5. ShownBy(t, records, qname[w], qtype[w])
        BY <3>1, <3>3 DEF ShownBy
      <3>. QED BY <1>2, <3>4, <3>5
    <2>3. ASSUME NEW v \in {"secure-nodata", "secure-nxdomain", "indeterminate"}, phase[w] = "leaf",
                 ProvenAbsence(w, v), Returning(w, applyOutcome(res[w], v))
          PROVE  AbsentBySigned(w)'
      <3>1. GenuineKeys(zone[w], cur[w])
        BY <2>3 DEF KeysAuthentic, ProvenAbsence
      <3>2. v = "secure-nodata" => NoDataShown(records, qname[w], qtype[w])
        BY <1>1, <2>3, <3>1, NoDataMeans DEF ProvenAbsence, records
      <3>3. v = "secure-nxdomain" => NXDomainShown(records, qname[w])
        BY <1>1, <2>3, <3>1, NXDomainMeans DEF ProvenAbsence, records
      <3>4. applyOutcome(res[w], v).verdict = v
        BY <1>1, <2>3, ReturnedVerdicts DEF Verdict
      <3>5. ShownBy(applyOutcome(res[w], v), records, qname[w], qtype[w])
        BY <2>3, <3>2, <3>3, <3>4 DEF ShownBy
      <3>. QED BY <1>2, <2>3, <3>5
    <2>. QED BY <1>6, <2>1, <2>2, <2>3 DEF ReturnsVerdict
  <1>7. CASE Starts(w) \/ Loads(w) \/ Probes(w) \/ Enters(w) \/ Follows(w)
    <2>1. phase'[w] # "done"
      BY <1>7 DEF Starts, Loads, Probes, Enters, Follows
    <2>2. res'[w].verdict = "indeterminate"
      BY <2>1, ShapeDecision DEF Decision, Undecided
    <2>. QED BY <2>2 DEF AbsentBySigned
  <1>. QED BY <1>4, <1>5, <1>6, <1>7 DEF Shape

LEMMA InitAbsence == Init => AbsenceIsAttested
PROOF BY DEF Init, NewResult, AbsenceIsAttested, AbsentBySigned

LEMMA NextAbsence ==
  TypeOK /\ Decisions /\ TrustInvariant /\ AbsenceIsAttested /\ [Next]_vars => AbsenceIsAttested'
PROOF
  <1>. SUFFICES ASSUME TypeOK, Decisions, TrustInvariant, AbsenceIsAttested, [Next]_vars,
                       NEW v \in Walker
                PROVE  AbsentBySigned(v)'
    BY DEF AbsenceIsAttested
  <1>1. Decision(v) /\ KeysAuthentic(v) /\ AbsentBySigned(v)
    BY DEF Decisions, TrustInvariant, Trust, AbsenceIsAttested
  <1>2. CASE Untouched(v)
    <2>1. cur'[v] = cur[v] /\ qname'[v] = qname[v] /\ qtype'[v] = qtype[v] /\ res'[v] = res[v]
      BY <1>2 DEF Untouched
    <2>2. ShownBy(res[v], Attested(cur[v]), qname[v], qtype[v])
      BY <1>1, AbsentMeans
    <2>3. ShownBy(res'[v], Attested(cur'[v]), qname'[v], qtype'[v])
      BY <2>1, <2>2
    <2>. QED BY <2>3 DEF AbsentBySigned, ShownBy, NoDataShown, NXDomainShown, Attested
  <1>3. qtype'[v] = qtype[v]
    BY TypeKept
  <1>. QED BY <1>1, <1>2, <1>3, StepOrStay, ShapeAbsence

(***************************************************************************)
(* Whatever the resolver and the cache return, in whatever order the store *)
(* lists its records, a verdict that something is absent rests on denial   *)
(* records that the zone the walk ended in signed with its own keys, and   *)
(* on all of those the verdict needs.                                      *)
(* (noDSDescent, proveNoData, proveNXDomain, proveQnameNonExistence)       *)
(***************************************************************************)
THEOREM AbsencesAttested == Spec => []AbsenceIsAttested
PROOF
  BY TypeCorrect, DecisionsHold, TrustHandedDown, InitAbsence, NextAbsence, PTL DEF Spec
=============================================================================
