---------------------------- MODULE TrustProofs ----------------------------
(***************************************************************************)
(* Proofs about the walk, for every set of calls, records, signatures,     *)
(* answers and bounds that the assumptions of SigCheck, ChainWalk and      *)
(* ChainTrust admit.                                                       *)
(*                                                                         *)
(* First the types, one lemma per operator and per group of actions.  Then *)
(* trust: a verified rrset is a published one when the store's keys are    *)
(* genuine (VerifiedIsPublished), so a verified DS rrset digests genuine   *)
(* keys (VerifiedDSIsGenuine), so a DNSKEY rrset that verifies under a key *)
(* the digests pick holds genuine keys only (AuthenticatedIsGenuine).      *)
(* TrustInvariant is what each step must hand to the next for that.        *)
(***************************************************************************)
EXTENDS ChainTrust, SequenceTheorems, TLAPS

-----------------------------------------------------------------------------
\* Names.

\* An ancestor of a name is a name, of the length asked for.
LEMMA PrefixIsName ==
  ASSUME NEW name \in Name, NEW n \in 0..Len(name)
  PROVE  LastNLabels(name, n) \in Name /\ Len(LastNLabels(name, n)) = n
PROOF
  <1>1. \A i \in 1..n : name[i] \in Nat
    BY ElementOfSeq DEF Name
  <1>. QED
    BY <1>1, SubSeqProperties DEF Name, LastNLabels

\* The root is a name without labels.
LEMMA RootIsName == Root \in Name /\ Len(Root) = 0
PROOF BY EmptySeq DEF Root, Name

\* The name a wildcard is at has the wildcard label last.
LEMMA WildcardIsWildcard ==
  ASSUME NEW name \in Name
  PROVE  wildcardAt(name) \in Name /\ IsWildcard(wildcardAt(name))
PROOF BY AppendProperties DEF Name, wildcardAt, IsWildcard, Star, Root

\* What ancestorsOf and properAncestors hold are names.
LEMMA AncestorIsName ==
  ASSUME NEW name \in Name, NEW a \in ancestorsOf(name)
  PROVE  a \in Name /\ Len(a) \in 0..Len(name)
PROOF BY PrefixIsName DEF ancestorsOf

\* A DNAME substitution gives a name.
LEMMA SynthesisedIsName ==
  ASSUME NEW name \in Name, NEW target \in Name, NEW owner \in ancestorsOf(name)
  PROVE  synthesiseDNAMETarget(name, owner, target) \in Name
PROOF
  <1>1. Len(owner) \in 0..Len(name) /\ Len(name) \in Nat
    BY AncestorIsName DEF Name
  <1>2. \A i \in (Len(owner) + 1)..Len(name) : name[i] \in Nat
    BY <1>1, ElementOfSeq DEF Name
  <1>3. SubSeq(name, Len(owner) + 1, Len(name)) \in Seq(Nat)
    BY <1>1, <1>2, SubSeqProperties
  <1>. QED
    BY <1>3, ConcatProperties DEF Name, synthesiseDNAMETarget

-----------------------------------------------------------------------------
\* The check of an rrset.

\* Every RRSIG gets one of the statuses of CheckRRSIG.
LEMMA CheckRRSIGType ==
  ASSUME NEW z, NEW name, NEW type, NEW sig, NEW mode
  PROVE  CheckRRSIG(z, name, type, sig, mode) \in SigStatus
PROOF BY DEF CheckRRSIG, signedOver, validityStatus, SigStatus

\* The outcomes for the chain are well formed.
LEMMA CheckRRSetType ==
  ASSUME NEW z \in Store, NEW name \in Name, NEW type \in RRType, NEW mode
  PROVE  CheckRRSet(z, name, type, mode) \subseteq Outcome
PROOF
  <1>. SUFFICES ASSUME NEW s \in FindRRSIGs(z, name, type)
                PROVE  [name |-> name, type |-> type, tag |-> s.tag, signer |-> s.signer,
                        inc |-> s.inc, exp |-> s.exp,
                        result |-> CheckRRSIG(z, name, type, s, mode)] \in Outcome
    BY DEF CheckRRSet
  <1>1. s \in Signature
    BY DEF FindRRSIGs, Store
  <1>. QED
    BY <1>1, CheckRRSIGType, RecordAssumption DEF Outcome

\* A failed rrset has a failure to name.
LEMMA FailureCodeType ==
  ASSUME NEW results, \A c \in results : c.result \in SigStatus \ {"verified"}
  PROVE  sigFailureCode(results) \in Code
PROOF
  <1>1. CASE results = {}
    BY <1>1 DEF sigFailureCode, Code
  <1>2. CASE results # {}
    <2>. DEFINE met == {c.result : c \in results}
                First(i) == /\ sigFailureOrder[i] \in met
                            /\ \A j \in 1..(i - 1) : sigFailureOrder[j] \notin met
    <2>1. \A i \in 1..5 : sigFailureOrder[i] \in SigStatus
      BY DEF sigFailureOrder, SigStatus
    <2>2. \E i \in 1..5 : sigFailureOrder[i] \in met
      <3>1. PICK c \in results : TRUE
        BY <1>2
      <3>2. c.result \in met /\ c.result \in SigStatus \ {"verified"}
        BY <3>1
      <3>. QED
        BY <3>2 DEF sigFailureOrder, SigStatus
    <2>3. \E i \in 1..5 : First(i)
      <3>. HIDE DEF met
      <3>. QED BY <2>2
    <2>4. sigFailureCode(results) = sigFailureOrder[CHOOSE i \in 1..5 : First(i)]
      BY <1>2 DEF sigFailureCode
    <2>. QED
      <3>. HIDE DEF First
      <3>1. (CHOOSE i \in 1..5 : First(i)) \in 1..5
        BY <2>3
      <3>. QED BY <3>1, <2>1, <2>4 DEF Code
  <1>. QED BY <1>1, <1>2

\* checkRRSet returns outcomes and one of the codes.
LEMMA CheckType ==
  ASSUME NEW z \in Store, NEW name \in Name, NEW type \in RRType, NEW mode
  PROVE  /\ checkRRSet(z, name, type, mode).sigs \subseteq Outcome
         /\ checkRRSet(z, name, type, mode).code \in Code
PROOF
  <1>. DEFINE results == CheckRRSet(z, name, type, mode)
              check == checkRRSet(z, name, type, mode)
  <1>1. results \subseteq Outcome
    BY CheckRRSetType
  <1>2. check.sigs \subseteq Outcome
    BY <1>1 DEF checkRRSet
  <1>3. check.code \in Code
    <2>1. CASE \E c \in results : c.result = "verified"
      BY <2>1 DEF checkRRSet, Code
    <2>2. CASE ~\E c \in results : c.result = "verified"
      <3>1. \A c \in results : c.result \in SigStatus \ {"verified"}
        BY <1>1, <2>2 DEF Outcome
      <3>2. sigFailureCode(results) \in Code
        BY <3>1, FailureCodeType
      <3>. QED BY <2>2, <3>2 DEF checkRRSet
    <2>. QED BY <2>1, <2>2
  <1>. QED BY <1>2, <1>3

-----------------------------------------------------------------------------
\* The result.

\* Combining verdicts gives a verdict.
LEMMA CombinedType ==
  ASSUME NEW r \in Result, NEW verdict \in Verdict
  PROVE  Combined(r, verdict) \in Verdict
PROOF
  <1>1. r.combined \in Verdict \cup {None}
    BY DEF Result
  <1>. QED BY <1>1 DEF Combined, combineVerdicts, Verdict

\* A terminal verdict keeps the result well formed.
LEMMA OutcomeType ==
  ASSUME NEW r \in Result, NEW verdict \in Verdict
  PROVE  applyOutcome(r, verdict) \in Result
PROOF BY CombinedType DEF applyOutcome, Result

\* So does a Bogus outcome, of a hop or of the alias loop.
LEMMA BogusType ==
  ASSUME NEW r \in Result, NEW at \in Name, NEW code \in Code
  PROVE  bogusOutcome(r, at, code) \in Result /\ setBogus(r, at, code) \in Result
PROOF
  <1>1. applyOutcome(r, "bogus") \in Result
    BY OutcomeType DEF Verdict
  <1>2. bogusOutcome(r, at, code) \in Result
    BY <1>1 DEF bogusOutcome, Result
  <1>3. setBogus(r, at, code) \in Result
    BY DEF setBogus, Result, Verdict
  <1>. QED BY <1>2, <1>3

\* So does an Insecure outcome.
LEMMA InsecureType ==
  ASSUME NEW r \in Result, NEW at \in Name
  PROVE  insecureOutcome(r, at) \in Result
PROOF
  <1>1. applyOutcome(r, "insecure") \in Result
    BY OutcomeType DEF Verdict
  <1>. QED BY <1>1 DEF insecureOutcome, Result, Code

\* So does a Secure outcome with its answer.
LEMMA SecureType ==
  ASSUME NEW r \in Result, NEW answer \in SUBSET Record, NEW wildcard \in Name \cup {None}
  PROVE  secureOutcome(r, answer, wildcard) \in Result
PROOF
  <1>1. applyOutcome(r, "secure") \in Result
    BY OutcomeType DEF Verdict
  <1>. QED BY <1>1 DEF secureOutcome, Result

\* So do the errors.
LEMMA ErrorType ==
  ASSUME NEW r \in Result, NEW err \in ErrorKind, NEW check
  PROVE  failed(r, err) \in Result /\ uncheckable(r, check) \in Result
PROOF
  <1>1. failed(r, err) \in Result
    BY DEF failed, Result
  <1>2. uncheckable(r, check) \in Result
    <2>. DEFINE code == IF check.code = "unsupported-algorithm" THEN check.code ELSE r.code
    <2>1. code \in Code
      BY DEF Code, SigStatus, Result
    <2>2. uncheckable(r, check) = [r EXCEPT !.err = "ErrVerifier", !.code = code]
      BY DEF uncheckable, Result
    <2>. HIDE DEF code
    <2>. QED BY <2>1, <2>2 DEF Result, ErrorKind
  <1>. QED BY <1>1, <1>2

\* A step added or extended keeps the chain a sequence of steps.
LEMMA StepType ==
  ASSUME NEW r \in Result, NEW name \in Name, NEW signed \in BOOLEAN,
         NEW sigs \in SUBSET Outcome
  PROVE  addStep(r, name, signed, sigs) \in Result
PROOF
  <1>. DEFINE at == {i \in DOMAIN r.chain : r.chain[i].zone = name}
              step == [zone |-> name, signed |-> signed, sigs |-> sigs]
              longer == Append(r.chain, step)
              wider == [i \in DOMAIN r.chain |->
                          IF i \in at THEN [r.chain[i] EXCEPT !.sigs = r.chain[i].sigs \cup sigs]
                                      ELSE r.chain[i]]
  <1>1. r.chain \in Seq(Step) /\ step \in Step
    BY DEF Result, Step
  <1>2. longer \in Seq(Step)
    BY <1>1, AppendProperties
  <1>3. wider \in Seq(Step)
    <2>1. DOMAIN r.chain = 1..Len(r.chain) /\ Len(r.chain) \in Nat
      BY <1>1, LenProperties
    <2>2. \A i \in 1..Len(r.chain) : r.chain[i] \in Step
      BY <1>1, ElementOfSeq
    <2>3. \A i \in 1..Len(r.chain) :
            [r.chain[i] EXCEPT !.sigs = r.chain[i].sigs \cup sigs] \in Step
      BY <2>2 DEF Step
    <2>4. wider \in [1..Len(r.chain) -> Step]
      BY <2>1, <2>2, <2>3
    <2>. QED BY <2>1, <2>4, SeqDef
  <1>4. [r EXCEPT !.chain = longer] \in Result /\ [r EXCEPT !.chain = wider] \in Result
    <2>. HIDE DEF longer, wider
    <2>. QED BY <1>2, <1>3 DEF Result
  <1>. QED BY <1>4 DEF addStep

-----------------------------------------------------------------------------
\* Types.

\* A new store is a store.
LEMMA EmptyZoneType == EmptyZone \in Store
PROOF BY DEF EmptyZone, Store

\* A store stays one when an answer is deposited.
LEMMA DepositType ==
  ASSUME NEW z \in Store, NEW rrs \in SUBSET Record, NEW sigs \in SUBSET Signature, NEW asked
  PROVE  deposit(z, rrs, sigs, asked) \in Store
PROOF BY DEF deposit, accepted, Store

\* A store stays one when keys of it are trusted.
LEMMA TrustedType ==
  ASSUME NEW z \in Store, NEW name, NEW digests
  PROVE  AddTrustedKeys(z, keysMatchingDS(z, name, digests)) \in Store
PROOF BY DEF AddTrustedKeys, keysMatchingDS, FindRRSet, Store

\* The initial states are well typed.
LEMMA InitType == Init => TypeOK
PROOF
  <1>. SUFFICES ASSUME Init PROVE TypeOK
    OBVIOUS
  <1>1. SharedType
    BY BoundsAssumption DEF Init, SharedType
  <1>2. CallType
    <2>1. qname \in [Walker -> Name] /\ qtype \in [Walker -> RRType]
      BY BoundsAssumption DEF Init
    <2>2. NewResult \in Result
      BY EmptySeq DEF NewResult, Result, Verdict, Code, ErrorKind
    <2>. QED BY <2>1, <2>2, EmptyZoneType, RootIsName, BoundsAssumption DEF Init, CallType
  <1>3. ControlType
    BY DEF Init, ControlType
  <1>. QED BY <1>1, <1>2, <1>3 DEF TypeOK

\* A call that returns leaves everything well typed.
LEMMA DoneType ==
  ASSUME TypeOK, NEW w \in Walker, NEW r \in Result, Done(w, r), qtype' = qtype,
         ctxDone' = ctxDone, reply' = reply
  PROVE  CallType' /\ ControlType'
PROOF
  <1>1. CallType'
    BY EmptyZoneType DEF TypeOK, CallType, Done
  <1>2. ControlType'
    BY DEF TypeOK, CallType, ControlType, Done
  <1>. QED BY <1>1, <1>2

\* A step of one call leaves the shared state well typed.
LEMMA LocalType ==
  ASSUME TypeOK, Local
  PROVE  SharedType' /\ ctxDone' = ctxDone /\ qtype' = qtype /\ reply' = reply
PROOF BY DEF TypeOK, SharedType, Local, shared

\* The top of the loop over alias hops keeps the types.
LEMMA HopType ==
  ASSUME TypeOK, NEW w \in Walker, Hop(w)
  PROVE  TypeOK'
PROOF
  <1>. USE DEF TypeOK
  <1>1. CASE HopLimit(w)
    <2>1. setBogus(res[w], qname[w], "alias-limit") \in Result
      BY BogusType DEF CallType, Code
    <2>. QED BY <1>1, <2>1, DoneType, LocalType DEF HopLimit
  <1>2. CASE HopLoop(w)
    <2>1. setBogus(res[w], qname[w], "alias-loop") \in Result
      BY BogusType DEF CallType, Code
    <2>. QED BY <1>2, <2>1, DoneType, LocalType DEF HopLoop
  <1>3. CASE HopStart(w)
    <2>1. SharedType'
      BY <1>3, LocalType DEF HopStart
    <2>2. CallType'
      BY <1>3, EmptyZoneType DEF HopStart, HopGo, Enter, Local, CallType
    <2>3. ControlType'
      BY <1>3 DEF HopStart, HopGo, Enter, Local, CallType, ControlType
    <2>. QED BY <2>1, <2>2, <2>3
  <1>4. CASE ContextEnded(w)
    <2>1. failed(res[w], "ErrChainTimeout") \in Result
      BY ErrorType DEF CallType, ErrorKind
    <2>. QED BY <1>4, <2>1, DoneType, LocalType DEF ContextEnded
  <1>. QED BY <1>1, <1>2, <1>3, <1>4 DEF Hop

\* The name probed for a cut is a name.
LEMMA ChildNameType ==
  ASSUME TypeOK, NEW w \in Walker, phase[w] \in {"ds", "keys"}
  PROVE  childName(w) \in Name /\ Len(childName(w)) = depth[w]
PROOF
  <1>1. qname[w] \in Name /\ depth[w] \in 0..Len(qname[w])
    BY DEF TypeOK, CallType, ControlType, Name
  <1>. QED BY <1>1, PrefixIsName DEF childName

\* What is asked is a name and a type.
LEMMA AskedType ==
  ASSUME TypeOK, NEW w \in Walker
  PROVE  Asked(w) \in [name : Name, type : RRType]
PROOF
  <1>1. phase[w] \in {"ds", "keys"} => childName(w) \in Name
    BY ChildNameType
  <1>2. Asked(w).name \in Name
    BY <1>1, RootIsName DEF Asked, TypeOK, CallType
  <1>3. Asked(w).type \in RRType
    BY BoundsAssumption DEF Asked, TypeOK, CallType
  <1>. QED BY <1>2, <1>3 DEF Asked

\* applyRecords keeps the types of the calls.
LEMMA ApplyType ==
  ASSUME TypeOK, NEW w \in Walker, io[w] \in {"lookup", "answered"},
         reply' \in [Walker -> SUBSET Response], \A v \in Walker : v # w => reply'[v] = reply[v],
         NEW rrs \in SUBSET Record, NEW sigs \in SUBSET Signature, applyRecords(w, rrs, sigs)
  PROVE  CallType' /\ ControlType'
PROOF
  <1>1. /\ deposit(zone[w], rrs, sigs, Asked(w)) \in Store
        /\ deposit(kid[w], rrs, sigs, Asked(w)) \in Store
    BY DepositType DEF TypeOK, CallType
  <1>2. CallType'
    BY <1>1 DEF TypeOK, CallType, applyRecords
  <1>3. ControlType'
    BY DEF TypeOK, CallType, ControlType, applyRecords
  <1>. QED BY <1>2, <1>3

\* So does an answer, usable or not.
LEMMA QueryReturnType ==
  ASSUME TypeOK, NEW w \in Walker, io[w] = "query",
         NEW resp \in Response, QueryReturn(w, resp),
         world' = world, now' = now, cache' = cache, faults' \in 0..MaxFaults
  PROVE  TypeOK'
PROOF
  <1>1. CASE Usable(resp)
    <2>1. {resp} \in SUBSET Response
      OBVIOUS
    <2>2. CallType'
      BY <1>1, <2>1 DEF QueryReturn, TypeOK, CallType
    <2>3. ControlType'
      <3>. SUFFICES ASSUME NEW v \in Walker
                    PROVE  /\ (phase[v] \in {"hop", "descend", "done"} <=> io[v] = "idle")'
                           /\ (io[v] = "answered" => reply[v] # {})'
                           /\ (phase[v] \in {"ds", "keys"} => depth[v] <= Len(qname[v]))'
                           /\ (phase[v] \notin {"hop", "done"} => hop[v] <= MaxAliasHops)'
        BY DEF ControlType
      <3>1. io' = [io EXCEPT ![w] = "answered"] /\ reply' = [reply EXCEPT ![w] = {resp}]
        BY <1>1 DEF QueryReturn
      <3>2. io'[v] = "answered" => reply'[v] # {}
        BY <3>1 DEF TypeOK, CallType, ControlType
      <3>. QED BY <1>1, <3>1, <3>2 DEF QueryReturn, TypeOK, CallType, ControlType
    <2>. QED BY <2>2, <2>3 DEF TypeOK, SharedType
  <1>2. CASE ~Usable(resp)
    <2>1. failed(res[w], "ErrResolver") \in Result
      BY ErrorType DEF TypeOK, CallType, ErrorKind
    <2>2. CallType' /\ ControlType'
      BY <1>2, <2>1, DoneType DEF QueryReturn
    <2>. QED BY <2>2 DEF TypeOK, SharedType
  <1>. QED BY <1>1, <1>2

\* loadRecords keeps the types.
LEMMA LoadType ==
  ASSUME TypeOK, NEW w \in Walker, Load(w)
  PROVE  TypeOK'
PROOF
  <1>1. CASE CacheHit(w)
    <2>1. PICK e \in Cached(Asked(w)) : applyRecords(w, e.rrs, e.sigs)
      BY <1>1 DEF CacheHit
    <2>2. e.rrs \in SUBSET Record /\ e.sigs \in SUBSET Signature
      BY <2>1 DEF Cached, TypeOK, SharedType, Entry
    <2>3. reply' = reply /\ reply \in [Walker -> SUBSET Response]
      BY <1>1 DEF CacheHit, TypeOK, CallType
    <2>4. CallType' /\ ControlType'
      BY <1>1, <2>1, <2>2, <2>3, ApplyType DEF CacheHit
    <2>. QED BY <1>1, <2>4 DEF CacheHit, shared, TypeOK, SharedType
  <1>2. CASE CacheMiss(w)
    <2>1. SharedType'
      BY <1>2, LocalType DEF CacheMiss
    <2>2. CallType' /\ ControlType'
      BY <1>2 DEF CacheMiss, Local, TypeOK, CallType, ControlType
    <2>. QED BY <2>1, <2>2 DEF TypeOK
  <1>3. CASE QueryReply(w)
    <2>1. PICK resp \in Reply[world][Asked(w)] : QueryReturn(w, resp)
      BY <1>3 DEF QueryReply
    <2>2. resp \in Response
      BY <1>3, <2>1, ResolverAssumption DEF QueryReply, TypeOK, SharedType
    <2>. QED BY <1>3, <2>1, <2>2, QueryReturnType DEF QueryReply, shared, TypeOK, SharedType
  <1>4. CASE QueryDamaged(w)
    <2>1. PICK resp \in Damaged[world][Asked(w)] : QueryReturn(w, resp)
      BY <1>4 DEF QueryDamaged
    <2>2. resp \in Response
      BY <1>4, <2>1, ResolverAssumption DEF QueryDamaged, TypeOK, SharedType
    <2>3. faults' \in 0..MaxFaults
      BY <1>4, BoundsAssumption DEF QueryDamaged, TypeOK, SharedType
    <2>. QED BY <1>4, <2>1, <2>2, <2>3, QueryReturnType DEF QueryDamaged
  <1>5. CASE QueryError(w)
    <2>1. failed(res[w], "ErrResolver") \in Result
      BY ErrorType DEF TypeOK, CallType, ErrorKind
    <2>2. SharedType'
      BY <1>5, BoundsAssumption DEF QueryError, TypeOK, SharedType
    <2>. QED BY <1>5, <2>1, <2>2, DoneType DEF QueryError, TypeOK
  <1>6. CASE QueryCancelled(w)
    <2>1. PICK err \in {"ErrChainTimeout", "ErrResolver"} : Done(w, failed(res[w], err))
      BY <1>6 DEF QueryCancelled
    <2>2. failed(res[w], err) \in Result
      BY ErrorType DEF TypeOK, CallType, ErrorKind
    <2>. QED BY <1>6, <2>1, <2>2, DoneType, LocalType DEF QueryCancelled, TypeOK
  <1>7. CASE KeepAnswer(w)
    <2>1. PICK resp \in reply[w] : Put(Asked(w), resp) /\ applyRecords(w, resp.rrs, resp.sigs)
      BY <1>7 DEF KeepAnswer
    <2>2. resp.rrs \in SUBSET Record /\ resp.sigs \in SUBSET Signature
      BY <2>1 DEF TypeOK, CallType, Response
    <2>3. reply' \in [Walker -> SUBSET Response] /\ \A v \in Walker : v # w => reply'[v] = reply[v]
      BY <1>7 DEF KeepAnswer, TypeOK, CallType
    <2>4. CallType' /\ ControlType'
      BY <1>7, <2>1, <2>2, <2>3, ApplyType DEF KeepAnswer
    <2>5. cache' \subseteq Entry
      BY <2>1, <2>2, AskedType DEF Put, Entry, TypeOK, SharedType, Cached
    <2>. QED BY <1>7, <2>4, <2>5 DEF KeepAnswer, TypeOK, SharedType
  <1>. QED BY <1>1, <1>2, <1>3, <1>4, <1>5, <1>6, <1>7 DEF Load

\* Entering a zone, or failing to.
LEMMA AuthenticateType ==
  ASSUME TypeOK, NEW w \in Walker, NEW name \in Name, NEW digests,
         NEW before \in SUBSET Outcome, NEW noMatch \in Code, Local,
         phase[w] \in {"root", "keys"}, authenticate(w, name, digests, before, noMatch)
  PROVE  TypeOK'
PROOF
  <1>. DEFINE ksks  == keysMatchingDS(kid[w], name, digests)
              z     == AddTrustedKeys(kid[w], ksks)
              check == checkRRSet(z, name, "DNSKEY", "KSK")
              sigs  == before \cup check.sigs
  <1>1. z \in Store /\ res[w] \in Result
    BY TrustedType DEF TypeOK, CallType
  <1>2. check.sigs \subseteq Outcome /\ check.code \in Code
    <2>. HIDE DEF z
    <2>. QED BY <1>1, CheckType, BoundsAssumption
  <1>3. sigs \in SUBSET Outcome
    BY <1>2
  <1>4. CASE Done(w, bogusOutcome(addStep(res[w], name, FALSE, before), name, noMatch))
    BY <1>1, <1>4, StepType, BogusType, DoneType, LocalType DEF TypeOK
  <1>5. CASE Done(w, uncheckable(res[w], check))
    <2>1. uncheckable(res[w], check) \in Result
      BY <1>1, ErrorType DEF ErrorKind
    <2>. QED BY <1>5, <2>1, DoneType, LocalType DEF TypeOK
  <1>6. CASE Done(w, bogusOutcome(addStep(res[w], name, FALSE, sigs), name, check.code))
    <2>1. addStep(res[w], name, FALSE, sigs) \in Result
      BY <1>1, <1>3, StepType
    <2>2. bogusOutcome(addStep(res[w], name, FALSE, sigs), name, check.code) \in Result
      BY <1>2, <2>1, BogusType
    <2>. QED BY <1>6, <2>2, DoneType, LocalType DEF TypeOK
  <1>7. CASE Descend(w, z, name, addStep(res[w], name, TRUE, sigs))
    <2>. DEFINE r == addStep(res[w], name, TRUE, sigs)
    <2>1. r \in Result
      BY <1>1, <1>3, StepType
    <2>2. Len(name) \in Nat
      BY DEF Name
    <2>5. Descend(w, z, name, r)
      BY <1>7
    <2>. HIDE DEF z, r
    <2>3. CallType'
      BY <1>1, <2>5, <2>1, <2>2, EmptyZoneType DEF Descend, Local, TypeOK, CallType
    <2>4. ControlType'
      BY <2>5 DEF Descend, Local, TypeOK, CallType, ControlType
    <2>. QED BY <2>3, <2>4, LocalType DEF TypeOK
  <1>. QED BY <1>4, <1>5, <1>6, <1>7 DEF authenticate

\* validateRoot and descendInto keep the types.
LEMMA CutType ==
  ASSUME TypeOK, NEW w \in Walker, Cut(w)
  PROVE  TypeOK'
PROOF
  <1>1. CASE ValidateRoot(w)
    BY <1>1, AuthenticateType, RootIsName DEF ValidateRoot, Loaded, Code
  <1>2. CASE NextLabel(w)
    <2>1. SharedType'
      BY <1>2, LocalType DEF NextLabel
    <2>2. CallType'
      BY <1>2 DEF NextLabel, Enter, Local, TypeOK, CallType
    <2>3. ControlType'
      BY <1>2 DEF NextLabel, Enter, Local, TypeOK, CallType, ControlType
    <2>. QED BY <2>1, <2>2, <2>3 DEF TypeOK
  <1>3. CASE NoDS(w)
    <2>1. childName(w) \in Name /\ res[w] \in Result
      BY <1>3, ChildNameType DEF NoDS, notACut, Loaded, TypeOK, CallType
    <2>2. CASE Done(w, insecureOutcome(res[w], childName(w)))
      BY <1>3, <2>1, <2>2, InsecureType, DoneType, LocalType DEF NoDS, notACut, TypeOK
    <2>3. CASE ~Done(w, insecureOutcome(res[w], childName(w)))
      <3>1. SharedType'
        BY <1>3, LocalType DEF NoDS, notACut
      <3>2. CallType'
        BY <1>3, <2>3 DEF NoDS, notACut, Loaded, Local, TypeOK, CallType
      <3>3. ControlType'
        BY <1>3, <2>3 DEF NoDS, notACut, Loaded, Local, TypeOK, CallType, ControlType
      <3>. QED BY <3>1, <3>2, <3>3 DEF TypeOK
    <2>. QED BY <2>2, <2>3
  <1>4. CASE CheckDS(w)
    <2>. DEFINE child == childName(w)
                check == checkRRSet(zone[w], child, "DS", "None")
    <2>1. /\ child \in Name /\ res[w] \in Result /\ zone[w] \in Store
          /\ phase[w] = "ds" /\ io[w] = "loaded" /\ Local
      BY <1>4, ChildNameType DEF CheckDS, childZone, Loaded, TypeOK, CallType
    <2>2. check.sigs \in SUBSET Outcome /\ check.code \in Code
      BY <2>1, CheckType, BoundsAssumption
    <2>3. CASE Done(w, uncheckable(res[w], check))
      <3>1. uncheckable(res[w], check) \in Result
        BY <2>1, ErrorType DEF ErrorKind
      <3>. QED BY <2>1, <2>3, <3>1, DoneType, LocalType DEF TypeOK
    <2>4. CASE Done(w, bogusOutcome(addStep(res[w], child, FALSE, check.sigs), child, check.code))
      <3>1. addStep(res[w], child, FALSE, check.sigs) \in Result
        BY <2>1, <2>2, StepType
      <3>2. bogusOutcome(addStep(res[w], child, FALSE, check.sigs), child, check.code) \in Result
        BY <2>1, <2>2, <3>1, BogusType
      <3>. QED BY <2>1, <2>4, <3>2, DoneType, LocalType DEF TypeOK
    <2>5. CASE /\ dsSigs' = [dsSigs EXCEPT ![w] = check.sigs]
               /\ kid' = [kid EXCEPT ![w] = [EmptyZone EXCEPT !.parent = zone[w].rrs]]
               /\ Enter(w, "keys")
               /\ UNCHANGED <<qname, hop, seen, depth, cur, zone, found, res>>
      <3>1. [EmptyZone EXCEPT !.parent = zone[w].rrs] \in Store
        BY <2>1 DEF EmptyZone, Store
      <3>2. CallType'
        BY <2>1, <2>2, <2>5, <3>1 DEF Enter, Local, TypeOK, CallType
      <3>3. ControlType'
        BY <2>1, <2>5 DEF Enter, Local, TypeOK, CallType, ControlType
      <3>. QED BY <2>1, <3>2, <3>3, LocalType DEF TypeOK
    <2>. QED BY <1>4, <2>3, <2>4, <2>5 DEF CheckDS, childZone
  <1>5. CASE AuthenticateKeys(w)
    <2>1. childName(w) \in Name /\ dsSigs[w] \in SUBSET Outcome
      BY <1>5, ChildNameType DEF AuthenticateKeys, Loaded, TypeOK, CallType
    <2>. QED BY <1>5, <2>1, AuthenticateType DEF AuthenticateKeys, Loaded, Code
  <1>. QED BY <1>1, <1>2, <1>3, <1>4, <1>5 DEF Cut

\* Following an alias keeps the types.
LEMMA FollowAliasType ==
  ASSUME TypeOK, NEW w \in Walker, phase[w] = "leaf", Local,
         NEW type \in {"CNAME", "DNAME"}, NEW owner \in Name, NEW targets \in SUBSET Name,
         followAlias(w, type, owner, targets)
  PROVE  TypeOK'
PROOF
  <1>. DEFINE check == checkRRSet(zone[w], owner, type, "None")
              r     == addZoneSigs(res[w], cur[w], check.sigs)
  <1>0. hop[w] \in 0..MaxAliasHops
    <2>1. hop[w] \in 0..(MaxAliasHops + 1)
      BY DEF TypeOK, CallType
    <2>2. hop[w] <= MaxAliasHops
      BY DEF TypeOK, ControlType
    <2>. QED BY <2>1, <2>2, BoundsAssumption
  <1>1. /\ res[w] \in Result /\ zone[w] \in Store /\ cur[w] \in Name
        /\ type \in RRType
    BY BoundsAssumption DEF TypeOK, CallType
  <1>2. check.sigs \in SUBSET Outcome /\ check.code \in Code
    BY <1>1, CheckType
  <1>3. r \in Result
    BY <1>1, <1>2, StepType DEF addZoneSigs
  <1>4. CASE Done(w, uncheckable(res[w], check))
    <2>1. uncheckable(res[w], check) \in Result
      BY <1>1, ErrorType DEF ErrorKind
    <2>. QED BY <1>4, <2>1, DoneType, LocalType DEF TypeOK
  <1>5. CASE Done(w, bogusOutcome(r, cur[w], check.code))
    <2>1. bogusOutcome(r, cur[w], check.code) \in Result
      BY <1>1, <1>2, <1>3, BogusType
    <2>. QED BY <1>5, <2>1, DoneType, LocalType DEF TypeOK
  <1>6. ASSUME NEW target \in targets, Redirect(w, r, type, owner, target)
        PROVE  TypeOK'
    <2>. DEFINE alias == [type |-> type, from |-> owner, target |-> target, zone |-> cur[w]]
                next == [r EXCEPT !.combined = Combined(r, "secure"),
                                  !.aliases = Append(r.aliases, alias)]
    <2>1. Append(r.aliases, alias) \in Seq(Alias)
      <3>1. r.aliases \in Seq(Alias) /\ alias \in Alias
        BY <1>1, <1>3 DEF Result, Alias
      <3>. QED BY <3>1, AppendProperties
    <2>2. next \in Result
      <3>1. Combined(r, "secure") \in Verdict
        BY <1>3, CombinedType DEF Verdict
      <3>. HIDE DEF alias, r
      <3>. QED BY <1>3, <2>1, <3>1 DEF Result
    <2>3. res' = [res EXCEPT ![w] = next]
      BY <1>3, <1>6 DEF Redirect
    <2>. HIDE DEF next, r
    <2>4. CallType'
      BY <1>0, <1>1, <1>6, <2>2, <2>3, EmptyZoneType, BoundsAssumption
      DEF Redirect, Local, TypeOK, CallType
    <2>5. ControlType'
      BY <1>6 DEF Redirect, Local, TypeOK, CallType, ControlType
    <2>. QED BY <2>4, <2>5, LocalType DEF TypeOK
  <1>. QED BY <1>4, <1>5, <1>6 DEF followAlias

\* resolveLeaf keeps the types.
LEMMA LeafType ==
  ASSUME TypeOK, NEW w \in Walker, Leaf(w)
  PROVE  TypeOK'
PROOF
  <1>1. /\ res[w] \in Result /\ zone[w] \in Store /\ cur[w] \in Name /\ qname[w] \in Name
        /\ qtype[w] \in RRType
    BY DEF TypeOK, CallType
  <1>2. CASE LeafAnswer(w)
    <2>. DEFINE check  == checkRRSet(zone[w], qname[w], qtype[w], "None")
                r      == addZoneSigs(res[w], cur[w], check.sigs)
                answer == FindRRSet(zone[w], qname[w], qtype[w])
                wild   == detectWildcard(zone[w], qname[w], qtype[w])
    <2>1. check.sigs \in SUBSET Outcome /\ check.code \in Code
      BY <1>1, CheckType
    <2>2. r \in Result
      BY <1>1, <2>1, StepType DEF addZoneSigs
    <2>3. answer \in SUBSET Record
      BY <1>1 DEF FindRRSet, Store
    <2>4. \A n \in wild : LastNLabels(qname[w], n) \in Name
      <3>1. wild \subseteq 0..Len(qname[w])
        BY <1>1, RecordAssumption DEF detectWildcard, FindRRSIGs, Store, Name
      <3>. QED BY <1>1, <3>1, PrefixIsName
    <2>5. uncheckable(res[w], check) \in Result
      BY <1>1, ErrorType DEF ErrorKind
    <2>6. /\ bogusOutcome(r, cur[w], check.code) \in Result
          /\ bogusOutcome(r, cur[w], "wildcard-proof-missing") \in Result
      BY <1>1, <2>1, <2>2, BogusType DEF Code
    <2>7. \A n \in wild : secureOutcome(r, answer, LastNLabels(qname[w], n)) \in Result
      BY <2>2, <2>3, <2>4, SecureType
    <2>8. secureOutcome(r, answer, None) \in Result
      BY <2>2, <2>3, SecureType
    <2>9. PICK t \in Result : Done(w, t)
      <3>. HIDE DEF check, r, answer, wild
      <3>. QED BY <1>2, <2>5, <2>6, <2>7, <2>8 DEF LeafAnswer, check, r, answer, wild
    <2>. QED BY <1>2, <2>9, DoneType, LocalType DEF LeafAnswer, TypeOK
  <1>3. CASE LeafDNAME(w)
    <2>1. PICK owner \in dnameOwners(w) :
            followAlias(w, "DNAME", owner, {synthesiseDNAMETarget(qname[w], owner, v) :
                                              v \in Vals(FindRRSet(zone[w], owner, "DNAME"))})
      BY <1>3 DEF LeafDNAME
    <2>2. owner \in ancestorsOf(qname[w])
      BY <2>1 DEF dnameOwners, properAncestors
    <2>3. Vals(FindRRSet(zone[w], owner, "DNAME")) \subseteq Name
      BY <1>1, RecordAssumption DEF Vals, FindRRSet, Store
    <2>4. {synthesiseDNAMETarget(qname[w], owner, v) :
             v \in Vals(FindRRSet(zone[w], owner, "DNAME"))} \in SUBSET Name
      BY <1>1, <2>2, <2>3, SynthesisedIsName
    <2>5. owner \in Name
      BY <1>1, <2>2, AncestorIsName
    <2>. QED BY <1>3, <2>1, <2>4, <2>5, FollowAliasType DEF LeafDNAME, Loaded
  <1>4. CASE LeafCNAME(w)
    <2>1. Vals(cnamesAt(w)) \in SUBSET Name
      BY <1>1, RecordAssumption DEF Vals, cnamesAt, FindRRSet, Store
    <2>. QED BY <1>1, <1>4, <2>1, FollowAliasType DEF LeafCNAME, Loaded
  <1>5. CASE LeafDenial(w)
    <2>1. PICK noData \in proveNoData(zone[w], qname[w], qtype[w]),
               nxDomain \in proveNXDomain(zone[w], qname[w]) :
            Done(w, applyOutcome(res[w], IF noData THEN "secure-nodata"
                                         ELSE IF nxDomain THEN "secure-nxdomain"
                                         ELSE "indeterminate"))
      BY <1>5 DEF LeafDenial
    <2>2. \A v \in {"secure-nodata", "secure-nxdomain", "indeterminate"} :
            applyOutcome(res[w], v) \in Result
      BY <1>1, OutcomeType DEF Verdict
    <2>3. PICK t \in Result : Done(w, t)
      BY <2>1, <2>2
    <2>. QED BY <1>5, <2>3, DoneType, LocalType DEF LeafDenial, TypeOK
  <1>. QED BY <1>2, <1>3, <1>4, <1>5 DEF Leaf

\* So do the context, the publications and the clock.
LEMMA EnvironmentType ==
  ASSUME TypeOK, (\E w \in Walker : Expire(w)) \/ Republish \/ Tick
  PROVE  TypeOK'
PROOF
  <1>1. ASSUME NEW w \in Walker, Expire(w) PROVE TypeOK'
    <2>1. SharedType'
      BY <1>1, BoundsAssumption DEF Expire, TypeOK, SharedType
    <2>2. CallType' /\ ControlType'
      BY <1>1 DEF Expire, TypeOK, CallType, ControlType
    <2>. QED BY <2>1, <2>2 DEF TypeOK
  <1>2. ASSUME Republish \/ Tick PROVE TypeOK'
    <2>1. SharedType'
      BY <1>2, BoundsAssumption DEF Republish, Tick, TypeOK, SharedType
    <2>2. CallType' /\ ControlType'
      BY <1>2 DEF Republish, Tick, calls, TypeOK, CallType, ControlType
    <2>. QED BY <2>1, <2>2 DEF TypeOK
  <1>. QED BY <1>1, <1>2

\* Every step keeps the types.
LEMMA NextType == TypeOK /\ [Next]_vars => TypeOK'
PROOF
  <1>. SUFFICES ASSUME TypeOK, [Next]_vars PROVE TypeOK'
    OBVIOUS
  <1>1. ASSUME NEW w \in Walker, Validate(w) PROVE TypeOK'
    BY <1>1, HopType, LoadType, CutType, LeafType DEF Validate
  <1>2. CASE UNCHANGED vars
    BY <1>2 DEF vars, TypeOK, SharedType, CallType, ControlType
  <1>. QED BY <1>1, <1>2, EnvironmentType DEF Next, Finished

(***************************************************************************)
(* Validate keeps its variables well typed, its loads in step with its     *)
(* phases, and its hops within MaxAliasHops, for any number of calls, any  *)
(* records and any answers.                                                *)
(***************************************************************************)
THEOREM TypeCorrect == Spec => []TypeOK
PROOF BY InitType, NextType, PTL DEF Spec

-----------------------------------------------------------------------------
\* What a verified rrset is.

\* A verified RRSIG was made, over this rrset, with a key the mode accepts.
LEMMA VerifiedMeans ==
  ASSUME NEW z \in Store, NEW name, NEW type, NEW mode,
         checkRRSet(z, name, type, mode).ok
  PROVE  \E s \in z.sigs :
           /\ s \in Signature /\ s.type = type
           /\ s.by \in Vals(keysForMode(z, FindDNSKeys(z, s.signer, s.tag), mode))
           /\ s.owner = digestOwner(name, s)
           /\ s.vals = Vals(FindRRSet(z, name, type))
PROOF
  <1>1. \E c \in CheckRRSet(z, name, type, mode) : c.result = "verified"
    BY DEF checkRRSet
  <1>2. PICK s \in FindRRSIGs(z, name, type) : CheckRRSIG(z, name, type, s, mode) = "verified"
    BY <1>1 DEF CheckRRSet
  <1>3. s \in z.sigs /\ s \in Signature /\ s.type = type
    BY <1>2 DEF FindRRSIGs, Store
  <1>4. /\ s.by \in Vals(keysForMode(z, FindDNSKeys(z, s.signer, s.tag), mode))
        /\ s.owner = digestOwner(name, s)
        /\ s.vals = Vals(FindRRSet(z, name, type))
    BY <1>2 DEF CheckRRSIG, signedOver, validityStatus
  <1>. QED BY <1>3, <1>4

\* The owner a signature is taken to cover.
LEMMA DigestOwnerMeans ==
  ASSUME NEW name \in Name, NEW s \in Signature
  PROVE  /\ digestOwner(name, s) \in Sources(name)
         /\ ~IsWildcard(digestOwner(name, s)) => digestOwner(name, s) = name
PROOF
  <1>1. s.labels \in Nat /\ Len(name) \in Nat
    BY RecordAssumption DEF Name
  <1>2. CASE s.labels < Len(name)
    <2>. DEFINE a == LastNLabels(name, s.labels)
    <2>1. s.labels \in 0..Len(name)
      BY <1>1, <1>2
    <2>2. a \in Name /\ Len(a) = s.labels
      BY <2>1, PrefixIsName
    <2>3. a \in properAncestors(name)
      BY <1>1, <1>2, <2>1, <2>2 DEF properAncestors, ancestorsOf
    <2>4. digestOwner(name, s) = wildcardAt(a)
      BY <1>2 DEF digestOwner
    <2>. HIDE DEF a
    <2>. QED BY <2>2, <2>3, <2>4, WildcardIsWildcard DEF Sources
  <1>3. CASE ~(s.labels < Len(name))
    BY <1>3 DEF digestOwner, Sources
  <1>. QED BY <1>2, <1>3

\* Under genuine keys, a verified rrset is one the zone signed.
LEMMA VerifiedIsSigned ==
  ASSUME NEW z \in Store, NEW name \in Name, NEW type, NEW apex, GenuineKeys(z, apex),
         checkRRSet(z, name, type, "None").ok
  PROVE  \E s \in Signature :
           /\ s.signer = apex /\ Genuine(apex, s.by) /\ s.type = type
           /\ s.owner \in Sources(name) /\ (~IsWildcard(s.owner) => s.owner = name)
           /\ s.vals = Vals(FindRRSet(z, name, type))
PROOF
  <1>1. PICK s \in z.sigs :
          /\ s \in Signature /\ s.type = type
          /\ s.by \in Vals(keysForMode(z, FindDNSKeys(z, s.signer, s.tag), "None"))
          /\ s.owner = digestOwner(name, s)
          /\ s.vals = Vals(FindRRSet(z, name, type))
    BY VerifiedMeans
  <1>2. s.signer = apex /\ Genuine(apex, s.by)
    BY <1>1 DEF Vals, keysForMode, FindDNSKeys, FindRRSet, GenuineKeys
  <1>3. s.owner \in Sources(name) /\ (~IsWildcard(s.owner) => s.owner = name)
    BY <1>1, DigestOwnerMeans
  <1>. QED BY <1>1, <1>2, <1>3

\* So it is a published one.
LEMMA VerifiedIsPublished ==
  ASSUME NEW z \in Store, NEW name \in Name, NEW type, NEW apex, GenuineKeys(z, apex),
         checkRRSet(z, name, type, "None").ok
  PROVE  IsPublished(name, type, FindRRSet(z, name, type))
PROOF
  <1>1. PICK s \in Signature :
          /\ s.signer = apex /\ Genuine(apex, s.by) /\ s.type = type
          /\ s.owner \in Sources(name)
          /\ s.vals = Vals(FindRRSet(z, name, type))
    BY VerifiedIsSigned
  <1>2. [name |-> s.owner, type |-> s.type, vals |-> s.vals] \in Published
    BY <1>1, HonestSigning DEF Genuine
  <1>. QED BY <1>1, <1>2 DEF IsPublished

\* In particular a verified DS rrset digests keys of the child.
LEMMA VerifiedDSIsGenuine ==
  ASSUME NEW z \in Store, NEW name \in Name, NEW apex, GenuineKeys(z, apex),
         checkRRSet(z, name, "DS", "None").ok
  PROVE  \A r \in FindRRSet(z, name, "DS") : Genuine(name, r.val)
PROOF
  <1>1. PICK s \in Signature :
          /\ s.signer = apex /\ Genuine(apex, s.by) /\ s.type = "DS"
          /\ ~IsWildcard(s.owner) => s.owner = name
          /\ s.vals = Vals(FindRRSet(z, name, "DS"))
    BY VerifiedIsSigned
  <1>. DEFINE p == [name |-> s.owner, type |-> s.type, vals |-> s.vals]
  <1>2. p \in Published
    BY <1>1, HonestSigning DEF Genuine
  <1>3. ~IsWildcard(s.owner) /\ \A k \in s.vals : Genuine(s.owner, k)
    BY <1>1, <1>2, HonestSigning DEF Genuine
  <1>. QED BY <1>1, <1>3 DEF Vals

\* A DNSKEY rrset that verifies under keys that genuine digests
\* authenticate holds only keys of the zone.
LEMMA AuthenticatedIsGenuine ==
  ASSUME NEW k \in Store, NEW name \in Name, NEW digests, KeysOnlyAt(k, name),
         k.trusted = {},
         \A d \in digests : Genuine(name, d),
         \A d : RR(name, "DS", d) \in k.parent => Genuine(name, d),
         checkRRSet(AddTrustedKeys(k, keysMatchingDS(k, name, digests)), name, "DNSKEY", "KSK").ok
  PROVE  GenuineKeys(AddTrustedKeys(k, keysMatchingDS(k, name, digests)), name)
PROOF
  <1>. DEFINE z == AddTrustedKeys(k, keysMatchingDS(k, name, digests))
  <1>1. z \in Store
    BY TrustedType
  <1>2. z.rrs = k.rrs /\ z.parent = k.parent /\ z.trusted = keysMatchingDS(k, name, digests)
    BY DEF AddTrustedKeys, Store
  <1>3. PICK s \in z.sigs :
          /\ s \in Signature /\ s.type = "DNSKEY"
          /\ s.by \in Vals(keysForMode(z, FindDNSKeys(z, s.signer, s.tag), "KSK"))
          /\ s.owner = digestOwner(name, s)
          /\ s.vals = Vals(FindRRSet(z, name, "DNSKEY"))
    <2>. HIDE DEF z
    <2>1. checkRRSet(z, name, "DNSKEY", "KSK").ok
      BY DEF z
    <2>. QED BY <1>1, <2>1, VerifiedMeans
  <1>. HIDE DEF z
  <1>4. PICK r \in FindDNSKeys(z, s.signer, s.tag) : verifyKSK(z, r) /\ s.by = r.val
    BY <1>3 DEF Vals, keysForMode
  <1>5. r \in k.rrs /\ r.type = "DNSKEY" /\ r.name = s.signer
    BY <1>2, <1>4 DEF FindDNSKeys, FindRRSet
  <1>6. s.signer = name
    BY <1>5 DEF KeysOnlyAt
  <1>7. Genuine(s.signer, s.by)
    <2>1. CASE r \in z.trusted
      BY <1>2, <1>4, <1>6, <2>1 DEF keysMatchingDS
    <2>2. CASE RR(r.name, "DS", r.val) \in z.parent
      BY <1>2, <1>4, <1>5, <1>6, <2>2
    <2>. QED BY <1>4, <2>1, <2>2 DEF verifyKSK
  <1>. DEFINE p == [name |-> s.owner, type |-> s.type, vals |-> s.vals]
  <1>8. p \in Published
    BY <1>3, <1>7, HonestSigning DEF Genuine
  <1>9. ~IsWildcard(s.owner) /\ \A d \in s.vals : Genuine(s.owner, d)
    BY <1>3, <1>8, HonestSigning DEF Genuine
  <1>10. s.owner = name
    BY <1>3, <1>9, DigestOwnerMeans
  <1>11. GenuineKeys(z, name)
    BY <1>2, <1>3, <1>9, <1>10 DEF GenuineKeys, KeysOnlyAt, FindRRSet, Vals
  <1>. QED BY <1>11 DEF z

-----------------------------------------------------------------------------
\* A step of one call leaves the others alone.

Untouched(v) ==
  /\ phase'[v] = phase[v] /\ io'[v] = io[v] /\ qname'[v] = qname[v] /\ qtype'[v] = qtype[v]
  /\ hop'[v] = hop[v] /\ seen'[v] = seen[v] /\ depth'[v] = depth[v] /\ cur'[v] = cur[v]
  /\ zone'[v] = zone[v] /\ kid'[v] = kid[v] /\ dsSigs'[v] = dsSigs[v] /\ found'[v] = found[v]
  /\ res'[v] = res[v]

\* A call no step of which was taken keeps its trust.
LEMMA UntouchedTrust ==
  ASSUME NEW v \in Walker, Untouched(v), Trust(v)
  PROVE  Trust(v)'
PROOF BY DEF Untouched, Trust, KeysAuthentic, EntryAuthentic, VerdictAtEnd, SecureAuthentic, childName

\* A call that returns touches no other.
LEMMA DoneUntouched ==
  ASSUME TypeOK, NEW w, NEW v \in Walker, v # w, NEW r, Done(w, r), qtype' = qtype
  PROVE  Untouched(v)
PROOF BY DEF TypeOK, CallType, Done, Untouched

\* A step of one call touches no other call.
LEMMA ValidateUntouched ==
  ASSUME TypeOK, NEW w \in Walker, NEW v \in Walker, v # w, Validate(w)
  PROVE  Untouched(v)
PROOF
  <1>1. CASE Hop(w)
    <2>1. CASE HopStart(w)
      BY <2>1 DEF HopStart, Enter, Local, TypeOK, CallType, Untouched
    <2>. QED BY <1>1, <2>1, DoneUntouched DEF Hop, HopLimit, HopLoop, ContextEnded, Local
  <1>2. ASSUME NEW rrs, NEW sigs, applyRecords(w, rrs, sigs) PROVE Untouched(v)
    BY <1>2 DEF applyRecords, TypeOK, CallType, Untouched
  <1>3. ASSUME NEW resp, QueryReturn(w, resp) PROVE Untouched(v)
    <2>1. CASE Usable(resp)
      BY <1>3, <2>1 DEF QueryReturn, TypeOK, CallType, Untouched
    <2>. QED BY <1>3, <2>1, DoneUntouched DEF QueryReturn
  <1>4. CASE Load(w)
    <2>1. CASE CacheMiss(w)
      BY <2>1 DEF CacheMiss, Local, TypeOK, CallType, Untouched
    <2>2. CASE CacheHit(w) \/ KeepAnswer(w)
      BY <2>2, <1>2 DEF CacheHit, KeepAnswer
    <2>3. CASE QueryReply(w) \/ QueryDamaged(w)
      BY <2>3, <1>3 DEF QueryReply, QueryDamaged
    <2>4. CASE QueryError(w) \/ QueryCancelled(w)
      BY <2>4, DoneUntouched DEF QueryError, QueryCancelled, Local
    <2>. QED BY <1>4, <2>1, <2>2, <2>3, <2>4 DEF Load
  <1>5. ASSUME NEW name, NEW digests, NEW before, NEW noMatch, Local,
               authenticate(w, name, digests, before, noMatch)
        PROVE  Untouched(v)
    <2>1. ASSUME NEW z, NEW r, Descend(w, z, name, r) PROVE Untouched(v)
      BY <1>5, <2>1 DEF Descend, Local, TypeOK, CallType, Untouched
    <2>. QED BY <1>5, <2>1, DoneUntouched DEF authenticate, Local
  <1>6. CASE Cut(w)
    <2>1. CASE ValidateRoot(w) \/ AuthenticateKeys(w)
      BY <2>1, <1>5 DEF ValidateRoot, AuthenticateKeys
    <2>2. CASE NextLabel(w)
      BY <2>2 DEF NextLabel, Enter, Local, TypeOK, CallType, Untouched
    <2>3. CASE NoDS(w)
      <3>1. CASE Done(w, insecureOutcome(res[w], childName(w)))
        BY <2>3, <3>1, DoneUntouched DEF NoDS, notACut, Local
      <3>2. CASE ~Done(w, insecureOutcome(res[w], childName(w)))
        BY <2>3, <3>2 DEF NoDS, notACut, Local, TypeOK, CallType, Untouched
      <3>. QED BY <3>1, <3>2
    <2>4. CASE CheckDS(w)
      <3>1. ASSUME NEW r, Done(w, r) PROVE Untouched(v)
        BY <2>4, <3>1, DoneUntouched DEF CheckDS, childZone, Local
      <3>2. CASE ~\E r : Done(w, r)
        BY <2>4, <3>2 DEF CheckDS, childZone, Enter, Local, TypeOK, CallType, Untouched
      <3>. QED BY <3>1, <3>2
    <2>. QED BY <1>6, <2>1, <2>2, <2>3, <2>4 DEF Cut
  <1>7. ASSUME NEW type, NEW owner, NEW targets, Local, followAlias(w, type, owner, targets)
        PROVE  Untouched(v)
    <2>1. ASSUME NEW r, NEW target, Redirect(w, r, type, owner, target) PROVE Untouched(v)
      BY <1>7, <2>1 DEF Redirect, Local, TypeOK, CallType, Untouched
    <2>. QED BY <1>7, <2>1, DoneUntouched DEF followAlias, Local
  <1>8. CASE Leaf(w)
    <2>1. CASE LeafAnswer(w)
      BY <2>1, DoneUntouched DEF LeafAnswer, Local
    <2>2. CASE LeafDNAME(w) \/ LeafCNAME(w)
      BY <2>2, <1>7 DEF LeafDNAME, LeafCNAME
    <2>3. CASE LeafDenial(w)
      BY <2>3, DoneUntouched DEF LeafDenial, Local
    <2>. QED BY <1>8, <2>1, <2>2, <2>3 DEF Leaf
  <1>. QED BY <1>1, <1>4, <1>6, <1>8 DEF Validate

-----------------------------------------------------------------------------
\* A step of a call keeps its own trust.

\* A verdict other than Secure is not made Secure by the hops before it.
LEMMA NotSecure ==
  ASSUME NEW r \in Result, NEW verdict \in Verdict \ {"secure"}
  PROVE  applyOutcome(r, verdict).verdict # "secure"
PROOF BY DEF applyOutcome, Combined, combineVerdicts, Result, Verdict

\* The outcomes other than secureOutcome are not Secure.
LEMMA FailuresNotSecure ==
  ASSUME NEW r \in Result, NEW at \in Name, NEW code \in Code, NEW err, NEW check
  PROVE  /\ bogusOutcome(r, at, code).verdict # "secure"
         /\ setBogus(r, at, code).verdict # "secure"
         /\ insecureOutcome(r, at).verdict # "secure"
         /\ failed(r, err).verdict = r.verdict
         /\ uncheckable(r, check).verdict = r.verdict
PROOF
  <1>1. applyOutcome(r, "bogus") \in Result /\ applyOutcome(r, "insecure") \in Result
    BY OutcomeType DEF Verdict
  <1>2. /\ applyOutcome(r, "bogus").verdict # "secure"
        /\ applyOutcome(r, "insecure").verdict # "secure"
    BY NotSecure DEF Verdict
  <1>3. bogusOutcome(r, at, code).verdict # "secure"
    BY <1>1, <1>2 DEF bogusOutcome, Result
  <1>4. insecureOutcome(r, at).verdict # "secure"
    BY <1>1, <1>2 DEF insecureOutcome, Result
  <1>5. setBogus(r, at, code).verdict # "secure"
    BY DEF setBogus, Result
  <1>6. failed(r, err).verdict = r.verdict /\ uncheckable(r, check).verdict = r.verdict
    BY DEF failed, uncheckable, Result
  <1>. QED BY <1>3, <1>4, <1>5, <1>6

\* A call that returns without a Secure verdict keeps its trust.
LEMMA DoneTrust ==
  ASSUME TypeOK, NEW w \in Walker, NEW r, Done(w, r), qtype' = qtype,
         r.verdict = "secure" /\ qtype[w] # "DNSKEY" => IsPublished(qname[w], qtype[w], r.answer)
  PROVE  Trust(w)'
PROOF BY DEF TypeOK, CallType, Done, Trust, KeysAuthentic, EntryAuthentic, VerdictAtEnd,
             SecureAuthentic

\* The top of the loop over alias hops keeps trust.
LEMMA HopTrust ==
  ASSUME TypeOK, NEW w \in Walker, Trust(w), Hop(w)
  PROVE  Trust(w)'
PROOF
  <1>1. res[w] \in Result /\ qname[w] \in Name
    BY DEF TypeOK, CallType
  <1>2. CASE HopLimit(w)
    <2>1. setBogus(res[w], qname[w], "alias-limit").verdict # "secure"
      BY <1>1, FailuresNotSecure DEF Code
    <2>. QED BY <1>2, <2>1, DoneTrust DEF HopLimit, Local
  <1>3. CASE HopLoop(w)
    <2>1. setBogus(res[w], qname[w], "alias-loop").verdict # "secure"
      BY <1>1, FailuresNotSecure DEF Code
    <2>. QED BY <1>3, <2>1, DoneTrust DEF HopLoop, Local
  <1>4. CASE HopStart(w)
    BY <1>4 DEF HopStart, HopGo, Enter, Local, EmptyZone, KeysOnlyAt, TypeOK, CallType,
                Trust, KeysAuthentic, EntryAuthentic, VerdictAtEnd, SecureAuthentic
  <1>5. CASE ContextEnded(w)
    <2>1. res[w].verdict = "indeterminate"
      BY <1>5 DEF ContextEnded, HopGo, Trust, VerdictAtEnd
    <2>2. failed(res[w], "ErrChainTimeout").verdict # "secure"
      BY <1>1, <2>1 DEF failed, Result
    <2>. QED BY <1>5, <2>2, DoneTrust DEF ContextEnded, Local
  <1>. QED BY <1>2, <1>3, <1>4, <1>5 DEF Hop

\* A deposit brings keys only with the answer to a DNSKEY query.
LEMMA DepositKeys ==
  ASSUME NEW z \in Store, NEW rrs, NEW sigs, NEW asked
  PROVE  LET d == deposit(z, rrs, sigs, asked)
         IN  /\ d.trusted = z.trusted /\ d.parent = z.parent
             /\ \A r \in d.rrs : r.type = "DNSKEY" =>
                  r \in z.rrs \/ (asked.type = "DNSKEY" /\ r.name = asked.name)
PROOF BY DEF deposit, accepted, Store

\* Whatever an answer holds, depositing it keeps trust.
LEMMA ApplyTrust ==
  ASSUME TypeOK, NEW w \in Walker, Trust(w), io[w] \in {"lookup", "answered"},
         NEW rrs, NEW sigs, applyRecords(w, rrs, sigs)
  PROVE  Trust(w)'
PROOF
  <1>1. /\ zone[w] \in Store /\ kid[w] \in Store /\ res[w].verdict = "indeterminate"
        /\ phase[w] \in {"root", "ds", "keys", "leaf"}
    BY DEF TypeOK, CallType, ControlType, Trust, VerdictAtEnd
  <1>2. /\ phase'[w] = phase[w] /\ io'[w] = "loaded" /\ qname'[w] = qname[w]
        /\ qtype'[w] = qtype[w] /\ depth'[w] = depth[w] /\ cur'[w] = cur[w] /\ res'[w] = res[w]
        /\ childName(w)' = childName(w)
    BY DEF applyRecords, TypeOK, CallType, childName
  <1>3. (VerdictAtEnd(w) /\ SecureAuthentic(w))'
    BY <1>1, <1>2 DEF VerdictAtEnd, SecureAuthentic
  <1>4. CASE phase[w] \in {"root", "keys"}
    <2>. DEFINE d == deposit(kid[w], rrs, sigs, Asked(w))
    <2>1. zone'[w] = zone[w] /\ kid'[w] = d
      BY <1>4 DEF applyRecords, TypeOK, CallType
    <2>2. /\ d.trusted = kid[w].trusted /\ d.parent = kid[w].parent
          /\ \A r \in d.rrs : r.type = "DNSKEY" => r \in kid[w].rrs \/ r.name = Asked(w).name
      BY <1>1, DepositKeys
    <2>. HIDE DEF d
    <2>3. Asked(w).name = IF phase[w] = "root" THEN Root ELSE childName(w)
      BY <1>4 DEF Asked
    <2>4. KeysOnlyAt(d, Asked(w).name)
      BY <1>4, <2>2, <2>3 DEF Trust, EntryAuthentic, KeysOnlyAt
    <2>5. EntryAuthentic(w)'
      BY <1>2, <1>4, <2>1, <2>2, <2>3, <2>4 DEF Trust, EntryAuthentic
    <2>6. KeysAuthentic(w)'
      BY <1>2, <1>4, <2>1 DEF Trust, KeysAuthentic
    <2>. QED BY <1>3, <2>5, <2>6 DEF Trust
  <1>5. CASE phase[w] \in {"ds", "leaf"}
    <2>. DEFINE d == deposit(zone[w], rrs, sigs, Asked(w))
    <2>1. zone'[w] = d /\ kid'[w] = kid[w]
      BY <1>5 DEF applyRecords, TypeOK, CallType
    <2>2. GenuineKeys(zone[w], cur[w])
      BY <1>5 DEF Trust, KeysAuthentic
    <2>3. Asked(w).type # "DNSKEY" => GenuineKeys(d, cur[w])
      BY <1>1, <2>2, DepositKeys DEF GenuineKeys
    <2>4. Asked(w).type = IF phase[w] = "ds" THEN "DS" ELSE qtype[w]
      BY <1>5 DEF Asked
    <2>. HIDE DEF d
    <2>5. phase[w] = "leaf" /\ ~found'[w] => GenuineKeys(d, cur[w])
      <3>1. found'[w] = \E r \in accepted(rrs, Asked(w)) :
                          r.type = Asked(w).type /\ r.name = Asked(w).name
        BY DEF applyRecords, TypeOK, CallType
      <3>2. d.rrs = zone[w].rrs \cup accepted(rrs, Asked(w))
        BY <1>1 DEF d, deposit, Store
      <3>. QED BY <2>2, <2>3, <3>1, <3>2 DEF GenuineKeys, accepted
    <2>6. KeysAuthentic(w)'
      BY <1>2, <1>5, <2>1, <2>3, <2>4, <2>5 DEF KeysAuthentic
    <2>7. EntryAuthentic(w)'
      BY <1>2, <1>5 DEF EntryAuthentic
    <2>. QED BY <1>3, <2>6, <2>7 DEF Trust
  <1>. QED BY <1>1, <1>4, <1>5

\* loadRecords keeps trust, from cache or resolver, damaged or not.
LEMMA LoadTrust ==
  ASSUME TypeOK, NEW w \in Walker, Trust(w), Load(w)
  PROVE  Trust(w)'
PROOF
  <1>1. /\ io[w] \in {"lookup", "query", "answered"} /\ res[w] \in Result
        /\ res[w].verdict = "indeterminate"
    BY DEF Load, CacheHit, CacheMiss, QueryReply, QueryDamaged, QueryError, QueryCancelled,
           KeepAnswer, TypeOK, CallType, ControlType, Trust, VerdictAtEnd
  <1>2. \A e : failed(res[w], e).verdict # "secure"
    BY <1>1 DEF failed, Result
  <1>3. ASSUME NEW resp, QueryReturn(w, resp), io[w] = "query" PROVE Trust(w)'
    <2>1. CASE Usable(resp)
      BY <1>3, <2>1 DEF QueryReturn, TypeOK, CallType, childName,
                        Trust, KeysAuthentic, EntryAuthentic, VerdictAtEnd, SecureAuthentic
    <2>. QED BY <1>1, <1>2, <1>3, <2>1, DoneTrust DEF QueryReturn
  <1>4. CASE CacheHit(w) \/ KeepAnswer(w)
    BY <1>1, <1>4, ApplyTrust DEF CacheHit, KeepAnswer
  <1>5. CASE CacheMiss(w)
    BY <1>5 DEF CacheMiss, Local, TypeOK, CallType, childName,
                Trust, KeysAuthentic, EntryAuthentic, VerdictAtEnd, SecureAuthentic
  <1>6. CASE QueryReply(w) \/ QueryDamaged(w)
    BY <1>3, <1>6 DEF QueryReply, QueryDamaged
  <1>7. CASE QueryError(w) \/ QueryCancelled(w)
    BY <1>2, <1>7, DoneTrust DEF QueryError, QueryCancelled, Local
  <1>. QED BY <1>4, <1>5, <1>6, <1>7 DEF Load

\* A zone is entered only with keys of its own.
LEMMA AuthenticateTrust ==
  ASSUME TypeOK, NEW w \in Walker, Trust(w), Local, phase[w] \in {"root", "keys"},
         NEW name \in Name, NEW digests, NEW before \in SUBSET Outcome, NEW noMatch \in Code,
         KeysOnlyAt(kid[w], name), kid[w].trusted = {},
         \A d \in digests : Genuine(name, d),
         \A d : RR(name, "DS", d) \in kid[w].parent => Genuine(name, d),
         authenticate(w, name, digests, before, noMatch)
  PROVE  Trust(w)'
PROOF
  <1>. DEFINE ksks  == keysMatchingDS(kid[w], name, digests)
              z     == AddTrustedKeys(kid[w], ksks)
              check == checkRRSet(z, name, "DNSKEY", "KSK")
              sigs  == before \cup check.sigs
  <1>1. kid[w] \in Store /\ res[w] \in Result /\ res[w].verdict = "indeterminate" /\ qtype' = qtype
    BY DEF TypeOK, CallType, Trust, VerdictAtEnd, Local
  <1>2. z \in Store
    BY <1>1, TrustedType
  <1>3. check.sigs \subseteq Outcome /\ check.code \in Code
    <2>. HIDE DEF z
    <2>. QED BY <1>2, CheckType, BoundsAssumption
  <1>4. CASE Done(w, bogusOutcome(addStep(res[w], name, FALSE, before), name, noMatch))
    <2>1. addStep(res[w], name, FALSE, before) \in Result
      BY <1>1, StepType
    <2>2. bogusOutcome(addStep(res[w], name, FALSE, before), name, noMatch).verdict # "secure"
      BY <2>1, FailuresNotSecure
    <2>. QED BY <1>1, <1>4, <2>2, DoneTrust
  <1>5. CASE Done(w, uncheckable(res[w], check))
    <2>1. uncheckable(res[w], check).verdict # "secure"
      BY <1>1 DEF uncheckable, Result
    <2>. QED BY <1>1, <1>5, <2>1, DoneTrust
  <1>6. CASE Done(w, bogusOutcome(addStep(res[w], name, FALSE, sigs), name, check.code))
    <2>1. addStep(res[w], name, FALSE, sigs) \in Result
      BY <1>1, <1>3, StepType
    <2>2. bogusOutcome(addStep(res[w], name, FALSE, sigs), name, check.code).verdict # "secure"
      BY <1>3, <2>1, FailuresNotSecure
    <2>. QED BY <1>1, <1>6, <2>2, DoneTrust
  <1>7. CASE check.ok /\ Descend(w, z, name, addStep(res[w], name, TRUE, sigs))
    <2>1. GenuineKeys(z, name)
      BY <1>1, <1>7, AuthenticatedIsGenuine
    <2>2. addStep(res[w], name, TRUE, sigs).verdict = "indeterminate"
      <3>. HIDE DEF sigs
      <3>1. addStep(res[w], name, TRUE, sigs).verdict = res[w].verdict
        BY <1>1 DEF addStep, Result
      <3>. QED BY <1>1, <3>1
    <2>3. zone'[w] = z /\ cur'[w] = name /\ phase'[w] = "descend" /\ res'[w] = addStep(res[w], name, TRUE, sigs)
      BY <1>7 DEF Descend, TypeOK, CallType
    <2>. HIDE DEF z, sigs
    <2>. QED BY <2>1, <2>2, <2>3
             DEF Trust, KeysAuthentic, EntryAuthentic, VerdictAtEnd, SecureAuthentic
  <1>. QED BY <1>4, <1>5, <1>6, <1>7 DEF authenticate

\* validateRoot and descendInto keep trust.
LEMMA CutTrust ==
  ASSUME TypeOK, NEW w \in Walker, Trust(w), Cut(w)
  PROVE  Trust(w)'
PROOF
  <1>1. CASE ValidateRoot(w)
    <2>1. kid[w].trusted = {} /\ kid[w].parent = {} /\ KeysOnlyAt(kid[w], Root)
      BY <1>1 DEF ValidateRoot, Loaded, Trust, EntryAuthentic
    <2>2. \A d \in Anchors : Genuine(Root, d)
      BY HonestSigning DEF Genuine
    <2>. QED BY <1>1, <2>1, <2>2, AuthenticateTrust, RootIsName DEF ValidateRoot, Loaded, Code
  <1>2. CASE NextLabel(w)
    <2>1. GenuineKeys(zone[w], cur[w]) /\ res[w].verdict = "indeterminate"
      BY <1>2 DEF NextLabel, Trust, KeysAuthentic, VerdictAtEnd
    <2>2. /\ zone'[w] = zone[w] /\ cur'[w] = cur[w] /\ res'[w] = res[w]
          /\ phase'[w] \in {"ds", "leaf"} /\ io'[w] = "lookup"
      BY <1>2 DEF NextLabel, Enter, TypeOK, CallType
    <2>. QED BY <2>1, <2>2
             DEF Trust, KeysAuthentic, EntryAuthentic, VerdictAtEnd, SecureAuthentic
  <1>3. CASE NoDS(w)
    <2>1. /\ childName(w) \in Name /\ res[w] \in Result /\ GenuineKeys(zone[w], cur[w])
          /\ res[w].verdict = "indeterminate" /\ qtype' = qtype
      BY <1>3, ChildNameType
      DEF NoDS, notACut, Loaded, Local, TypeOK, CallType, Trust, KeysAuthentic, VerdictAtEnd
    <2>2. CASE Done(w, insecureOutcome(res[w], childName(w)))
      <3>1. applyOutcome(res[w], "insecure") \in Result
        BY <2>1, OutcomeType DEF Verdict
      <3>2. applyOutcome(res[w], "insecure").verdict # "secure"
        BY <2>1, NotSecure DEF Verdict
      <3>3. insecureOutcome(res[w], childName(w)).verdict # "secure"
        BY <3>1, <3>2 DEF insecureOutcome, Result
      <3>. QED BY <2>1, <2>2, <3>3, DoneTrust
    <2>3. CASE ~Done(w, insecureOutcome(res[w], childName(w)))
      <3>1. zone'[w] = zone[w] /\ cur'[w] = cur[w] /\ res'[w] = res[w] /\ phase'[w] = "descend"
        BY <1>3, <2>3 DEF NoDS, notACut, Loaded, TypeOK, CallType
      <3>. QED BY <2>1, <3>1
               DEF Trust, KeysAuthentic, EntryAuthentic, VerdictAtEnd, SecureAuthentic
    <2>. QED BY <2>2, <2>3
  <1>4. CASE CheckDS(w)
    <2>. DEFINE child == childName(w)
                check == checkRRSet(zone[w], child, "DS", "None")
    <2>1. /\ child \in Name /\ res[w] \in Result /\ zone[w] \in Store /\ GenuineKeys(zone[w], cur[w])
          /\ res[w].verdict = "indeterminate" /\ qtype' = qtype
      BY <1>4, ChildNameType
      DEF CheckDS, childZone, Loaded, Local, TypeOK, CallType, Trust, KeysAuthentic, VerdictAtEnd
    <2>2. check.sigs \in SUBSET Outcome /\ check.code \in Code
      BY <2>1, CheckType, BoundsAssumption
    <2>3. CASE Done(w, uncheckable(res[w], check))
      <3>1. uncheckable(res[w], check).verdict # "secure"
        BY <2>1 DEF uncheckable, Result
      <3>. QED BY <2>1, <2>3, <3>1, DoneTrust
    <2>4. CASE Done(w, bogusOutcome(addStep(res[w], child, FALSE, check.sigs), child, check.code))
      <3>1. addStep(res[w], child, FALSE, check.sigs) \in Result
        BY <2>1, <2>2, StepType
      <3>2. bogusOutcome(addStep(res[w], child, FALSE, check.sigs), child, check.code).verdict
              # "secure"
        BY <2>1, <2>2, <3>1, FailuresNotSecure
      <3>. QED BY <2>1, <2>4, <3>2, DoneTrust
    <2>5. CASE /\ check.ok
               /\ kid' = [kid EXCEPT ![w] = [EmptyZone EXCEPT !.parent = zone[w].rrs]]
               /\ Enter(w, "keys")
               /\ UNCHANGED <<qname, hop, seen, depth, cur, zone, found, res>>
      <3>1. \A r \in FindRRSet(zone[w], child, "DS") : Genuine(child, r.val)
        BY <2>1, <2>5, VerifiedDSIsGenuine
      <3>2. /\ kid'[w].trusted = {} /\ kid'[w].rrs = {} /\ kid'[w].parent = zone[w].rrs
            /\ phase'[w] = "keys" /\ zone'[w] = zone[w] /\ cur'[w] = cur[w] /\ res'[w] = res[w]
            /\ childName(w)' = child
        BY <2>5 DEF EmptyZone, Enter, TypeOK, CallType, childName
      <3>3. EntryAuthentic(w)'
        BY <3>1, <3>2 DEF EntryAuthentic, KeysOnlyAt
      <3>. QED BY <2>1, <3>2, <3>3 DEF Trust, KeysAuthentic, VerdictAtEnd, SecureAuthentic
    <2>. QED BY <1>4, <2>3, <2>4, <2>5 DEF CheckDS, childZone
  <1>5. CASE AuthenticateKeys(w)
    <2>. DEFINE child == childName(w)
                digests == Vals(FindRRSet(zone[w], child, "DS"))
    <2>1. child \in Name /\ dsSigs[w] \in SUBSET Outcome
      BY <1>5, ChildNameType DEF AuthenticateKeys, Loaded, TypeOK, CallType
    <2>2. /\ kid[w].trusted = {} /\ kid[w].parent = zone[w].rrs /\ KeysOnlyAt(kid[w], child)
          /\ \A r \in FindRRSet(zone[w], child, "DS") : Genuine(child, r.val)
      BY <1>5 DEF AuthenticateKeys, Loaded, Trust, EntryAuthentic
    <2>3. \A d \in digests : Genuine(child, d)
      BY <2>2 DEF Vals
    <2>4. \A d : RR(child, "DS", d) \in kid[w].parent => Genuine(child, d)
      <3>. SUFFICES ASSUME NEW d, RR(child, "DS", d) \in zone[w].rrs PROVE Genuine(child, d)
        BY <2>2
      <3>1. RR(child, "DS", d) \in FindRRSet(zone[w], child, "DS") /\ RR(child, "DS", d).val = d
        BY DEF RR, FindRRSet
      <3>. QED BY <2>2, <3>1
    <2>. QED BY <1>5, <2>1, <2>2, <2>3, <2>4, AuthenticateTrust
             DEF AuthenticateKeys, Loaded, Code
  <1>. QED BY <1>1, <1>2, <1>3, <1>4, <1>5 DEF Cut

\* Following an alias keeps trust.
LEMMA FollowAliasTrust ==
  ASSUME TypeOK, NEW w \in Walker, Trust(w), phase[w] = "leaf", Local,
         NEW type \in {"CNAME", "DNAME"}, NEW owner \in Name, NEW targets,
         followAlias(w, type, owner, targets)
  PROVE  Trust(w)'
PROOF
  <1>. DEFINE check == checkRRSet(zone[w], owner, type, "None")
              r     == addZoneSigs(res[w], cur[w], check.sigs)
  <1>1. /\ res[w] \in Result /\ zone[w] \in Store /\ cur[w] \in Name /\ type \in RRType
        /\ res[w].verdict = "indeterminate" /\ qtype' = qtype
    BY BoundsAssumption DEF TypeOK, CallType, Trust, VerdictAtEnd, Local
  <1>2. check.sigs \in SUBSET Outcome /\ check.code \in Code
    BY <1>1, CheckType
  <1>3. r \in Result /\ r.verdict = "indeterminate"
    <2>. HIDE DEF check
    <2>1. r \in Result
      BY <1>1, <1>2, StepType DEF addZoneSigs
    <2>2. r.verdict = res[w].verdict
      BY <1>1 DEF addZoneSigs, addStep, Result
    <2>. QED BY <1>1, <2>1, <2>2
  <1>4. CASE Done(w, uncheckable(res[w], check))
    <2>1. uncheckable(res[w], check).verdict # "secure"
      BY <1>1 DEF uncheckable, Result
    <2>. QED BY <1>1, <1>4, <2>1, DoneTrust
  <1>5. CASE Done(w, bogusOutcome(r, cur[w], check.code))
    <2>1. bogusOutcome(r, cur[w], check.code).verdict # "secure"
      BY <1>1, <1>2, <1>3, FailuresNotSecure
    <2>. QED BY <1>1, <1>5, <2>1, DoneTrust
  <1>6. ASSUME NEW target \in targets, Redirect(w, r, type, owner, target)
        PROVE  Trust(w)'
    <2>. HIDE DEF r
    <2>1. phase'[w] = "hop" /\ res'[w].verdict = "indeterminate"
      BY <1>3, <1>6 DEF Redirect, Result, TypeOK, CallType
    <2>. QED BY <2>1 DEF Trust, KeysAuthentic, EntryAuthentic, VerdictAtEnd, SecureAuthentic
  <1>. QED BY <1>4, <1>5, <1>6 DEF followAlias

\* resolveLeaf keeps trust: Secure only with a published rrset.
LEMMA LeafTrust ==
  ASSUME TypeOK, NEW w \in Walker, Trust(w), Leaf(w)
  PROVE  Trust(w)'
PROOF
  <1>1. /\ res[w] \in Result /\ zone[w] \in Store /\ cur[w] \in Name /\ qname[w] \in Name
        /\ qtype[w] \in RRType
    BY DEF TypeOK, CallType
  <1>2. phase[w] = "leaf" /\ res[w].verdict = "indeterminate" /\ qtype' = qtype
    BY DEF Leaf, LeafAnswer, LeafDNAME, LeafCNAME, LeafDenial, Loaded, Local, Trust, VerdictAtEnd
  <1>3. CASE LeafAnswer(w)
    <2>. DEFINE check  == checkRRSet(zone[w], qname[w], qtype[w], "None")
                r      == addZoneSigs(res[w], cur[w], check.sigs)
                answer == FindRRSet(zone[w], qname[w], qtype[w])
    <2>1. check.sigs \in SUBSET Outcome /\ check.code \in Code
      BY <1>1, CheckType
    <2>2. r \in Result
      BY <1>1, <2>1, StepType DEF addZoneSigs
    <2>3. CASE Done(w, uncheckable(res[w], check))
      <3>1. uncheckable(res[w], check).verdict # "secure"
        BY <1>1, <1>2 DEF uncheckable, Result
      <3>. QED BY <1>2, <2>3, <3>1, DoneTrust
    <2>4. ASSUME NEW code \in Code, Done(w, bogusOutcome(r, cur[w], code)) PROVE Trust(w)'
      <3>1. bogusOutcome(r, cur[w], code).verdict # "secure"
        BY <1>1, <2>2, FailuresNotSecure
      <3>. QED BY <1>2, <2>4, <3>1, DoneTrust
    <2>5. ASSUME NEW wildcard, check.ok, Done(w, secureOutcome(r, answer, wildcard))
          PROVE  Trust(w)'
      <3>. DEFINE s == secureOutcome(r, answer, wildcard)
      <3>1. s.verdict = "secure" => s.answer = answer
        <4>1. applyOutcome(r, "secure") \in Result
          BY <2>2, OutcomeType DEF Verdict
        <4>. QED BY <4>1 DEF secureOutcome, Result
      <3>2. qtype[w] # "DNSKEY" => IsPublished(qname[w], qtype[w], answer)
        <4>1. qtype[w] # "DNSKEY" => GenuineKeys(zone[w], cur[w])
          BY <1>2 DEF Trust, KeysAuthentic
        <4>. QED BY <1>1, <2>5, <4>1, VerifiedIsPublished
      <3>3. Done(w, s)
        BY <2>5
      <3>. HIDE DEF s, answer
      <3>. QED BY <1>2, <3>1, <3>2, <3>3, DoneTrust
    <2>6. "wildcard-proof-missing" \in Code
      BY DEF Code
    <2>. HIDE DEF r, answer, check
    <2>. QED BY <1>3, <2>1, <2>3, <2>4, <2>5, <2>6 DEF LeafAnswer, r, answer, check
  <1>4. CASE LeafDNAME(w)
    <2>1. PICK owner \in dnameOwners(w) :
            followAlias(w, "DNAME", owner, {synthesiseDNAMETarget(qname[w], owner, v) :
                                              v \in Vals(FindRRSet(zone[w], owner, "DNAME"))})
      BY <1>4 DEF LeafDNAME
    <2>2. owner \in Name
      BY <1>1, <2>1, AncestorIsName DEF dnameOwners, properAncestors
    <2>. QED BY <1>2, <1>4, <2>1, <2>2, FollowAliasTrust DEF LeafDNAME
  <1>5. CASE LeafCNAME(w)
    BY <1>1, <1>2, <1>5, FollowAliasTrust DEF LeafCNAME
  <1>6. CASE LeafDenial(w)
    <2>1. \A v \in {"secure-nodata", "secure-nxdomain", "indeterminate"} :
            applyOutcome(res[w], v).verdict # "secure"
      BY <1>1, NotSecure DEF Verdict
    <2>2. PICK v \in {"secure-nodata", "secure-nxdomain", "indeterminate"} :
            Done(w, applyOutcome(res[w], v))
      BY <1>6 DEF LeafDenial
    <2>. QED BY <1>2, <2>1, <2>2, DoneTrust
  <1>. QED BY <1>3, <1>4, <1>5, <1>6 DEF Leaf

-----------------------------------------------------------------------------
\* Trust holds before the first step.
LEMMA InitTrust == Init => TrustInvariant
PROOF BY DEF Init, NewResult, TrustInvariant, Trust, KeysAuthentic, EntryAuthentic,
             VerdictAtEnd, SecureAuthentic

\* Every step keeps trust.
LEMMA NextTrust == TypeOK /\ TrustInvariant /\ [Next]_vars => TrustInvariant'
PROOF
  <1>. SUFFICES ASSUME TypeOK, TrustInvariant, [Next]_vars, NEW v \in Walker PROVE Trust(v)'
    BY DEF TrustInvariant
  <1>1. Trust(v)
    BY DEF TrustInvariant
  <1>2. ASSUME NEW w \in Walker, Validate(w) PROVE Trust(v)'
    <2>1. CASE v = w
      BY <1>1, <1>2, <2>1, HopTrust, LoadTrust, CutTrust, LeafTrust DEF Validate
    <2>2. CASE v # w
      BY <1>1, <1>2, <2>2, ValidateUntouched, UntouchedTrust
    <2>. QED BY <2>1, <2>2
  <1>3. ASSUME UNCHANGED <<phase, io, qname, qtype, hop, seen, depth, cur, zone, kid, dsSigs,
                           found, res>>
        PROVE  Trust(v)'
    BY <1>1, <1>3, UntouchedTrust DEF Untouched
  <1>. QED BY <1>2, <1>3 DEF Next, Expire, Republish, Tick, Finished, calls, vars

(***************************************************************************)
(* Trust is handed down soundly by every step, whatever the resolver and   *)
(* the cache return and however calls, publications and the clock          *)
(* interleave.                                                             *)
(***************************************************************************)
THEOREM TrustHandedDown == Spec => []TrustInvariant
PROOF
  <1>1. Spec => []TypeOK
    BY TypeCorrect
  <1>. QED BY <1>1, InitTrust, NextTrust, PTL DEF Spec

(***************************************************************************)
(* Every DNSKEY in the zone a walk stands in belongs to that zone.         *)
(***************************************************************************)
THEOREM KeysAreAuthentic == Spec => []ZoneKeysAuthentic
PROOF
  <1>1. TrustInvariant => ZoneKeysAuthentic
    BY DEF TrustInvariant, Trust, ZoneKeysAuthentic
  <1>. QED BY <1>1, TrustHandedDown, PTL

(***************************************************************************)
(* A Secure answer is an rrset its owner published, under the one          *)
(* assumption that a zone's keys sign only what the zone publishes.        *)
(***************************************************************************)
THEOREM SecureAnswersAuthentic == Spec => []SecureIsAuthentic
PROOF
  <1>1. TrustInvariant => SecureIsAuthentic
    BY DEF TrustInvariant, Trust, SecureIsAuthentic
  <1>. QED BY <1>1, TrustHandedDown, PTL
=============================================================================
