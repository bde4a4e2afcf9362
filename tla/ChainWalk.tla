----------------------------- MODULE ChainWalk -----------------------------
(***************************************************************************)
(* Verifier.Validate: the walk of the DNSSEC chain of trust from the root  *)
(* to (qname, qtype), alias by alias, by several goroutines that share one *)
(* resolver and, with WithCache, one MemoryCache.                          *)
(*                                                                         *)
(* Every walker is one Validate call.  Its steps are cut where another     *)
(* goroutine, the clock, the context or the published zones can move:      *)
(* around the cache lookup, the resolver query and the put of its answer.  *)
(* The environment is the resolver (Reply, and within MaxFaults a damaged  *)
(* answer or an error), the zones being published anew (Republish), the    *)
(* clock (Tick) and the contexts (Expire).                                 *)
(***************************************************************************)
EXTENDS Denial

CONSTANTS
  Walker,          \* the Validate calls
  RRType,          \* the record types
  Question,        \* the [name, type] they may be asked
  MaxAliasHops,    \* the redirects one call follows
  Anchors,         \* the root keys the trust anchors digest
  UseCache,        \* WithCache was given
  Record,          \* the resource records there are
  Signature,       \* the RRSIGs there are
  Ask,             \* the [name, type] the resolver can be asked
  Reply,           \* per publication and question: the answers
  Damaged,         \* the same for the answers a failing path gives instead
  MaxWorld,        \* publications of the zones, numbered from 1
  MaxTime,         \* the last clock value
  MaxFaults,       \* damaged answers, errors and expired contexts in all
  None             \* no name, no verdict

Response == [rcode : Nat, rrs : SUBSET Record, sigs : SUBSET Signature]

ASSUME BoundsAssumption ==
  /\ MaxAliasHops \in Nat
  /\ MaxWorld \in Nat \ {0}
  /\ MaxTime \in Nat
  /\ MaxFaults \in Nat
  /\ UseCache \in BOOLEAN
  /\ {"DNSKEY", "DS", "CNAME", "DNAME"} \subseteq RRType
  /\ Question \subseteq [name : Name, type : RRType]

\* The empty string is no name.
ASSUME NoneAssumption == None \notin Name

\* What comes back from the resolver is made of the records there are.
ASSUME ResolverAssumption ==
  /\ Reply   \in [1..MaxWorld -> [Ask -> SUBSET Response]]
  /\ Damaged \in [1..MaxWorld -> [Ask -> SUBSET Response]]

VARIABLES
  world,   \* the publication the resolver sees
  cache,   \* the MemoryCache: a set of [name, type, rrs, sigs]
  faults,  \* faults met so far
  ctxDone, \* per walker: its context has ended
  phase,   \* per walker: where Validate stands
  io,      \* per walker: where loadRecords stands
  reply,   \* per walker: the answer in hand that is not put yet, {} for none
  qname, qtype, hop, seen,  \* per walker: the locals of Validate
  depth, cur, zone,         \* per walker: childName, currentName, currentZone
  kid, dsSigs,              \* per walker: the zone being entered, its DS checks
  found,                    \* per walker: loadRecords counted a record
  res                       \* per walker: the Result and error

shared == <<world, cache, faults, now>>
vars == <<world, cache, faults, now, ctxDone, phase, io, reply, qname, qtype,
          hop, seen, depth, cur, zone, kid, dsSigs, found, res>>

\* NOERROR and NXDOMAIN; any other code proves nothing.
Usable(resp) == resp.rcode \in {0, 3}

Verdict == {"indeterminate", "secure", "secure-nodata", "secure-nxdomain",
            "insecure", "bogus"}

Code == {"none", "no-rrsig", "trust-anchor-mismatch", "no-ds", "no-dnskey",
         "ds-mismatch", "alias-loop", "alias-limit", "wildcard-proof-missing"}
          \cup SigStatus

ErrorKind == {"nil", "ErrResolver", "ErrChainTimeout", "ErrVerifier"}

NewResult == [verdict |-> "indeterminate", combined |-> None, code |-> "none",
              bogusAt |-> None, insecureAt |-> None, chain |-> << >>,
              aliases |-> << >>, answer |-> {}, wildcard |-> None, err |-> "nil"]

Init ==
  /\ world = 1 /\ now = 0 /\ cache = {} /\ faults = 0
  /\ \E q \in [Walker -> Question] :
       /\ qname = [w \in Walker |-> q[w].name]
       /\ qtype = [w \in Walker |-> q[w].type]
  /\ ctxDone = [w \in Walker |-> FALSE]
  /\ phase   = [w \in Walker |-> "hop"]
  /\ io      = [w \in Walker |-> "idle"]
  /\ reply   = [w \in Walker |-> {}]
  /\ hop     = [w \in Walker |-> 0]
  /\ seen    = [w \in Walker |-> {}]
  /\ depth   = [w \in Walker |-> 0]
  /\ cur     = [w \in Walker |-> Root]
  /\ zone    = [w \in Walker |-> EmptyZone]
  /\ kid     = [w \in Walker |-> EmptyZone]
  /\ dsSigs  = [w \in Walker |-> {}]
  /\ found   = [w \in Walker |-> FALSE]
  /\ res     = [w \in Walker |-> NewResult]

-----------------------------------------------------------------------------
\* The result.

\* Worst of the hops so far.
combineVerdicts(a, b) ==
  IF "bogus" \in {a, b} THEN "bogus"
  ELSE IF "insecure" \in {a, b} THEN "insecure"
  ELSE IF "indeterminate" \in {a, b} THEN "indeterminate"
  ELSE IF b = "secure" THEN a
  ELSE b

Combined(r, verdict) ==
  IF r.combined = None THEN verdict ELSE combineVerdicts(r.combined, verdict)

\* A terminal hop decides the verdict (applyOutcome).
applyOutcome(r, verdict) ==
  [r EXCEPT !.verdict = Combined(r, verdict), !.combined = Combined(r, verdict)]

setBogus(r, at, code) ==
  [r EXCEPT !.verdict = "bogus", !.bogusAt = at, !.code = code]

\* Mutant: the code of the failed check is not passed on.
bogusOutcomeNoCode(r, at, code) == [applyOutcome(r, "bogus") EXCEPT !.bogusAt = at]

bogusOutcome(r, at, code) ==
  [applyOutcome(r, "bogus") EXCEPT !.bogusAt = at, !.code = code]

insecureOutcome(r, at) ==
  [applyOutcome(r, "insecure") EXCEPT !.insecureAt = at, !.code = "no-ds"]

\* The answer, {} for nil, is kept only with a Secure verdict.
secureOutcome(r, answer, wildcard) ==
  LET s == applyOutcome(r, "secure")
  IN  [s EXCEPT !.wildcard = wildcard,
                !.answer = IF s.verdict = "secure" THEN answer ELSE {}]

failed(r, err) == [r EXCEPT !.err = err]

\* A check that could not be carried out; only an unsupported algorithm
\* leaves its code.
uncheckable(r, check) ==
  [r EXCEPT !.err = "ErrVerifier",
            !.code = IF check.code = "unsupported-algorithm" THEN check.code ELSE @]

\* Mutants: a zone met again gets a second step; only authenticated zones
\* get one; a zone met again takes the flag of the last check.
addStepAgain(r, name, signed, sigs) ==
  [r EXCEPT !.chain = Append(@, [zone |-> name, signed |-> signed, sigs |-> sigs])]

addStepSigned(r, name, signed, sigs) ==
  IF signed THEN addStepAgain(r, name, signed, sigs) ELSE r

addStepMarking(r, name, signed, sigs) ==
  LET at == {i \in DOMAIN r.chain : r.chain[i].zone = name}
  IN  IF at = {} THEN addStepAgain(r, name, signed, sigs)
      ELSE [r EXCEPT !.chain = [i \in DOMAIN r.chain |->
              IF i \in at THEN [zone |-> name, signed |-> signed, sigs |-> r.chain[i].sigs \cup sigs]
                          ELSE r.chain[i]]]

\* A zone met again on a later hop keeps its step and gains the checks.
addStep(r, name, signed, sigs) ==
  LET at == {i \in DOMAIN r.chain : r.chain[i].zone = name}
  IN  IF at = {}
      THEN [r EXCEPT !.chain = Append(@, [zone |-> name, signed |-> signed, sigs |-> sigs])]
      ELSE [r EXCEPT !.chain = [i \in DOMAIN r.chain |->
                                  IF i \in at
                                  THEN [r.chain[i] EXCEPT !.sigs = r.chain[i].sigs \cup sigs]
                                  ELSE r.chain[i]]]

\* The zone of an rrset checked at the leaf already has its step.
addZoneSigs(r, name, sigs) == addStep(r, name, FALSE, sigs)

\* The call returns; its zones are garbage.
Done(w, r) ==
  /\ phase' = [phase EXCEPT ![w] = "done"]
  /\ io'    = [io EXCEPT ![w] = "idle"]
  /\ res'   = [res EXCEPT ![w] = r]
  /\ zone'  = [zone EXCEPT ![w] = EmptyZone]
  /\ kid'   = [kid EXCEPT ![w] = EmptyZone]
  /\ dsSigs' = [dsSigs EXCEPT ![w] = {}]
  /\ found' = [found EXCEPT ![w] = FALSE]
  /\ UNCHANGED <<qname, hop, seen, depth, cur>>

\* What an action of one walker leaves alone.
Local == UNCHANGED <<shared, ctxDone, qtype, reply>>

-----------------------------------------------------------------------------
\* Validate: the loop over alias hops.

\* Mutant: one hop too many.
HopGoOver(w) == phase[w] = "hop" /\ hop[w] <= MaxAliasHops + 1

\* The loop guard and the tests at the top of its body.
HopGo(w) == phase[w] = "hop" /\ hop[w] <= MaxAliasHops

HopLimit(w) ==
  /\ phase[w] = "hop" /\ hop[w] > MaxAliasHops
  /\ Done(w, setBogus(res[w], qname[w], "alias-limit"))
  /\ Local

HopLoop(w) ==
  /\ HopGo(w) /\ ~ctxDone[w] /\ qname[w] \in seen[w]
  /\ Done(w, setBogus(res[w], qname[w], "alias-loop"))
  /\ Local

\* Load p's records next.
Enter(w, p) ==
  /\ phase' = [phase EXCEPT ![w] = p]
  /\ io'    = [io EXCEPT ![w] = "lookup"]

HopStart(w) ==
  /\ HopGo(w) /\ ~ctxDone[w] /\ qname[w] \notin seen[w]
  /\ seen' = [seen EXCEPT ![w] = @ \cup {qname[w]}]
  /\ kid'  = [kid EXCEPT ![w] = EmptyZone]
  /\ Enter(w, "root")
  /\ UNCHANGED <<qname, hop, depth, cur, zone, dsSigs, found, res>>
  /\ Local

\* ctx.Err() is looked at before every hop, every descent and the leaf.
ContextEnded(w) ==
  /\ HopGo(w) \/ phase[w] = "descend"
  /\ ctxDone[w]
  /\ Done(w, failed(res[w], "ErrChainTimeout"))
  /\ Local

-----------------------------------------------------------------------------
\* loadRecords: one lookup, one query.

childName(w) == LastNLabels(qname[w], depth[w])

Asked(w) ==
  [name |-> IF phase[w] = "root" THEN Root
            ELSE IF phase[w] \in {"ds", "keys"} THEN childName(w) ELSE qname[w],
   type |-> IF phase[w] \in {"root", "keys"} THEN "DNSKEY"
            ELSE IF phase[w] = "ds" THEN "DS" ELSE qtype[w]]

\* Mutant: a DNSKEY is taken from any answer.
acceptedAll(rrs, asked) == rrs

\* A DNSKEY is taken only from the answer to the DNSKEY query for its owner.
accepted(rrs, asked) ==
  {r \in rrs : r.type = "DNSKEY" => asked.type = "DNSKEY" /\ r.name = asked.name}

deposit(z, rrs, sigs, asked) ==
  [z EXCEPT !.rrs = @ \cup accepted(rrs, asked), !.sigs = @ \cup sigs]

\* applyRecords: the records go to the zone being entered or to the current
\* one; found says whether one of them is the asked rrset's.
applyRecords(w, rrs, sigs) ==
  /\ io' = [io EXCEPT ![w] = "loaded"]
  /\ found' = [found EXCEPT ![w] =
       \E r \in accepted(rrs, Asked(w)) : r.type = Asked(w).type /\ r.name = Asked(w).name]
  /\ IF phase[w] \in {"root", "keys"}
     THEN /\ kid' = [kid EXCEPT ![w] = deposit(@, rrs, sigs, Asked(w))]
          /\ UNCHANGED zone
     ELSE /\ zone' = [zone EXCEPT ![w] = deposit(@, rrs, sigs, Asked(w))]
          /\ UNCHANGED kid
  /\ UNCHANGED <<phase, qname, qtype, ctxDone, hop, seen, depth, cur, dsSigs, res>>

\* MemoryCache.Get and Put; the key is (name, type) and entries never expire.
Cached(asked) == {e \in cache : e.name = asked.name /\ e.type = asked.type}

\* Mutant: the key is the name alone.
PutByName(asked, resp) ==
  IF UseCache
  THEN cache' = {e \in cache : e.name # asked.name} \cup
                {[name |-> asked.name, type |-> asked.type, rrs |-> resp.rrs, sigs |-> resp.sigs]}
  ELSE UNCHANGED cache

Put(asked, resp) ==
  IF UseCache
  THEN cache' = (cache \ Cached(asked)) \cup
                {[name |-> asked.name, type |-> asked.type, rrs |-> resp.rrs, sigs |-> resp.sigs]}
  ELSE UNCHANGED cache

CacheHit(w) ==
  /\ io[w] = "lookup" /\ UseCache
  /\ \E e \in Cached(Asked(w)) : applyRecords(w, e.rrs, e.sigs)
  /\ UNCHANGED <<shared, reply>>

CacheMiss(w) ==
  /\ io[w] = "lookup"
  /\ UseCache => Cached(Asked(w)) = {}
  /\ io' = [io EXCEPT ![w] = "query"]
  /\ UNCHANGED <<phase, qname, hop, seen, depth, cur, zone, kid, dsSigs, found, res>>
  /\ Local

\* The resolver answers, as published or, on a failing path, damaged; a
\* code that proves nothing ends the call.
QueryReturn(w, resp) ==
  IF Usable(resp)
  THEN /\ io' = [io EXCEPT ![w] = "answered"]
       /\ reply' = [reply EXCEPT ![w] = {resp}]
       /\ UNCHANGED <<ctxDone, phase, qname, qtype, hop, seen, depth, cur, zone, kid, dsSigs,
                      found, res>>
  ELSE /\ Done(w, failed(res[w], "ErrResolver"))
       /\ UNCHANGED <<ctxDone, qtype, reply>>

QueryReply(w) ==
  /\ io[w] = "query" /\ Asked(w) \in Ask
  /\ \E resp \in Reply[world][Asked(w)] : QueryReturn(w, resp)
  /\ UNCHANGED shared

QueryDamaged(w) ==
  /\ io[w] = "query" /\ Asked(w) \in Ask /\ faults < MaxFaults
  /\ \E resp \in Damaged[world][Asked(w)] : QueryReturn(w, resp)
  /\ faults' = faults + 1
  /\ UNCHANGED <<world, now, cache>>

\* The answer is put, over what another call may have put since the lookup,
\* before anything in it is checked; then it is used.
KeepAnswer(w) ==
  /\ io[w] = "answered"
  /\ \E resp \in reply[w] : Put(Asked(w), resp) /\ applyRecords(w, resp.rrs, resp.sigs)
  /\ reply' = [reply EXCEPT ![w] = {}]
  /\ UNCHANGED <<world, now, faults>>

\* The resolver fails.
QueryError(w) ==
  /\ io[w] = "query" /\ faults < MaxFaults
  /\ Done(w, failed(res[w], "ErrResolver"))
  /\ faults' = faults + 1
  /\ UNCHANGED <<world, now, cache, ctxDone, qtype, reply>>

\* The resolver gives up because the context has ended: resolver/memory
\* returns the context's error, the network clients hide it in their own.
QueryCancelled(w) ==
  /\ io[w] = "query" /\ ctxDone[w]
  /\ \E err \in {"ErrChainTimeout", "ErrResolver"} : Done(w, failed(res[w], err))
  /\ Local

-----------------------------------------------------------------------------
\* validateRoot and descendInto: entering a zone.

\* The DNSKEYs at name that digests, a set of DS values, authenticate.
keysMatchingDS(z, name, digests) ==
  {r \in FindRRSet(z, name, "DNSKEY") : r.val \in digests}

\* The zone entered is the current one from here on.
Descend(w, z, name, r) ==
  /\ zone'  = [zone EXCEPT ![w] = z]
  /\ cur'   = [cur EXCEPT ![w] = name]
  /\ depth' = [depth EXCEPT ![w] = Len(name) + 1]
  /\ phase' = [phase EXCEPT ![w] = "descend"]
  /\ io'    = [io EXCEPT ![w] = "idle"]
  /\ res'   = [res EXCEPT ![w] = r]
  /\ kid'   = [kid EXCEPT ![w] = EmptyZone]
  /\ dsSigs' = [dsSigs EXCEPT ![w] = {}]
  /\ found' = [found EXCEPT ![w] = FALSE]
  /\ UNCHANGED <<qname, hop, seen>>

\* The zone name is entered when its DNSKEY rrset verifies under a key that
\* digests authenticate; before holds the checks already made for its step.
authenticate(w, name, digests, before, noMatch) ==
  LET ksks  == keysMatchingDS(kid[w], name, digests)
      z     == AddTrustedKeys(kid[w], ksks)
      check == checkRRSet(z, name, "DNSKEY", "KSK")
      sigs  == before \cup check.sigs
  IN  \/ /\ ksks = {}
         /\ Done(w, bogusOutcome(addStep(res[w], name, FALSE, before), name, noMatch))
      \/ /\ ksks # {} /\ check.err
         /\ Done(w, uncheckable(res[w], check))
      \/ /\ ksks # {} /\ ~check.err /\ ~check.ok
         /\ Done(w, bogusOutcome(addStep(res[w], name, FALSE, sigs), name, check.code))
      \/ /\ ksks # {} /\ check.ok
         /\ Descend(w, z, name, addStep(res[w], name, TRUE, sigs))

Loaded(w, p) == phase[w] = p /\ io[w] = "loaded"

ValidateRoot(w) ==
  /\ Loaded(w, "root")
  /\ authenticate(w, Root, Anchors, {}, "trust-anchor-mismatch")
  /\ Local

\* Mutant: one label too many is probed.
NextLabelOver(w) ==
  /\ phase[w] = "descend" /\ ~ctxDone[w]
  /\ Enter(w, IF depth[w] <= Len(qname[w]) + 1 THEN "ds" ELSE "leaf")
  /\ UNCHANGED <<qname, hop, seen, depth, cur, zone, kid, dsSigs, found, res>>
  /\ Local

\* The next label of qname is probed for a cut, or the leaf is resolved.
NextLabel(w) ==
  /\ phase[w] = "descend" /\ ~ctxDone[w]
  /\ Enter(w, IF depth[w] <= Len(qname[w]) THEN "ds" ELSE "leaf")
  /\ UNCHANGED <<qname, hop, seen, depth, cur, zone, kid, dsSigs, found, res>>
  /\ Local

belowDNAME(z, name) ==
  \E a \in properAncestors(name) : FindRRSet(z, a, "DNAME") # {}

\* Mutant: the walk goes on without advancing.
notACutStuck(w) ==
  /\ phase' = [phase EXCEPT ![w] = "descend"]
  /\ io'    = [io EXCEPT ![w] = "idle"]
  /\ UNCHANGED <<qname, hop, seen, depth, cur, zone, kid, dsSigs, found, res>>

\* The name is not a cut: the walk goes on in the current zone.
notACut(w) ==
  /\ depth' = [depth EXCEPT ![w] = @ + 1]
  /\ phase' = [phase EXCEPT ![w] = "descend"]
  /\ io'    = [io EXCEPT ![w] = "idle"]
  /\ UNCHANGED <<qname, hop, seen, cur, zone, kid, dsSigs, found, res>>

\* noDSDescent: no DS came back.
NoDS(w) ==
  /\ Loaded(w, "ds") /\ ~found[w]
  /\ LET insecure == ~belowDNAME(zone[w], childName(w)) /\ proveNoDS(zone[w], childName(w))
     IN  \/ insecure /\ Done(w, insecureOutcome(res[w], childName(w)))
         \/ ~insecure /\ notACut(w)
  /\ Local

\* Mutant: the child's records go into a copy of the parent's store.
childZoneCopied(z) == [EmptyZone EXCEPT !.parent = z.rrs, !.rrs = z.rrs]

\* A new store whose parent is z.
childZone(z) == [EmptyZone EXCEPT !.parent = z.rrs]

\* The DS rrset must verify under the current zone's keys.
CheckDS(w) ==
  /\ Loaded(w, "ds") /\ found[w]
  /\ LET child == childName(w)
         check == checkRRSet(zone[w], child, "DS", "None")
     IN  \/ /\ check.err
            /\ Done(w, uncheckable(res[w], check))
         \/ /\ ~check.err /\ ~check.ok
            /\ Done(w, bogusOutcome(addStep(res[w], child, FALSE, check.sigs), child, check.code))
         \/ /\ check.ok
            /\ dsSigs' = [dsSigs EXCEPT ![w] = check.sigs]
            /\ kid' = [kid EXCEPT ![w] = childZone(zone[w])]
            /\ Enter(w, "keys")
            /\ UNCHANGED <<qname, hop, seen, depth, cur, zone, found, res>>
  /\ Local

AuthenticateKeys(w) ==
  /\ Loaded(w, "keys")
  /\ LET child   == childName(w)
         digests == Vals(FindRRSet(zone[w], child, "DS"))
         noMatch == IF FindRRSet(kid[w], child, "DNSKEY") = {} THEN "no-dnskey" ELSE "ds-mismatch"
     IN  authenticate(w, child, digests, dsSigs[w], noMatch)
  /\ Local

-----------------------------------------------------------------------------
\* resolveLeaf.

\* The rrset is there: it must verify, and when its RRSIG tells of wildcard
\* expansion the next closer name must be proven absent.
LeafAnswer(w) ==
  /\ Loaded(w, "leaf") /\ found[w]
  /\ LET check  == checkRRSet(zone[w], qname[w], qtype[w], "None")
         r      == addZoneSigs(res[w], cur[w], check.sigs)
         answer == FindRRSet(zone[w], qname[w], qtype[w])
         wild   == detectWildcard(zone[w], qname[w], qtype[w])
         Proven(n) == proveQnameNonExistence(zone[w], LastNLabels(qname[w], n + 1))
     IN  \/ check.err /\ Done(w, uncheckable(res[w], check))
         \/ ~check.err /\ ~check.ok /\ Done(w, bogusOutcome(r, cur[w], check.code))
         \/ check.ok /\ wild = {} /\ Done(w, secureOutcome(r, answer, None))
         \/ \E n \in wild :
              /\ check.ok /\ Proven(n)
              /\ Done(w, secureOutcome(r, answer, LastNLabels(qname[w], n)))
         \/ \E n \in wild :
              /\ check.ok /\ ~Proven(n)
              /\ Done(w, bogusOutcome(r, cur[w], "wildcard-proof-missing"))
  /\ Local

\* Mutant: the next hop goes on from the zone the alias is in.
RedirectInZone(w, r, type, owner, target) ==
  /\ res' = [res EXCEPT ![w] =
       [r EXCEPT !.combined = Combined(r, "secure"),
                 !.aliases = Append(@, [type |-> type, from |-> owner, target |-> target, zone |-> cur[w]])]]
  /\ qname' = [qname EXCEPT ![w] = target]
  /\ hop'   = [hop EXCEPT ![w] = @ + 1]
  /\ phase' = [phase EXCEPT ![w] = "descend"]
  /\ io'    = [io EXCEPT ![w] = "idle"]
  /\ depth' = [depth EXCEPT ![w] = Len(cur[w]) + 1]
  /\ UNCHANGED <<seen, cur, zone, kid, dsSigs, found>>

\* An alias whose rrset at owner verified: the next hop asks for target.
Redirect(w, r, type, owner, target) ==
  /\ res' = [res EXCEPT ![w] =
       [r EXCEPT !.combined = Combined(r, "secure"),
                 !.aliases = Append(@, [type |-> type, from |-> owner, target |-> target, zone |-> cur[w]])]]
  /\ qname' = [qname EXCEPT ![w] = target]
  /\ hop'   = [hop EXCEPT ![w] = @ + 1]
  /\ phase' = [phase EXCEPT ![w] = "hop"]
  /\ io'    = [io EXCEPT ![w] = "idle"]
  /\ zone'  = [zone EXCEPT ![w] = EmptyZone]
  /\ UNCHANGED <<seen, depth, cur, kid, dsSigs, found>>

\* Mutant: an alias that did not verify is followed all the same.
followAliasUnchecked(w, type, owner, targets) ==
  LET check == checkRRSet(zone[w], owner, type, "None")
      r     == addZoneSigs(res[w], cur[w], check.sigs)
  IN  \/ check.err /\ Done(w, uncheckable(res[w], check))
      \/ ~check.err /\ \E target \in targets : Redirect(w, r, type, owner, target)

\* tryDNAME and tryCNAME, once the owner is picked: its rrset must verify;
\* targets are the names its records stand for.
followAlias(w, type, owner, targets) ==
  LET check == checkRRSet(zone[w], owner, type, "None")
      r     == addZoneSigs(res[w], cur[w], check.sigs)
  IN  \/ check.err /\ Done(w, uncheckable(res[w], check))
      \/ ~check.err /\ ~check.ok /\ Done(w, bogusOutcome(r, cur[w], check.code))
      \/ check.ok /\ \E target \in targets : Redirect(w, r, type, owner, target)

\* The proper ancestors of qname that own a DNAME.
dnameOwners(w) ==
  {a \in properAncestors(qname[w]) : FindRRSet(zone[w], a, "DNAME") # {}}

\* DNAME goes first: the CNAME synthesised from it is not signed.  The
\* deepest owner applies.
LeafDNAME(w) ==
  /\ Loaded(w, "leaf") /\ ~found[w]
  /\ \E owner \in dnameOwners(w) :
       /\ \A a \in dnameOwners(w) : Len(a) <= Len(owner)
       /\ followAlias(w, "DNAME", owner,
                      {synthesiseDNAMETarget(qname[w], owner, v) :
                         v \in Vals(FindRRSet(zone[w], owner, "DNAME"))})
  /\ Local

\* The CNAMEs at qname, looked for when no DNAME applies.
cnamesAt(w) ==
  IF dnameOwners(w) = {} THEN FindRRSet(zone[w], qname[w], "CNAME") ELSE {}

LeafCNAME(w) ==
  /\ Loaded(w, "leaf") /\ ~found[w]
  /\ cnamesAt(w) # {}
  /\ followAlias(w, "CNAME", qname[w], Vals(cnamesAt(w)))
  /\ Local

\* No alias: NODATA, else NXDOMAIN, else nothing can be said.
LeafDenial(w) ==
  /\ Loaded(w, "leaf") /\ ~found[w]
  /\ dnameOwners(w) = {} /\ cnamesAt(w) = {}
  /\ \E noData \in proveNoData(zone[w], qname[w], qtype[w]),
        nxDomain \in proveNXDomain(zone[w], qname[w]) :
       Done(w, applyOutcome(res[w], IF noData THEN "secure-nodata"
                                    ELSE IF nxDomain THEN "secure-nxdomain"
                                    ELSE "indeterminate"))
  /\ Local

-----------------------------------------------------------------------------
\* The environment.

\* The context of a call is cancelled or its deadline passes.
Expire(w) ==
  /\ ~ctxDone[w] /\ phase[w] # "done" /\ faults < MaxFaults
  /\ ctxDone' = [ctxDone EXCEPT ![w] = TRUE]
  /\ faults' = faults + 1
  /\ UNCHANGED <<world, now, cache, phase, io, reply, qname, qtype, hop, seen,
                 depth, cur, zone, kid, dsSigs, found, res>>

calls == <<ctxDone, phase, io, reply, qname, qtype, hop, seen, depth, cur,
           zone, kid, dsSigs, found, res>>

\* The zones are published anew: records changed, keys rolled, re-signed.
Republish ==
  /\ world < MaxWorld
  /\ world' = world + 1
  /\ UNCHANGED <<now, cache, faults, calls>>

Tick ==
  /\ now < MaxTime
  /\ now' = now + 1
  /\ UNCHANGED <<world, cache, faults, calls>>

-----------------------------------------------------------------------------
\* The steps of one call.
Hop(w)  == HopLimit(w) \/ HopLoop(w) \/ HopStart(w) \/ ContextEnded(w)
Load(w) == CacheHit(w) \/ CacheMiss(w) \/ QueryReply(w) \/ QueryDamaged(w)
             \/ QueryError(w) \/ QueryCancelled(w) \/ KeepAnswer(w)
Cut(w)  == ValidateRoot(w) \/ NextLabel(w) \/ NoDS(w) \/ CheckDS(w) \/ AuthenticateKeys(w)
Leaf(w) == LeafAnswer(w) \/ LeafDNAME(w) \/ LeafCNAME(w) \/ LeafDenial(w)

Validate(w) == Hop(w) \/ Load(w) \/ Cut(w) \/ Leaf(w)

AllDone == \A w \in Walker : phase[w] = "done"

\* Every call has returned.
Finished == AllDone /\ UNCHANGED vars

Next ==
  \/ \E w \in Walker : Validate(w) \/ Expire(w)
  \/ Republish
  \/ Tick
  \/ Finished

Spec == Init /\ [][Next]_vars

\* The Go scheduler runs every call, and a query returns: every resolver
\* bounds it by a timeout.
FairSpec == Spec /\ \A w \in Walker : WF_vars(Validate(w))
=============================================================================
