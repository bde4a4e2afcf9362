----------------------------- MODULE ChainTrust -----------------------------
(***************************************************************************)
(* What the walk of ChainWalk promises, against what the zones' owners     *)
(* published: the keys that are really theirs and the rrsets their signers *)
(* signed.  Nothing is assumed of the resolver: its answers may be any     *)
(* records and signatures there are, only that no signature made with an   *)
(* owner's key covers something the owner did not publish.                 *)
(***************************************************************************)
EXTENDS ChainWalk

CONSTANTS
  ZoneKey,   \* the [zone, key] that belong together
  Published  \* the rrsets owners have published: [name, type, vals]

\* The shape of the records and RRSIGs there are.
ASSUME RecordAssumption ==
  /\ \A r \in Record : /\ r.name \in Name
                       /\ r.type \in {"CNAME", "DNAME"} => r.val \in Name
                       /\ r.type = "NSEC" => r.val.next \in Name
  /\ \A s \in Signature : /\ s.signer \in Name /\ s.tag \in Nat /\ s.labels \in Nat
                          /\ s.inc \in Nat /\ s.exp \in Nat

\* SignZone signs with a zone's keys only what the zone publishes; DNSKEY
\* rrsets hold the zone's keys, DS rrsets digest the child's, and neither
\* is published at a wildcard.  The trust anchors digest root keys.
ASSUME HonestSigning ==
  /\ \A s \in Signature : [zone |-> s.signer, key |-> s.by] \in ZoneKey =>
       [name |-> s.owner, type |-> s.type, vals |-> s.vals] \in Published
  /\ \A p \in Published : p.type \in {"DNSKEY", "DS"} =>
       /\ ~IsWildcard(p.name)
       /\ \A k \in p.vals : [zone |-> p.name, key |-> k] \in ZoneKey
  /\ \A k \in Anchors : [zone |-> Root, key |-> k] \in ZoneKey

-----------------------------------------------------------------------------
Store == [rrs : SUBSET Record, sigs : SUBSET Signature,
          trusted : SUBSET Record, parent : SUBSET Record]

Outcome == [name : Name, type : RRType, tag : Nat, signer : Name,
            inc : Nat, exp : Nat, result : SigStatus]

Step == [zone : Name, signed : BOOLEAN, sigs : SUBSET Outcome]

Alias == [type : {"CNAME", "DNAME"}, from : Name, target : Name, zone : Name]

Result == [verdict : Verdict, combined : Verdict \cup {None}, code : Code,
           bogusAt : Name \cup {None}, insecureAt : Name \cup {None},
           chain : Seq(Step), aliases : Seq(Alias),
           answer : SUBSET Record, wildcard : Name \cup {None},
           err : ErrorKind]

Entry == [name : Name, type : RRType, rrs : SUBSET Record, sigs : SUBSET Signature]

SharedType ==
  /\ world \in 1..MaxWorld /\ now \in 0..MaxTime /\ faults \in 0..MaxFaults
  /\ cache \subseteq Entry

CallType ==
  /\ ctxDone \in [Walker -> BOOLEAN]
  /\ phase \in [Walker -> {"hop", "root", "descend", "ds", "keys", "leaf", "done"}]
  /\ io \in [Walker -> {"idle", "lookup", "query", "answered", "loaded"}]
  /\ reply \in [Walker -> SUBSET Response]
  /\ qname \in [Walker -> Name] /\ qtype \in [Walker -> RRType]
  /\ hop \in [Walker -> 0..(MaxAliasHops + 1)]
  /\ seen \in [Walker -> SUBSET Name]
  /\ depth \in [Walker -> Nat] /\ cur \in [Walker -> Name]
  /\ zone \in [Walker -> Store] /\ kid \in [Walker -> Store]
  /\ dsSigs \in [Walker -> SUBSET Outcome]
  /\ found \in [Walker -> BOOLEAN]
  /\ res \in [Walker -> Result]

ControlType ==
  \A w \in Walker :
    /\ phase[w] \in {"hop", "descend", "done"} <=> io[w] = "idle"
    /\ io[w] = "answered" => reply[w] # {}
    /\ phase[w] \in {"ds", "keys"} => depth[w] <= Len(qname[w])
    /\ phase[w] \notin {"hop", "done"} => hop[w] <= MaxAliasHops

(***************************************************************************)
(* The variables hold values of their kind; a load is under way exactly in *)
(* the phases that load, a cut is probed only at an ancestor of qname, and *)
(* a hop is walked only within the limit.                                  *)
(***************************************************************************)
TypeOK == SharedType /\ CallType /\ ControlType

-----------------------------------------------------------------------------
Genuine(name, key) == [zone |-> name, key |-> key] \in ZoneKey

\* Every DNSKEY of a store is at name, and belongs to the zone there.
GenuineKeys(z, name) ==
  \A r \in z.rrs : r.type = "DNSKEY" => r.name = name /\ Genuine(name, r.val)

KeysAuthentic(w) ==
  /\ phase[w] \in {"descend", "ds", "keys"} => GenuineKeys(zone[w], cur[w])
  /\ phase[w] = "leaf" /\ (io[w] # "loaded" \/ qtype[w] # "DNSKEY" \/ ~found[w]) =>
       GenuineKeys(zone[w], cur[w])

(***************************************************************************)
(* Whatever the resolver and the cache return, a DNSKEY in the zone the    *)
(* walk stands in (whose signatures are then checked in KeyModeNone)       *)
(* belongs to that zone.  Only the leaf answer to a DNSKEY question that   *)
(* has the rrset asked for brings in keys that were not authenticated, and *)
(* then no alias is looked for.  (applyRecords, descendInto, validateRoot) *)
(***************************************************************************)
ZoneKeysAuthentic == \A w \in Walker : KeysAuthentic(w)

\* The rrset a Secure answer is taken from: at its name, or at a wildcard
\* above it.
Sources(name) == {name} \cup {wildcardAt(a) : a \in properAncestors(name)}

\* rrset, found at name, is one that was published for it.
IsPublished(name, type, rrset) ==
  \E p \in Published : p.type = type /\ p.name \in Sources(name) /\ p.vals = Vals(rrset)

SecureAuthentic(w) ==
  res[w].verdict = "secure" /\ qtype[w] # "DNSKEY" =>
    IsPublished(qname[w], qtype[w], res[w].answer)

(***************************************************************************)
(* A Secure answer is, record for record, an rrset that was published at   *)
(* the name or at a wildcard above it: records of two publications, or of  *)
(* a damaged answer, never pass as one.  DNSKEY questions are left out:    *)
(* their leaf answer is checked with the keys it brings along, and whoever *)
(* serves keys of his own has them reported Secure (MCShared states that   *)
(* case).  (resolveLeaf, CreateDigestTarget)                               *)
(***************************************************************************)
SecureIsAuthentic == \A w \in Walker : SecureAuthentic(w)

\* Every DNSKEY of a store is at name.
KeysOnlyAt(z, name) == \A r \in z.rrs : r.type = "DNSKEY" => r.name = name

\* The zone being entered: its store holds only keys at its apex, nothing
\* is trusted yet, and the digests that will decide are the child's.
EntryAuthentic(w) ==
  /\ phase[w] = "root" =>
       kid[w].trusted = {} /\ kid[w].parent = {} /\ KeysOnlyAt(kid[w], Root)
  /\ phase[w] = "keys" =>
       /\ kid[w].trusted = {} /\ kid[w].parent = zone[w].rrs
       /\ KeysOnlyAt(kid[w], childName(w))
       /\ \A r \in FindRRSet(zone[w], childName(w), "DS") : Genuine(childName(w), r.val)

\* No verdict before the call returns.
VerdictAtEnd(w) == phase[w] # "done" => res[w].verdict = "indeterminate"

Trust(w) == KeysAuthentic(w) /\ EntryAuthentic(w) /\ VerdictAtEnd(w) /\ SecureAuthentic(w)

(***************************************************************************)
(* Trust as the walk hands it down, all links at once: while a child is    *)
(* entered its DS rrset, as it stands in the parent's store, digests only  *)
(* keys of the child, and its own store has no keys but at its apex.       *)
(* (descendInto between its two queries)                                   *)
(***************************************************************************)
TrustInvariant == \A w \in Walker : Trust(w)

-----------------------------------------------------------------------------
\* The denial records that zone signed, at their owner or a wildcard above it.
Attested(zoneName) ==
  {d \in Record :
     /\ d.type \in {"NSEC", "NSEC3"}
     /\ \E s \in Signature : /\ s.signer = zoneName /\ Genuine(zoneName, s.by)
                             /\ s.type = d.type /\ s.owner \in Sources(d.name) /\ d.val \in s.vals}

\* What one of them says of a name: its types, or that there is no such name.
SpeaksOf(d, name) == IF d.type = "NSEC" THEN d.name = name ELSE OwnerHashFromName(d) = Hash(name)
Skips(d, name) == IF d.type = "NSEC" THEN CoversName(d, name) ELSE CoversHash(d, Hash(name))

\* What they say together: that a name is there, if only for one below it,
\* that it is not, that it has no records of a type, that it is unsigned.
NameShown(records, name) ==
  \E d \in records : \/ SpeaksOf(d, name)
                     \/ d.type = "NSEC" /\ (isAtOrBelow(d.name, name) \/ isAtOrBelow(d.val.next, name))
NameDenied(records, name) == \E d \in records : Skips(d, name)
TypeDenied(records, name, type) == \E d \in records : SpeaksOf(d, name) /\ ProvesNoData(d, type)
DSDenied(records, name) ==
  \E d \in records : \/ SpeaksOf(d, name) /\ ProvesNoDS(d)
                     \/ d.type = "NSEC3" /\ Skips(d, name) /\ HasOptOut(d)

\* There is nothing at name on the way down from encloser, which is there.
NothingBelow(records, name, encloser) ==
  /\ NameShown(records, encloser)
  /\ \E c \in ancestorsOf(name) : Len(c) >= Len(encloser) /\ NameDenied(records, c)

AbsentBySigned(w) ==
  LET r == res[w]
      name == qname[w]
      records == Attested(cur[w])
  IN  /\ r.verdict = "insecure" => DSDenied(records, r.insecureAt)
      /\ r.verdict = "secure-nodata" =>
           \/ TypeDenied(records, name, qtype[w])
           \/ NameDenied(records, name) /\ NameShown(records, name)
           \/ \E a \in ancestorsOf(name) :
                NothingBelow(records, name, a) /\ TypeDenied(records, wildcardAt(a), qtype[w])
      /\ r.verdict = "secure-nxdomain" =>
           \E a \in properAncestors(name) :
             NothingBelow(records, name, a) /\ NameDenied(records, wildcardAt(a))
      /\ r.verdict = "secure" /\ r.wildcard # None /\ qtype[w] # "DNSKEY" =>
           NameDenied(records, nextCloserName(name, r.wildcard))

(***************************************************************************)
(* Whatever the resolver and the cache return, a verdict that something is *)
(* absent rests on denial records the zone the walk ended in signed with   *)
(* its own keys, and on all of those its kind needs: an unsigned           *)
(* delegation on one that shows it or an opt-out range; NODATA on one at   *)
(* the name, at an empty non-terminal, or at the wildcard of the closest   *)
(* encloser; NXDOMAIN on one that skips the name and one that skips that   *)
(* wildcard; an expanded answer on one that skips the next closer name,    *)
(* DNSKEY answers again left out, whose keys were not authenticated.       *)
(* (noDSDescent, proveNoData, proveNXDomain, proveQnameNonExistence)       *)
(***************************************************************************)
AbsenceIsAttested == \A w \in Walker : AbsentBySigned(w)

(***************************************************************************)
(* The chain of a result is a path of trust: it starts at the root, no     *)
(* zone occurs twice, and a zone other than the root is preceded by a zone *)
(* above it whose DNSKEY rrset verified, with the checks that let the walk *)
(* through.  (addStep over all alias hops)                                 *)
(***************************************************************************)
ChainIsPath ==
  \A w \in Walker :
    LET chain == res[w].chain
        Verified(i, type) == \E c \in chain[i].sigs : /\ c.type = type /\ c.name = chain[i].zone
                                                      /\ c.result = "verified"
    IN  \A i \in DOMAIN chain :
          /\ i = 1 <=> chain[i].zone = Root
          /\ \A j \in 1..(i - 1) : chain[j].zone # chain[i].zone
          /\ chain[i].signed => Verified(i, "DNSKEY") /\ (i > 1 => Verified(i, "DS"))
          /\ i > 1 => \E j \in 1..(i - 1) :
                        chain[j].signed /\ isStrictSubdomain(chain[i].zone, chain[j].zone)

(***************************************************************************)
(* Without redirects a Bogus chain ends with the step of the zone that     *)
(* failed, and that zone is signed in the chain exactly when it was its    *)
(* data, not its keys, that failed.                                        *)
(***************************************************************************)
BogusEndsChain ==
  \A w \in Walker :
    res[w].verdict = "bogus" /\ res[w].aliases = << >> =>
      LET chain == res[w].chain
      IN  /\ chain # << >>
          /\ chain[Len(chain)].zone = res[w].bogusAt
          /\ isAtOrBelow(qname[w], res[w].bogusAt)
          /\ chain[Len(chain)].signed = (cur[w] = res[w].bogusAt /\ depth[w] > Len(qname[w]))

(***************************************************************************)
(* The code and the places of a result go with its verdict: a code with    *)
(* Bogus and Insecure, and otherwise only for the unsupported algorithm of *)
(* an ErrVerifier; a bogus place with Bogus, an insecure one with          *)
(* Insecure, an answer with records with Secure, no verdict with an error. *)
(* (applyOutcome, setBogus, checkRRSet)                                    *)
(***************************************************************************)
CodeMatchesVerdict ==
  \A w \in Walker :
    LET r == res[w]
    IN  /\ (r.code # "none") <=> \/ r.verdict \in {"bogus", "insecure"}
                                 \/ r.err = "ErrVerifier" /\ r.code = "unsupported-algorithm"
        /\ (r.bogusAt # None) <=> (r.verdict = "bogus")
        /\ (r.insecureAt # None) <=> (r.verdict = "insecure")
        /\ (r.answer # {}) <=> (r.verdict = "secure")
        /\ r.err # "nil" => r.verdict = "indeterminate"

(***************************************************************************)
(* The aliases of a result link up: each one starts at the name the        *)
(* previous one led to (a DNAME above it), the last leads to the name in   *)
(* hand, and every redirect was met on a walk of a name of its own.  There *)
(* is one per redirect, at most one more than MaxAliasHops.                *)
(* (Validate's loop, tryDNAME, tryCNAME)                                   *)
(***************************************************************************)
AliasesLinked ==
  \A w \in Walker :
    LET aliases == res[w].aliases
        n == Len(aliases)
        Targets == {aliases[i].target : i \in 1..n}
        WalkedFrom(i) == IF aliases[i].type = "CNAME" THEN {aliases[i].from}
                         ELSE {s \in seen[w] : isStrictSubdomain(s, aliases[i].from)}
    IN  /\ n = hop[w] /\ n <= MaxAliasHops + 1
        /\ n > 0 => aliases[n].target = qname[w]
        /\ \A i \in 2..n : aliases[i - 1].target \in WalkedFrom(i)
        /\ \A i \in 1..n : aliases[i].target \in seen[w] \/ i = n
        /\ Cardinality(seen[w]) \in {n, n + 1}

\* What an alias says is in an rrset that was published for its owner.
PublishedAlias(w, alias) ==
  \E p \in Published :
    /\ p.type = alias.type /\ p.name \in Sources(alias.from)
    /\ IF alias.type = "CNAME" THEN alias.target \in p.vals
       ELSE \E s \in seen[w], v \in p.vals :
              /\ isStrictSubdomain(s, alias.from)
              /\ alias.target = synthesiseDNAMETarget(s, alias.from, v)

(***************************************************************************)
(* Every redirect of a result, on whatever hop, was published: its CNAME,  *)
(* at its name or expanded from a wildcard, leads where the zone's owner   *)
(* says, and its DNAME, applied to a name the call walked, too.  The       *)
(* unsigned CNAME beside a DNAME, and one changed or stripped of its       *)
(* signatures on the way, are never followed.  (tryCNAME, tryDNAME)        *)
(***************************************************************************)
AliasesAuthentic ==
  \A w \in Walker : \A i \in DOMAIN res[w].aliases : PublishedAlias(w, res[w].aliases[i])

\* The questions a call has had answered: on its earlier hops every label
\* probed for a cut and the name itself, on this one the labels up to where
\* it stands, and the keys of the zones it entered.
DSProbes(name, n) == {[name |-> LastNLabels(name, i), type |-> "DS"] : i \in 1..n}

HopsAnswered(w) ==
  UNION {DSProbes(s, Len(s)) \cup {[name |-> s, type |-> qtype[w]]} : s \in seen[w] \ {qname[w]}}

ProbesAnswered(w) ==
  IF phase[w] \in {"descend", "ds", "keys", "leaf"} THEN DSProbes(qname[w], depth[w] - 1) ELSE {}

KeysAnswered(w) ==
  LET chain == res[w].chain
  IN  {[name |-> chain[i].zone, type |-> "DNSKEY"] : i \in {j \in DOMAIN chain : chain[j].signed}}

Answered(w) == HopsAnswered(w) \cup ProbesAnswered(w) \cup KeysAnswered(w)

(***************************************************************************)
(* With a cache a call asks the resolver for nothing it had an answer to,  *)
(* on whatever hop and though the answer held no records: what it walks    *)
(* again it finds again, whatever other calls that missed the same entries *)
(* have put over them in the meantime.  (loadRecords, MemoryCache)         *)
(***************************************************************************)
AskedOnce == UseCache => \A w \in Walker : io[w] = "query" => Asked(w) \notin Answered(w)

(***************************************************************************)
(* A result only grows while its call runs: a later hop neither drops nor  *)
(* reorders a step, nor clears what an earlier hop recorded in it.         *)
(***************************************************************************)
ChainGrows ==
  [][\A w \in Walker :
       LET old == res[w].chain
           new == res'[w].chain
       IN  /\ Len(old) <= Len(new)
           /\ \A i \in DOMAIN old : /\ new[i].zone = old[i].zone
                                    /\ new[i].signed = old[i].signed
                                    /\ old[i].sigs \subseteq new[i].sigs]_vars

-----------------------------------------------------------------------------
\* The walk as Validation sees it: the zone it stands in is cur from the time
\* its keys are authenticated until the hop or the call is over.
outcomeOf(w) ==
  IF phase[w] # "done" THEN "running" ELSE IF res[w].err # "nil" THEN "error" ELSE res[w].verdict

Walking  == [w \in Walker |-> phase[w] \notin {"hop", "done"}]
Standing == [w \in Walker |-> IF phase[w] \in {"hop", "root", "done"} THEN None ELSE cur[w]]
Outcomes == [w \in Walker |-> outcomeOf(w)]

Promise == INSTANCE Validation WITH
  name <- qname, walked <- seen, hops <- hop,
  walking <- Walking, standing <- Standing, outcome <- Outcomes

(***************************************************************************)
(* The walk, with its queries, its cache and its failures, implements what *)
(* Validation allows: no name walked twice, zones entered downwards from   *)
(* the root on every hop, verdicts and redirects only from inside a zone.  *)
(* (Verifier.Validate)                                                     *)
(***************************************************************************)
ImplementsValidation == Promise!Spec

(***************************************************************************)
(* Every call returns, whatever the aliases, the faults and the other      *)
(* calls do.  (Verifier.Validate's loops)                                  *)
(***************************************************************************)
CallsReturn == Promise!Returns
=============================================================================
