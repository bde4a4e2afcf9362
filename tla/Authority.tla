----------------------------- MODULE Authority -----------------------------
(***************************************************************************)
(* The publishing side: signer.SignZone, which turns a zone's records into *)
(* a signed zone with its NSEC or NSEC3 chain, and memory.Authority, which *)
(* answers queries from a set of such zones.                               *)
(*                                                                         *)
(* A zone to sign is [apex, rrs, ksk, zsk, denial, inc, exp]: the records  *)
(* it was loaded with, its KSKs and ZSKs, the chain asked for ("NSEC",     *)
(* "NSEC3", or "OptOut" for NSEC3 with opt-out) and the validity window.   *)
(* A zone without keys is published as it is.  A published zone is         *)
(* [apex, rrs, sigs].                                                      *)
(***************************************************************************)
EXTENDS SigCheck

-----------------------------------------------------------------------------
\* SignZone.

Generated == {"NSEC", "NSEC3", "NSEC3PARAM"}

owners(rrs) == {r.name : r \in {r \in rrs : r.type \notin Generated}}

typesAt(rrs, name) == {r.type : r \in {r \in rrs : r.name = name}}

cuts(apex, rrs) == {r.name : r \in {r \in rrs : r.type = "NS" /\ r.name # apex}}

isCut(z, name) == name \in cuts(z.apex, z.rrs)

\* Below a delegation point: glue, not authoritative.
isOccluded(z, name) == \E c \in cuts(z.apex, z.rrs) : isStrictSubdomain(name, c)

authoritative(z) == {o \in owners(z.rrs) : ~isOccluded(z, o)}

\* What a denial bitmap lists: at a delegation point only NS and DS.
chainTypes(z, owner) ==
  LET present == typesAt(z.rrs, owner)
  IN  IF isCut(z, owner) THEN present \cap {"NS", "DS"} ELSE present

\* The owner after this one in canonical order, the apex after the last.
nextOwner(z, owner) ==
  LET later == {o \in authoritative(z) : CanonicalLess(owner, o)}
  IN  IF later = {} THEN z.apex
      ELSE CHOOSE o \in later : \A p \in later : p = o \/ CanonicalLess(o, p)

BuildNSEC(z) ==
  {RR(o, "NSEC", [next |-> nextOwner(z, o),
                  types |-> chainTypes(z, o) \cup {"RRSIG", "NSEC"}]) :
     o \in authoritative(z)}

isSigned(z, owner) == ~isCut(z, owner) \/ "DS" \in typesAt(z.rrs, owner)

\* The names that get an NSEC3: the owners, less the unsigned delegations
\* with opt-out, and the empty non-terminals above them.
nsec3Names(z) ==
  LET listed == {o \in authoritative(z) : z.denial = "OptOut" => isSigned(z, o)}
      above  == UNION {properAncestors(o) : o \in listed}
  IN  listed \cup {n \in above : isStrictSubdomain(n, z.apex) /\ n \notin owners(z.rrs)}

nsec3Bitmap(z, name) ==
  IF name \notin owners(z.rrs) THEN {}
  ELSE chainTypes(z, name)
         \cup (IF isSigned(z, name) THEN {"RRSIG"} ELSE {})
         \cup (IF name = z.apex THEN {"NSEC3PARAM"} ELSE {})

nsec3Owner(z, name) == Append(z.apex, Hash(name))

\* The hash after this one, the smallest after the largest.
nextHash(hashes, h) ==
  LET later == {g \in hashes : h < g}
      least(s) == CHOOSE g \in s : \A k \in s : g <= k
  IN  IF later = {} THEN least(hashes) ELSE least(later)

BuildNSEC3(z) ==
  LET hashes == {Hash(n) : n \in nsec3Names(z)}
  IN  {RR(nsec3Owner(z, n), "NSEC3",
          [next |-> nextHash(hashes, Hash(n)), optout |-> z.denial = "OptOut",
           types |-> nsec3Bitmap(z, n)]) : n \in nsec3Names(z)}
        \cup {RR(z.apex, "NSEC3PARAM", "param")}

buildChain(z) == IF z.denial = "NSEC" THEN BuildNSEC(z) ELSE BuildNSEC3(z)

copyUnsigned(z) == [z EXCEPT !.rrs = {r \in z.rrs : r.type \notin Generated}]

addDNSKEYs(z) ==
  [z EXCEPT !.rrs = @ \cup {RR(z.apex, "DNSKEY", k) : k \in z.ksk \cup z.zsk}]

\* The KSKs sign the DNSKEY rrset and the ZSKs the rest; with keys of one
\* kind only, all of them sign everything.
splitKeys(z, type) ==
  IF z.ksk = {} \/ z.zsk = {} THEN z.ksk \cup z.zsk
  ELSE IF type = "DNSKEY" THEN z.ksk ELSE z.zsk

\* The label count without a leading wildcard.
rrsigLabels(owner) == IF IsWildcard(owner) THEN Len(owner) - 1 ELSE Len(owner)

\* The RRSIGs over (owner, type), the digest taken as CreateDigestTarget does.
signRRset(z, owner, type) ==
  {RRSIG(owner, type, z.apex, k, rrsigLabels(owner), owner,
         Vals(FindRRSet(z, owner, type)), z.inc, z.exp) : k \in splitKeys(z, type)}

\* At a delegation point only DS and NSEC are signed, below it nothing.
signRRsets(z) ==
  UNION {signRRset(z, r.name, r.type) :
           r \in {r \in z.rrs : /\ ~isOccluded(z, r.name)
                                /\ isCut(z, r.name) => r.type \in {"DS", "NSEC"}}}

SignZone(z) ==
  LET keyed   == addDNSKEYs(copyUnsigned(z))
      chained == [keyed EXCEPT !.rrs = @ \cup buildChain(keyed)]
  IN  [apex |-> z.apex, rrs |-> chained.rrs, sigs |-> signRRsets(chained)]

Publish(z) ==
  IF z.ksk \cup z.zsk = {} THEN [apex |-> z.apex, rrs |-> z.rrs, sigs |-> {}]
                           ELSE SignZone(z)

-----------------------------------------------------------------------------
\* The index of a published zone.

byName(z, name) == {r \in z.rrs : r.name = name}

rrset(z, name, type) == {r \in byName(z, name) : r.type = type}

\* Owners and their ancestors down to the apex.
exists(z, name) ==
  isAtOrBelow(name, z.apex) /\ \E r \in z.rrs : isAtOrBelow(r.name, name)

cutAbove(z, name) == {c \in cuts(z.apex, z.rrs) : isAtOrBelow(name, c)}

closestEncloser(z, name) == Longest({a \in ancestorsOf(name) : exists(z, a)})

dnameAbove(z, name) ==
  {a \in properAncestors(name) : isAtOrBelow(a, z.apex) /\ rrset(z, a, "DNAME") # {}}

usesNSEC3(z) == \E r \in z.rrs : r.type = "NSEC3"

\* A section is a set of [name, type]: the rrsets, each with its RRSIGs.
section(name, type) == {[name |-> name, type |-> type]}

withSigs(z, sec) ==
  [rrs  |-> UNION {rrset(z, k.name, k.type) : k \in sec},
   sigs |-> UNION {{s \in z.sigs : s.name = k.name /\ s.type = k.type} : k \in sec}]

response(z, rcode, sec) ==
  [rcode |-> rcode, rrs |-> withSigs(z, sec).rrs, sigs |-> withSigs(z, sec).sigs]

covering(z, name) ==
  IF usesNSEC3(z)
  THEN UNION {section(r.name, "NSEC3") :
                r \in {r \in z.rrs : r.type = "NSEC3" /\ CoversHash(r, Hash(name))}}
  ELSE UNION {section(r.name, "NSEC") :
                r \in {r \in z.rrs : r.type = "NSEC" /\ CoversName(r, name)}}

matching(z, name) ==
  {r \in z.rrs : r.type = "NSEC3" /\ OwnerHashFromName(r) = Hash(name)}

nsec3At(z, name) == UNION {section(r.name, "NSEC3") : r \in matching(z, name)}

\* The closest ancestor with an NSEC3, the apex failing that.
provableEncloser(z, name) ==
  LET listed == {a \in properAncestors(name) : isAtOrBelow(a, z.apex) /\ matching(z, a) # {}}
  IN  IF listed = {} THEN z.apex ELSE Longest(listed)

closestEncloserProof(z, name) ==
  LET ce == provableEncloser(z, name)
  IN  IF matching(z, ce) = {} \/ name = z.apex THEN {}
      ELSE nsec3At(z, ce) \cup covering(z, nextCloserName(name, ce))

noDataProof(z, name) ==
  IF usesNSEC3(z)
  THEN IF matching(z, name) # {} THEN nsec3At(z, name) ELSE closestEncloserProof(z, name)
  ELSE IF rrset(z, name, "NSEC") # {} THEN section(name, "NSEC") ELSE covering(z, name)

nxDomainProof(z, name, ce) ==
  IF usesNSEC3(z)
  THEN closestEncloserProof(z, name) \cup covering(z, wildcardAt(provableEncloser(z, name)))
  ELSE covering(z, name) \cup covering(z, wildcardAt(ce))

nextCloserProof(z, name, ce) == covering(z, nextCloserName(name, ce))

encloserProof(z, ce) == IF usesNSEC3(z) THEN nsec3At(z, ce) ELSE {}

-----------------------------------------------------------------------------
\* The answers.

\* A wildcard's rrset under the name asked for.
copyAs(answer, name) ==
  [rrs  |-> {[r EXCEPT !.name = name] : r \in answer.rrs},
   sigs |-> {[s EXCEPT !.name = name] : s \in answer.sigs}]

referral(z, cut) ==
  response(z, 0, section(cut, "NS") \cup
                 IF rrset(z, cut, "DS") # {} THEN section(cut, "DS") ELSE noDataProof(z, cut))

\* The type that answers at a name: the one asked, a CNAME, or none.
answeringType(z, name, qtype) ==
  IF rrset(z, name, qtype) # {} THEN qtype
  ELSE IF rrset(z, name, "CNAME") # {} THEN "CNAME"
  ELSE "none"

existing(z, name, qtype) ==
  LET type == answeringType(z, name, qtype)
  IN  response(z, 0, IF type = "none" THEN noDataProof(z, name) ELSE section(name, type))

\* The DNAME, and the unsigned CNAME made from it.
dnameAnswer(z, name, owner) ==
  LET resp   == response(z, 0, section(owner, "DNAME"))
      target == CHOOSE v \in Vals(rrset(z, owner, "DNAME")) : TRUE
  IN  [resp EXCEPT !.rrs = @ \cup
         {RR(name, "CNAME", synthesiseDNAMETarget(name, owner, target))}]

missing(z, name, qtype) ==
  LET ce       == closestEncloser(z, name)
      wildcard == wildcardAt(ce)
      type     == answeringType(z, wildcard, qtype)
      proof    == nextCloserProof(z, name, ce)
      answer   == copyAs(withSigs(z, section(wildcard, type)), name)
  IN  IF byName(z, wildcard) = {} THEN response(z, 3, nxDomainProof(z, name, ce))
      ELSE IF type = "none"
      THEN response(z, 0, encloserProof(z, ce) \cup proof \cup noDataProof(z, wildcard))
      ELSE [rcode |-> 0, rrs |-> answer.rrs \cup withSigs(z, proof).rrs,
            sigs |-> answer.sigs \cup withSigs(z, proof).sigs]

answer(z, name, qtype) ==
  LET cs == cutAbove(z, name)
      cut == CHOOSE c \in cs : \A d \in cs : Len(c) <= Len(d)
      ds == dnameAbove(z, name)
  IN  IF cs # {} /\ ~(qtype = "DS" /\ name = cut) THEN referral(z, cut)
      ELSE IF byName(z, name) # {} THEN existing(z, name, qtype)
      ELSE IF exists(z, name) THEN response(z, 0, noDataProof(z, name))
      ELSE IF ds # {} THEN dnameAnswer(z, name, Longest(ds))
      ELSE missing(z, name, qtype)

\* The deepest zone with the name; a DS at an apex is the parent's.
zonesFor(zones, name, qtype) ==
  {z \in zones : /\ isAtOrBelow(name, z.apex)
                 /\ ~(qtype = "DS" /\ name = z.apex /\ name # Root)}

Query(zones, name, qtype) ==
  LET zs == zonesFor(zones, name, qtype)
      z  == CHOOSE y \in zs : \A x \in zs : Len(x.apex) <= Len(y.apex)
  IN  IF zs = {} THEN [rcode |-> 5, rrs |-> {}, sigs |-> {}] ELSE answer(z, name, qtype)
=============================================================================
