----------------------------- MODULE Reference -----------------------------
(***************************************************************************)
(* What is true of a name, read off the zones before they are signed: the  *)
(* definitions the verdicts of the walk are compared with.  No signature,  *)
(* no denial record and no store takes part.  A publication is a set of    *)
(* zones as Authority takes them.                                          *)
(***************************************************************************)
EXTENDS Authority

zoneSigned(z) == z.ksk \cup z.zsk # {}

\* The signed zone that is authoritative for name, above any cut at or
\* above it that is not a signed delegation.
signedZoneOf(zones, name) ==
  CHOOSE z \in zones :
    /\ zoneSigned(z) /\ isAtOrBelow(name, z.apex)
    /\ \A y \in zones : zoneSigned(y) /\ isAtOrBelow(name, y.apex) => Len(y.apex) <= Len(z.apex)

\* A delegation without DS; with opt-out, also a name the chain skips.
unsignedBelow(zones, name) ==
  \E z \in zones :
    /\ zoneSigned(z)
    /\ isStrictSubdomain(name, z.apex)
    /\ ~isOccluded(z, name)
    /\ \/ isCut(z, name) /\ rrset(z, name, "DS") = {}
       \/ z.denial = "OptOut" /\ name \notin nsec3Names(z) /\ dnameAbove(z, name) = {}

\* The names at or above qname that put it outside the signed tree.
insecurePoints(zones, qname) == {a \in ancestorsOf(qname) : unsignedBelow(zones, a)}

zoneKeys(z) == {RR(z.apex, "DNSKEY", k) : k \in z.ksk \cup z.zsk}

\* The owner whose records answer for name in z: itself, or the wildcard
\* at its closest encloser.
sourceOf(z, name) ==
  IF exists(z, name) THEN name ELSE wildcardAt(closestEncloser(z, name))

\* The values z publishes for (name, type).
valuesAt(z, name, type) ==
  Vals({r \in z.rrs \cup zoneKeys(z) : r.name = sourceOf(z, name) /\ r.type = type})

\* What the zones say of (name, type): an answer, a redirect, or its kind
\* of absence.
lookup(zones, name, type) ==
  LET z == signedZoneOf(zones, name)
      d == IF exists(z, name) THEN {} ELSE dnameAbove(z, name)
  IN  IF insecurePoints(zones, name) # {} THEN [kind |-> "insecure"]
      ELSE IF d # {}
      THEN [kind |-> "redirect",
            target |-> synthesiseDNAMETarget(name, Longest(d),
                         CHOOSE v \in Vals(rrset(z, Longest(d), "DNAME")) : TRUE)]
      ELSE IF valuesAt(z, name, type) # {}
      THEN [kind |-> "secure", vals |-> valuesAt(z, name, type)]
      ELSE IF valuesAt(z, name, "CNAME") # {}
      THEN [kind |-> "redirect", target |-> CHOOSE v \in valuesAt(z, name, "CNAME") : TRUE]
      ELSE IF exists(z, name) \/ byName(z, sourceOf(z, name)) # {}
      THEN [kind |-> "secure-nodata"]
      ELSE [kind |-> "secure-nxdomain"]

\* The redirects from name on, followed at most n times: the outcome of
\* the last one.
outcome(zones, name, type, n) ==
  LET follow[k \in 0..n, at \in Name] ==
        LET here == lookup(zones, at, type)
        IN  IF here.kind = "redirect" /\ k > 0 THEN follow[k - 1, here.target] ELSE here
  IN  follow[n, name]
=============================================================================
