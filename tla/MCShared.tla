------------------------------ MODULE MCShared ------------------------------
(***************************************************************************)
(* Two Validate calls share a cache while the zones are published a second *)
(* time (a root key rolled, records changed, a delegation dropped), the    *)
(* first publication's signatures run out, and an answer may be refused,   *)
(* empty, stripped of signatures, partial, or come from a secondary that   *)
(* was provisioned with the wrong keys.                                    *)
(***************************************************************************)
EXTENDS ChainTrust, Reference, TLC

\* The two calls are interchangeable.
Symmetry == Permutations(Walker)

Tld == <<1>>

MCHash(name) == 0

MCKey == {"rootk", "rootz1", "rootz2", "tldk", "tldz", "altk", "altz"}

\* The ZSKs of the top-level zone and of its secondary share a tag, and so
\* do the KSKs.
MCKeyTag(k) == CASE k \in {"tldk", "altk"} -> 1
                 [] k \in {"tldz", "altz"} -> 2
                 [] k = "rootk" -> 3
                 [] k = "rootz1" -> 4
                 [] k = "rootz2" -> 5

Zone(apex, ksk, zsk, exp, rrs) ==
  [apex |-> apex, ksk |-> {ksk}, zsk |-> {zsk}, denial |-> "NSEC", inc |-> 0, exp |-> exp,
   rrs |-> rrs \cup {RR(apex, "SOA", "soa"), RR(apex, "NS", "ns")}]

RootZone(zsk, exp) ==
  Zone(Root, "rootk", zsk, exp, {RR(Tld, "NS", "ns"), RR(Tld, "DS", "tldk")})

\* The publications.
Zones == <<
  {RootZone("rootz1", 0),
   Zone(Tld, "tldk", "tldz", 0,
        {RR(<<1, 1>>, "A", "old"), RR(<<1, 1>>, "A", "both"), RR(<<1, 2>>, "A", "x"),
         RR(<<1, 3>>, "NS", "ns")})},
  {RootZone("rootz2", 1),
   Zone(Tld, "tldk", "tldz", 1,
        {RR(<<1, 1>>, "A", "new"), RR(<<1, 1>>, "A", "both"), RR(<<1, 4>>, "A", "y")})} >>

\* The secondary signs with keys of its own, and serves them with the
\* zone's in one rrset.
AltZone ==
  [Zone(Tld, "altk", "altz", 1, {RR(<<1, 1>>, "A", "alt"), RR(<<1, 2>>, "NS", "ns")})
     EXCEPT !.rrs = @ \cup {RR(Tld, "DNSKEY", "tldk"), RR(Tld, "DNSKEY", "tldz")}]

Served == [v \in 1..2 |-> {Publish(z) : z \in Zones[v]}]

Alt == Publish(AltZone)

MCQuestion == {[name |-> <<1, 1>>, type |-> "A"], [name |-> <<1, 2>>, type |-> "A"],
               [name |-> <<1, 3>>, type |-> "A"]}

\* A zone's own keys.
KeyQuestion == {[name |-> Tld, type |-> "DNSKEY"]}

MCAsk == {[name |-> Root, type |-> "DNSKEY"], [name |-> Tld, type |-> "DNSKEY"],
          [name |-> Tld, type |-> "DS"]}
         \cup {[name |-> q.name, type |-> t] : q \in MCQuestion, t \in {"A", "DS"}}

MCReply == [v \in 1..2 |-> [q \in MCAsk |-> {Query(Served[v], q.name, q.type)}]]

\* An answer of the secondary, its DNSKEYs thrown in.
AltAnswer(q) ==
  LET a == Query({Alt}, q.name, q.type)
      k == Query({Alt}, Tld, "DNSKEY")
  IN  [a EXCEPT !.rrs = @ \cup k.rrs, !.sigs = @ \cup k.sigs]

Damage(q, a) ==
  {[a EXCEPT !.rcode = 5], [a EXCEPT !.rrs = {}, !.sigs = {}], [a EXCEPT !.sigs = {}]}
  \cup {[a EXCEPT !.rrs = @ \ {r}] : r \in {r \in a.rrs : r.type = "A" /\ r.val = "both"}}
  \cup (IF isAtOrBelow(q.name, Tld) /\ q # [name |-> Tld, type |-> "DS"] THEN {AltAnswer(q)} ELSE {})

MCDamaged == [v \in 1..2 |-> [q \in MCAsk |-> UNION {Damage(q, a) : a \in MCReply[v][q]}]]

\* All answers are cut from these zones.
AllZones == Served[1] \cup Served[2] \cup {Alt}

MCRecord == UNION {z.rrs : z \in AllZones}
MCSignature == UNION {z.sigs : z \in AllZones}

MCAnchors == {"rootk"}

MCZoneKey == {[zone |-> Root, key |-> k] : k \in {"rootk", "rootz1", "rootz2"}}
             \cup {[zone |-> Tld, key |-> k] : k \in {"tldk", "tldz"}}

MCPublished ==
  UNION {UNION {{[name |-> r.name, type |-> r.type, vals |-> Vals(rrset(z, r.name, r.type))] :
                   r \in z.rrs} : z \in Served[v]} : v \in 1..2}

-----------------------------------------------------------------------------
\* The kinds of outcome the publications so far call for.
Truth(w) == {lookup(Zones[v], qname[w], qtype[w]).kind : v \in 1..world}

(***************************************************************************)
(* A verdict that says something is not there was true in a publication of *)
(* the zones: no mixture of old and new denial records, no empty, stripped *)
(* or foreign answer passes for a proof of absence.  The one exception is  *)
(* the parent's NSEC at an unsigned delegation, which passes for NODATA    *)
(* when the answer to the DS probe was lost (MCFaithful states that case). *)
(* (proveNoDS, proveNoData, proveNXDomain over the store of one walk)      *)
(***************************************************************************)
AbsenceWasTrue ==
  \A w \in Walker :
    /\ res[w].verdict \in {"insecure", "secure-nxdomain"} => res[w].verdict \in Truth(w)
    /\ res[w].verdict = "secure-nodata" => {"secure-nodata", "insecure"} \cap Truth(w) # {}

(***************************************************************************)
(* A Secure answer to a DNSKEY question, too, is the zone's published      *)
(* rrset.  The code breaks it: the leaf query brings the keys it answers   *)
(* with into the store whose keys then check them in KeyModeNone, so the   *)
(* keys of the wrongly provisioned secondary vouch for themselves, with no *)
(* DS that digests them.  (resolveLeaf, applyRecords)                      *)
(***************************************************************************)
SecureKeysPublished ==
  \A w \in Walker :
    res[w].verdict = "secure" /\ qtype[w] = "DNSKEY" =>
      IsPublished(qname[w], "DNSKEY", res[w].answer)
=============================================================================
