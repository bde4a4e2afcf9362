----------------------------- MODULE MCFaithful -----------------------------
(***************************************************************************)
(* One call over zones signed by SignZone and served by memory.Authority   *)
(* as they are (in one run, less one answer), on the questions for which   *)
(* the code and what verdict.go says of its verdicts part ways.            *)
(***************************************************************************)
EXTENDS ChainTrust, Reference

MCHash(name) == 0

ksk(a) == <<"ksk", a>>
zsk(a) == <<"zsk", a>>

Apexes == {Root, <<1>>, <<1, 7>>}

MCKey == {<<t, a>> : t \in {"ksk", "zsk"}, a \in Apexes}

MCKeyTag(k) == Len(k[2])

Zone(apex, rrs) ==
  [apex |-> apex, ksk |-> {ksk(apex)}, zsk |-> {zsk(apex)}, denial |-> "NSEC", inc |-> 0, exp |-> 0,
   rrs |-> rrs \cup {RR(apex, "SOA", "soa"), RR(apex, "NS", "ns")}]

Delegation(child) == {RR(child, "NS", "ns"), RR(child, "DS", ksk(child))}

Zones ==
  {Zone(Root, Delegation(<<1>>)),
   Zone(<<1>>, {RR(<<1, 1>>, "A", "a"), RR(<<1, 2>>, "CNAME", <<1, 7, 2>>),
                RR(<<1, 8>>, "NS", "ns")}
               \cup Delegation(<<1, 7>>)),
   Zone(<<1, 7>>, {RR(<<1, 7, 1>>, "A", "z"), RR(<<1, 7, 2>>, "CNAME", <<1, 1>>)})}

Served == {Publish(z) : z \in Zones}

MCAsk == [name : UNION {ancestorsOf(n) : n \in {<<1, 1>>, <<1, 2>>, <<1, 7, 2>>,
                                                 <<1, 8>>, <<9>>}},
          type : {"A", "DS", "DNSKEY"}]

Table == [q \in MCAsk |-> {Query(Served, q.name, q.type)}]

MCReply == <<Table>>

\* The only faults: an answer returned empty, or stripped of its signatures.
Lost == [q \in MCAsk |->
  UNION {{[a EXCEPT !.rrs = {}, !.sigs = {}], [a EXCEPT !.sigs = {}]} : a \in Table[q]}]

MCDamaged == <<Lost>>

MCRecord == UNION {UNION {a.rrs : a \in Table[q]} : q \in MCAsk}
MCSignature == UNION {UNION {a.sigs : a \in Table[q]} : q \in MCAsk}

MCAnchors == {ksk(Root)}

MCZoneKey == {[zone |-> k[2], key |-> k] : k \in MCKey}

MCPublished ==
  UNION {{[name |-> r.name, type |-> r.type, vals |-> Vals(rrset(z, r.name, r.type))] :
            r \in z.rrs} : z \in Served}

MissingTld   == {[name |-> <<9>>, type |-> "A"]}
SignedCut    == {[name |-> <<1, 7>>, type |-> "DS"]}
UnsignedCut  == {[name |-> <<1, 8>>, type |-> "A"]}

\* The two that go wrong without any fault; each does so by itself.
Faithful == MissingTld \cup SignedCut

Returned(w) == phase[w] = "done" /\ res[w].err = "nil"

(***************************************************************************)
(* What the zones' owners signed, served as it is within its validity      *)
(* window, gets the verdict verdict.go defines for it.  A name that does   *)
(* not exist in a signed zone, with the NSECs for it and for the wildcard  *)
(* in the answer, is SecureNXDomain; and nothing is Bogus, which says that *)
(* signatures or links failed.  The first does not hold right below the    *)
(* root (closestEncloserNSEC), the second not for the DS of a signed       *)
(* delegation (resolveLeaf).                                               *)
(***************************************************************************)
FaithfulIsVouchedFor ==
  \A w \in Walker : Returned(w) =>
    /\ lookup(Zones, qname[w], qtype[w]).kind = "secure-nxdomain" => res[w].verdict = "secure-nxdomain"
    /\ res[w].verdict # "bogus"

(***************************************************************************)
(* SecureNoData is said of names the signed zone is authoritative for: it  *)
(* exists there and the type does not.                                     *)
(***************************************************************************)
NoDataWasTrue ==
  \A w \in Walker :
    res[w].verdict = "secure-nodata" => lookup(Zones, qname[w], qtype[w]).kind = "secure-nodata"
=============================================================================
