------------------------------ MODULE MCAlias ------------------------------
(***************************************************************************)
(* Redirects: a chain of CNAMEs across zones, a CNAME loop, a CNAME at a   *)
(* wildcard, a DNAME that leads below itself (every hop a longer name),    *)
(* and redirects into a signed zone, an unsigned one, one whose DS digests *)
(* another key, and two signed with an algorithm this build cannot verify. *)
(* Without cache; answers may be lost or damaged, or the context may end   *)
(* at any point.                                                           *)
(***************************************************************************)
EXTENDS ChainTrust, Authority

MCHash(name) == 0

ksk(a) == <<"ksk", a>>
zsk(a) == <<"zsk", a>>

Main == <<1>>          \* holds the aliases
Other == <<2>>         \* signed
NoDSZone == <<3>>      \* unsigned
WrongDS == <<4>>       \* its DS digests a key it does not have
OddZSK == <<5>>        \* unsupported ZSK
OddKSK == <<6>>        \* unsupported KSK

Apexes == {Root, Main, Other, WrongDS, OddZSK, OddKSK}

MCKey == {<<t, a>> : t \in {"ksk", "zsk"}, a \in Apexes} \cup {<<"old", WrongDS>>}

MCUnsupported == {zsk(OddZSK), ksk(OddKSK)}

MCKeyTag(k) == (IF k[1] = "ksk" THEN 1 ELSE 2) + (IF k \in MCUnsupported THEN 2 ELSE 0)

Zone(apex, rrs) ==
  [apex |-> apex, ksk |-> {ksk(apex)}, zsk |-> {zsk(apex)}, denial |-> "NSEC", inc |-> 0, exp |-> 0,
   rrs |-> rrs \cup {RR(apex, "SOA", "soa"), RR(apex, "NS", "ns")}]

Delegation(child, key) == {RR(child, "NS", "ns"), RR(child, "DS", key)}

Host(apex) == apex \o <<1>>

Zones ==
  {Zone(Root, UNION {Delegation(a, ksk(a)) : a \in Apexes \ {Root, WrongDS}}
              \cup Delegation(WrongDS, <<"old", WrongDS>>)
              \cup {RR(NoDSZone, "NS", "ns")}),
   [Zone(NoDSZone, {RR(Host(NoDSZone), "A", "a")}) EXCEPT !.ksk = {}, !.zsk = {}]}
  \cup {Zone(a, {RR(Host(a), "A", "a")}) : a \in {WrongDS, OddZSK, OddKSK}}
  \cup {Zone(Other, {RR(Host(Other), "A", "a"), RR(wildcardAt(Other), "CNAME", Host(NoDSZone))})}
  \cup {Zone(Main,
         {RR(<<1, 1>>, "CNAME", <<1, 2>>), RR(<<1, 2>>, "CNAME", Host(Other)),
          RR(<<1, 3>>, "CNAME", <<1, 4>>), RR(<<1, 4>>, "CNAME", <<1, 3>>),
          RR(<<1, 5>>, "DNAME", <<1, 5, 5>>),
          RR(<<1, 6>>, "CNAME", <<9>>), RR(<<1, 7>>, "DNAME", NoDSZone),
          RR(<<1, 8>>, "DNAME", WrongDS), RR(<<1, 9>>, "DNAME", OddZSK),
          RR(<<1, 10>>, "DNAME", OddKSK)})}

Served == {Publish(z) : z \in Zones}

MCQuestion ==
  [name : {<<1, 1>>, <<1, 3>>, <<1, 5, 1>>, <<1, 6>>, <<1, 7, 1>>, <<1, 8, 1>>, <<1, 9, 1>>, <<1, 10, 1>>,
           <<2, 5>>},
   type : {"A"}]

\* The names a call can come to: the ones asked, with everything above.
Targets == {<<1, 2>>, <<1, 4>>, <<9>>, <<1, 5, 5, 1>>, <<1, 5, 5, 5, 1>>, <<1, 5, 5, 5, 5, 1>>}
           \cup {Host(a) : a \in {Other, NoDSZone, WrongDS, OddZSK, OddKSK}}

MCAsk == [name : UNION {ancestorsOf(n) : n \in Targets \cup {q.name : q \in MCQuestion}},
          type : {"A", "DS", "DNSKEY"}]

Table == [q \in MCAsk |-> {Query(Served, q.name, q.type)}]

MCReply == <<Table>>

Retargeted(r) == IF r.type \in {"CNAME", "DNAME"} THEN [r EXCEPT !.val = <<9>>] ELSE r

\* An answer lost on the way, stripped of its signatures, or with aliases
\* that lead elsewhere.
Damage == [q \in MCAsk |->
  UNION {{[a EXCEPT !.rrs = {}, !.sigs = {}], [a EXCEPT !.sigs = {}],
          [a EXCEPT !.rrs = {Retargeted(r) : r \in @}]} : a \in Table[q]}]

MCDamaged == <<Damage>>

Universe == <<UNION {UNION {a.rrs : a \in Table[q] \cup Damage[q]} : q \in MCAsk},
              UNION {UNION {a.sigs : a \in Table[q]} : q \in MCAsk}>>
MCRecord == Universe[1]
MCSignature == Universe[2]

MCAnchors == {ksk(Root)}

MCZoneKey == {[zone |-> k[2], key |-> k] : k \in MCKey}

MCPublished ==
  UNION {{[name |-> r.name, type |-> r.type, vals |-> Vals(rrset(z, r.name, r.type))] :
            r \in z.rrs} : z \in Served}
=============================================================================
