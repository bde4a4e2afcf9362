------------------------------ MODULE MCHonest ------------------------------
(***************************************************************************)
(* A name space that exercises every kind of answer, served without        *)
(* faults: three top-level zones with the same contents, one signed with   *)
(* NSEC, one with NSEC3 and one with NSEC3 and opt-out.                    *)
(***************************************************************************)
EXTENDS ChainTrust, Reference

Tlds == {1, 2, 3}

\* Injective, and unlike the canonical order of the names.
MCHash(name) ==
  LET digit(i) == IF i <= Len(name) THEN 1 + ((name[i] * 5) % 13) ELSE 0
  IN  100 + digit(1) + 14 * digit(2) + 196 * digit(3) + 2744 * digit(4) + 38416 * digit(5)

ksk(a) == <<"ksk", a>>
zsk(a) == <<"zsk", a>>

MCKey == {<<t, a>> : t \in {"ksk", "zsk"}, a \in {Root} \cup {<<t>> : t \in Tlds} \cup {<<t, 7>> : t \in Tlds}}

\* The two keys of a zone share a tag.
MCKeyTag(k) == Len(k[2])

Zone(apex, rrs, denial) ==
  [apex |-> apex, ksk |-> {ksk(apex)}, zsk |-> {zsk(apex)}, denial |-> denial,
   inc |-> 0, exp |-> 0,
   rrs |-> rrs \cup {RR(apex, "SOA", "soa"), RR(apex, "NS", "ns")}]

Unsigned(apex, rrs) == [Zone(apex, rrs, "none") EXCEPT !.ksk = {}, !.zsk = {}]

Delegation(child) == {RR(child, "NS", "ns"), RR(child, "DS", ksk(child))}

Denial3(t) == <<"NSEC", "NSEC3", "OptOut">>[t]

TldRecords(t) ==
  {RR(<<t, 1>>, "A", "a"), RR(<<t, 1>>, "A", "b"), RR(<<t, 1>>, "MX", "m"),
   RR(<<t, 2>>, "CNAME", <<t, 3, 9>>),           \* to a wildcard answer
   RR(<<t, 3, Star>>, "A", "w"),                 \* 3 is an empty non-terminal
   RR(<<t, 4, Star>>, "CNAME", <<t, 1>>),
   RR(<<t, 5>>, "DNAME", <<(t % 3) + 1>>),       \* to the next top-level zone
   RR(<<t, 6, 1, 1>>, "A", "e"),
   RR(<<t, 8>>, "NS", "ns"), RR(<<t, 8, 1>>, "A", "glue")}
  \cup Delegation(<<t, 7>>)

Zones ==
  {Zone(Root, UNION {Delegation(<<t>>) : t \in Tlds}, "NSEC3")}
  \cup {Zone(<<t>>, TldRecords(t), Denial3(t)) : t \in Tlds}
  \cup {Zone(<<t, 7>>, {RR(<<t, 7, 1>>, "A", "z")}, Denial3(t)) : t \in Tlds}
  \cup {Unsigned(<<t, 8>>, {RR(<<t, 8, 1>>, "A", "u")}) : t \in Tlds}

Served == {Publish(z) : z \in Zones}

Leaves == {<< >>, <<1>>, <<1, 1>>, <<2>>, <<3>>, <<3, 9>>, <<3, 9, 9>>, <<4, 2>>, <<5>>,
           <<5, 1>>, <<5, 2>>, <<5, 5, 3, 9>>, <<5, 9>>, <<6>>, <<6, 1>>, <<6, 1, 1>>, <<6, 2>>,
           <<7>>, <<7, 1>>, <<7, 9>>, <<8>>, <<8, 1>>, <<9>>, <<9, 9>>, <<12>>}

\* Questions left aside: the DS of a signed delegation, which has a run of
\* its own (MCFaithful), and the CNAME of a name below a DNAME, which comes
\* back synthesised, without a signature, and is taken as the answer.
Aside(q) ==
  \/ q.type = "DS" /\ (Len(q.name) <= 1 \/ (Len(q.name) = 2 /\ q.name[2] = 7))
  \/ q.type = "CNAME" /\ Len(q.name) > 2 /\ q.name[2] = 5

Types == {"A", "CNAME", "DNSKEY", "DS", "MX"}

MCQuestion ==
  {q \in [name : {Root, <<9>>} \cup {<<t>> \o l : t \in Tlds, l \in Leaves}, type : Types] : ~Aside(q)}

MCAnchors == {ksk(Root)}

\* Every question that can come up on the way, with its answer.
Reachable ==
  UNION {ancestorsOf(n) : n \in {q.name : q \in MCQuestion} \cup {<<t, 5, 3, 9>> : t \in Tlds}}

MCAsk == [name : Reachable, type : Types]

Table == [q \in MCAsk |-> {Query(Served, q.name, q.type)}]

MCReply == <<Table>>
MCDamaged == <<[q \in MCAsk |-> {}]>>

MCRecord == UNION {UNION {a.rrs : a \in Table[q]} : q \in MCAsk}
MCSignature == UNION {UNION {a.sigs : a \in Table[q]} : q \in MCAsk}

MCZoneKey == {[zone |-> k[2], key |-> k] : k \in MCKey}

MCPublished ==
  UNION {{[name |-> r.name, type |-> r.type, vals |-> Vals(rrset(z, r.name, r.type))] :
            r \in z.rrs} : z \in Served}

\* The name the call was asked for: the first it walked.
AskedName(w) ==
  LET targets == {res[w].aliases[i].target : i \in DOMAIN res[w].aliases}
  IN  IF seen[w] \subseteq targets THEN qname[w] ELSE CHOOSE n \in seen[w] : n \notin targets

(***************************************************************************)
(* Served faithfully, every question gets the verdict and the answer its   *)
(* zones call for, through NSEC and NSEC3 denials, wildcards, empty        *)
(* non-terminals, redirects, referrals and opt-out: what SignZone writes   *)
(* and memory.Authority answers is what Validate's proofs ask for.         *)
(***************************************************************************)
VerdictIsReference ==
  \A w \in Walker : phase[w] = "done" =>
    LET want == outcome(Zones, AskedName(w), qtype[w], MaxAliasHops)
    IN  /\ res[w].verdict = want.kind
        /\ want.kind = "secure" => Vals(res[w].answer) = want.vals
=============================================================================
