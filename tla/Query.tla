------------------------------- MODULE Query -------------------------------
(***************************************************************************)
(* The messages the wire package writes: the query with its OPT record     *)
(* (BuildQueryWithOptions), and OPT records on their own, written and read *)
(* (EDNS.Encode, DecodeOPT).  The TTL field of OPT is kept as its parts.   *)
(***************************************************************************)
EXTENDS Octets

\* Mutant: a name is sent as it is given.
ensureFQDNAsIs(t) == t

ensureFQDN(t) == IF t = << >> \/ Last(t) # Dot THEN Append(t, Dot) ELSE t

optType == 41
udpPayloadSize == 4096

\* RD, and CD in the second octet.
flags(checkingDisabled) == <<1, IF checkingDisabled THEN 16 ELSE 0>>

BuildQueryWithOptions(id, qname, qtype, checkingDisabled) ==
  {AppendUint16(id) \o flags(checkingDisabled)
     \o FlattenSeq([i \in 1..4 |-> AppendUint16(<<1, 0, 0, 1>>[i])])
     \o nameWire \o AppendUint16(qtype) \o AppendUint16(1)
     \o <<0>> \o AppendUint16(optType) \o AppendUint16(udpPayloadSize) \o <<0, 0, 128, 0>> \o AppendUint16(0) :
   nameWire \in DomainNameToWire(ensureFQDN(qname))}

-----------------------------------------------------------------------------
\* EDNS.  Options are pairs [code, data].

optTTL(e) == <<e.rcode, e.version, (IF e.do THEN 128 ELSE 0) + (e.z % 32768) \div 256, e.z % 256>>

Encode(e) ==
  LET opts == FlattenSeq([i \in DOMAIN e.opts |->
                AppendUint16(e.opts[i].code) \o AppendUint16(Len(e.opts[i].data)) \o e.opts[i].data])
  IN  <<0>> \o AppendUint16(optType) \o AppendUint16(IF e.udp = 0 THEN udpPayloadSize ELSE e.udp)
        \o optTTL(e) \o AppendUint16(Len(opts)) \o opts

\* The options from p: none when one overruns the end, or octets are left.
optionsFrom(data, p, end) ==
  LET from[q \in Nat] ==
        IF q = end THEN {<< >>}
        ELSE IF q + 4 > end \/ q + 4 + u16(data, q + 2) > end THEN {}
        ELSE {<<[code |-> u16(data, q), data |-> slice(data, q + 4, q + 4 + u16(data, q + 2))]>> \o r :
                r \in from[q + 4 + u16(data, q + 2)]}
  IN  from[p]

\* From the TYPE field on.
DecodeOPT(data) ==
  IF Len(data) < 10 \/ u16(data, 0) # optType \/ 10 + u16(data, 8) > Len(data) THEN {}
  ELSE {[udp |-> u16(data, 2), rcode |-> u8(data, 4), version |-> u8(data, 5), do |-> u8(data, 6) >= 128,
         z |-> u16(data, 6) % 32768, opts |-> opts] : opts \in optionsFrom(data, 10, 10 + u16(data, 8))}
=============================================================================
