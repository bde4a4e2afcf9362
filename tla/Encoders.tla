------------------------------ MODULE Encoders ------------------------------
(***************************************************************************)
(* ResourceRecord.WireBody: a value as octets, after their length.  Either *)
(* a handler that a registry builds from the value writes them, or an      *)
(* encoder built into the zone package does, or they are the RDATA the     *)
(* record was received with.                                               *)
(*                                                                         *)
(* Handlers are records of the fields the code's structs have, with the    *)
(* struct's name under "of".  A record of fields is what a value parses    *)
(* to: the set of them is empty when it does not.                          *)
(***************************************************************************)
EXTENDS Presentation

CONSTANTS
  MaxUint32,  \* the largest number of 32 bits
  MaxString   \* octets of a character-string that is written

\* strconv: the number within b bits, or the error.
limit(b) == IF b = 32 THEN MaxUint32 ELSE 2^b - 1
ParseUint(f, b) == IF f.k = "num" /\ f.v \in 0..limit(b) THEN {f.v} ELSE {}

\* Mutant: a number is taken as it is written.
saturatedNot(f, b) == f.v

\* What ParseUint returns beside the error of a number out of range.
saturated(f, b) == IF f.v \in 0..limit(b) THEN f.v ELSE limit(b)

\* The results of several conversions, when all succeed.
all(S) == IF \E i \in DOMAIN S : S[i] = {} THEN {} ELSE {[i \in DOMAIN S |-> CHOOSE x \in S[i] : TRUE]}

rest(value, i) == SubSeq(value, i, Len(value))

numbers(value, n) == Len(value) >= n /\ \A i \in 1..n : value[i].k = "num"

\* The digits of the fields joined, as octets.
joined(fs, k, w) ==
  LET d == FlattenSeq([i \in DOMAIN fs |-> fs[i].v])
  IN  IF (\E i \in DOMAIN fs : fs[i].k # k) \/ (k = "hex" /\ Len(d) % 2 = 1) THEN {} ELSE {toOctets(d, w)}

hexDecode(fs) == joined(fs, "hex", 4)
base64Decode(fs) == joined(fs, "base64", 6)
base32HexDecode(f) == joined(<<f>>, "base32", 5)

ParseIP(f) ==
  CASE f.k = "ip4" -> {v4InV6 \o f.v} [] f.k = "ip6" -> {f.v} [] OTHER -> {}

\* rdlength and the octets it announces
body(rdlen, o) == AppendUint16(rdlen) \o o

counted(o) == AppendUint8(Len(o)) \o o

-----------------------------------------------------------------------------
\* Character-strings, with their escapes.

isDigit(c) == c \in 48..57

\* Mutant: any three digits are an octet.
escapedOctetAny(n) == {n}

escapedOctet(n) == IF n > 255 THEN {} ELSE {n}

\* Three digits are an octet, anything else stands for itself.
unescape(t) ==
  LET decimal(i) == (t[i] - 48) * 100 + (t[i + 1] - 48) * 10 + t[i + 2] - 48
      from[i \in 1..(Len(t) + 1)] ==
        IF i > Len(t) THEN {<< >>}
        ELSE IF t[i] # 92 \/ i = Len(t) THEN {<<t[i]>> \o r : r \in from[i + 1]}
        ELSE IF i + 3 <= Len(t) /\ \A j \in 1..3 : isDigit(t[i + j])
        THEN {<<o>> \o r : o \in escapedOctet(decimal(i + 1)), r \in from[i + 4]}
        ELSE {<<t[i + 1]>> \o r : r \in from[i + 2]}
  IN  from[1]

\* Quoted or bare, the escapes are the same.
parseTXTValue(value) == all([i \in DOMAIN value |-> unescape(value[i].v)])

\* A string broken where the length octet ends; an empty one is one chunk.
chunks(s) ==
  IF s = << >> THEN <<s>>
  ELSE [i \in 1..((Len(s) + MaxString - 1) \div MaxString) |->
          SubSeq(s, MaxString * (i - 1) + 1, Min({MaxString * i, Len(s)}))]

\* No string at all is written as an empty one.
writeWireTXT(value) ==
  {LET cs == IF strs = << >> THEN <<<< >>>> ELSE FlattenSeq([i \in DOMAIN strs |-> chunks(strs[i])])
   IN  body(MapThenSumSet(LAMBDA i : 1 + Len(cs[i]), DOMAIN cs), FlattenSeq([i \in DOMAIN cs |-> counted(cs[i])])) :
   strs \in parseTXTValue(value)}

-----------------------------------------------------------------------------
\* The other built-in encoders.  They read as many fields as they need, and
\* take a number out of range for the largest.

writeWireA(value) ==
  IF Len(value) # 1 THEN {} ELSE {body(4, v4) : v4 \in UNION {To4(ip) : ip \in ParseIP(value[1])}}

writeWireAAAA(value) ==
  IF value = << >> THEN {} ELSE {body(16, ip) : ip \in {ip \in ParseIP(value[1]) : To4(ip) = {}}}

writeWireSingleName(value) ==
  IF value = << >> THEN {} ELSE {body(Len(n), n) : n \in DomainNameToWire(value[1].v)}

writeWireSOA(value) ==
  IF Len(value) < 7 \/ ~numbers(rest(value, 3), 5) THEN {}
  ELSE {body(Len(m) + Len(r) + 4 * 5,
             m \o r \o FlattenSeq([i \in 1..5 |-> AppendUint32(saturated(value[i + 2], 32))])) :
          m \in DomainNameToWire(value[1].v), r \in DomainNameToWire(value[2].v)}

writeWireMX(value) ==
  IF ~numbers(value, 1) \/ Len(value) < 2 THEN {}
  ELSE {body(2 + Len(n), AppendUint16(saturated(value[1], 16)) \o n) : n \in DomainNameToWire(value[2].v)}

writeWireSRV(value) ==
  IF ~numbers(value, 3) \/ Len(value) < 4 THEN {}
  ELSE {body(6 + Len(n), FlattenSeq([i \in 1..3 |-> AppendUint16(saturated(value[i], 16))]) \o n) :
          n \in DomainNameToWire(value[4].v)}

writeWireCAA(value) ==
  IF ~numbers(value, 1) \/ Len(value) < 3 THEN {}
  ELSE LET tag == value[2].v
       IN  {body(2 + Len(tag) + Len(strs[1]), AppendUint8(saturated(value[1], 8)) \o counted(tag) \o strs[1]) :
              strs \in {s \in parseTXTValue(rest(value, 3)) : Len(s) = 1}}

-----------------------------------------------------------------------------
\* The handlers of the dnssec package.

RSAMD5 == 1

\* Mutant: the last octet of an odd number of them is left out.
calcKeyTagEven(flags, protocol, algorithm, kd) ==
  LET sum == flags + protocol * 256 + algorithm
             + MapThenSumSet(LAMBDA i : u16(kd, 2 * (i - 1)), 1..(Len(kd) \div 2))
  IN  (sum + (sum \div 65536)) % 65536

calcKeyTag(flags, protocol, algorithm, kd) ==
  IF algorithm = RSAMD5 THEN IF Len(kd) < 2 THEN 0 ELSE u16(kd, Len(kd) - 2)
  ELSE LET sum == flags + protocol * 256 + algorithm
                  + MapThenSumSet(LAMBDA i : u16(kd, 2 * (i - 1)), 1..(Len(kd) \div 2))
                  + (IF Len(kd) % 2 = 1 THEN Last(kd) * 256 ELSE 0)
       IN  (sum + (sum \div 65536)) % 65536

ParseDNSKey(value) ==
  IF Len(value) < 4 THEN {}
  ELSE {[of |-> "DNSKey", Flags |-> f, Protocol |-> p, Algorithm |-> a, KeyData |-> kd, KeyTag |-> calcKeyTag(f, p, a, kd)] :
          f \in ParseUint(value[1], 16), p \in ParseUint(value[2], 8), a \in ParseUint(value[3], 8),
          kd \in base64Decode(rest(value, 4))}

WireDNSKey(h) ==
  {body(4 + Len(h.KeyData), AppendUint16(h.Flags) \o AppendUint8(h.Protocol) \o AppendUint8(h.Algorithm) \o h.KeyData)}

ParseDS(value) ==
  IF Len(value) < 4 THEN {}
  ELSE {[of |-> "DS", KeyTag |-> t, Algorithm |-> a, DigestType |-> d, Digest |-> o] :
          t \in ParseUint(value[1], 16), a \in ParseUint(value[2], 8), d \in ParseUint(value[3], 8),
          o \in hexDecode(rest(value, 4))}

WireDS(h) ==
  {body(4 + Len(h.Digest), AppendUint16(h.KeyTag) \o AppendUint8(h.Algorithm) \o AppendUint8(h.DigestType) \o h.Digest)}

\* YYYYMMDDhhmmss or seconds; a date is the seconds it stands for.
parseDatetime(f) == IF f.k = "date" THEN {f.v} ELSE ParseUint(f, 32)

ParseRRSig(value) ==
  IF Len(value) < 9 THEN {}
  ELSE {[of |-> "RRSig", TypeCovered |-> value[1].v, Algorithm |-> a, Labels |-> l, OriginalTTL |-> ttl,
         Expire |-> x, Inception |-> i, KeyTag |-> t, Signer |-> value[8].v, Signature |-> sig] :
          a \in {n \in ParseUint(value[2], 8) : value[1].k = "type"}, l \in ParseUint(value[3], 8),
          ttl \in ParseUint(value[4], 32), x \in parseDatetime(value[5]), i \in parseDatetime(value[6]),
          t \in ParseUint(value[7], 16), sig \in base64Decode(rest(value, 9))}

RDataDigestTarget(h) ==
  {AppendUint16(h.TypeCovered) \o AppendUint8(h.Algorithm) \o AppendUint8(h.Labels) \o AppendUint32(h.OriginalTTL)
     \o AppendUint32(h.Expire) \o AppendUint32(h.Inception) \o AppendUint16(h.KeyTag) \o n :
     n \in DomainNameToWire(h.Signer)}

WireRRSig(h) == {body(Len(dt) + Len(h.Signature), dt \o h.Signature) : dt \in RDataDigestTarget(h)}

\* Fields that are no type are passed over.
coveredTypes(fs) == LET types == SelectSeq(fs, LAMBDA f : f.k = "type") IN [i \in DOMAIN types |-> types[i].v]

ParseNSEC(value) ==
  IF value = << >> THEN {}
  ELSE {[of |-> "NSEC", NextDomain |-> value[1].v, TypeBitmap |-> EncodeTypeBitmap(coveredTypes(rest(value, 2)))]}

\* Mutant: the next name is lowered like the names of other types.
WireNSECLower(h) == {body(Len(n) + Len(h.TypeBitmap), n \o h.TypeBitmap) : n \in DomainNameToWire(h.NextDomain)}

WireNSEC(h) ==
  {body(Len(n) + Len(h.TypeBitmap), n \o h.TypeBitmap) : n \in DomainNameToWirePreserveCase(h.NextDomain)}

parseSalt(f) == IF f = dash THEN {<< >>} ELSE hexDecode(<<f>>)

ParseNSEC3(value) ==
  IF Len(value) < 5 THEN {}
  ELSE {[of |-> "NSEC3", HashAlgorithm |-> a, Flags |-> f, Iterations |-> n, Salt |-> s, NextHashedOwner |-> o,
         TypeBitmap |-> EncodeTypeBitmap(coveredTypes(rest(value, 6)))] :
          a \in ParseUint(value[1], 8), f \in ParseUint(value[2], 8), n \in ParseUint(value[3], 16),
          s \in parseSalt(value[4]), o \in base32HexDecode(value[5])}

nsec3Octets(h) ==
  AppendUint8(h.HashAlgorithm) \o AppendUint8(h.Flags) \o AppendUint16(h.Iterations) \o counted(h.Salt)

WireNSEC3(h) ==
  {body(6 + Len(h.Salt) + Len(h.NextHashedOwner) + Len(h.TypeBitmap),
        nsec3Octets(h) \o counted(h.NextHashedOwner) \o h.TypeBitmap)}

ParseNSEC3Param(value) ==
  IF Len(value) < 4 THEN {}
  ELSE {[of |-> "NSEC3Param", HashAlgorithm |-> a, Flags |-> f, Iterations |-> n, Salt |-> s] :
          a \in ParseUint(value[1], 8), f \in ParseUint(value[2], 8), n \in ParseUint(value[3], 16),
          s \in parseSalt(value[4])}

WireNSEC3Param(h) == {body(5 + Len(h.Salt), nsec3Octets(h))}
-----------------------------------------------------------------------------
\* The handlers of the zone package.

ParseTLSA(value) ==
  IF Len(value) < 4 THEN {}
  ELSE {[of |-> "TLSA", Usage |-> u, Selector |-> s, MatchingType |-> t, CertificateAssociationData |-> o] :
          u \in ParseUint(value[1], 8), s \in ParseUint(value[2], 8), t \in ParseUint(value[3], 8),
          o \in hexDecode(rest(value, 4))}

WireTLSA(h) ==
  {body(3 + Len(h.CertificateAssociationData),
        AppendUint8(h.Usage) \o AppendUint8(h.Selector) \o AppendUint8(h.MatchingType) \o h.CertificateAssociationData)}

parseSvcParamKey(f) == IF f.k = "key" THEN {f.v} ELSE {}

encodeSvcMandatory(vals) ==
  IF vals = << >> THEN {}
  ELSE {FlattenSeq([i \in DOMAIN keys |-> AppendUint16(SortSeq(keys, <)[i])]) :
          keys \in all([i \in DOMAIN vals |-> parseSvcParamKey(vals[i])])}

\* No value is one identifier of no characters.
encodeSvcAlpn(vals) == IF vals = << >> THEN <<0>> ELSE FlattenSeq([i \in DOMAIN vals |-> counted(vals[i].v)])

encodeSvcPort(vals) == IF Len(vals) # 1 THEN {} ELSE {AppendUint16(p) : p \in ParseUint(vals[1], 16)}

encodeSvcIPv4Hint(vals) ==
  IF vals = << >> THEN {}
  ELSE {FlattenSeq(as) : as \in all([i \in DOMAIN vals |-> UNION {To4(ip) : ip \in ParseIP(vals[i])}])}

encodeSvcIPv6Hint(vals) ==
  IF vals = << >> THEN {}
  ELSE {FlattenSeq(as) : as \in all([i \in DOMAIN vals |-> {ip \in ParseIP(vals[i]) : To4(ip) = {}}])}

encodeSvcParamValue(key, vals) ==
  CASE key = Mandatory -> encodeSvcMandatory(vals)
    [] key = Alpn -> {encodeSvcAlpn(vals)}
    [] key = NoDefaultAlpn -> {<< >>}
    [] key = Port -> encodeSvcPort(vals)
    [] key = IPv4Hint -> encodeSvcIPv4Hint(vals)
    [] key = ECH -> base64Decode(vals)
    [] key = IPv6Hint -> encodeSvcIPv6Hint(vals)
    [] OTHER -> hexDecode(vals)

svcParam(f) ==
  IF f.k # "param" THEN {} ELSE {[Key |-> f.v.key, Value |-> v] : v \in encodeSvcParamValue(f.v.key, f.v.vals)}

\* Mutant: the parameters stay in the order of the text.
parseSvcParamsUnsorted(fs) == all([i \in DOMAIN fs |-> svcParam(fs[i])])

parseSvcParams(fs) ==
  {SortSeq(ps, LAMBDA p, q : p.Key < q.Key) : ps \in all([i \in DOMAIN fs |-> svcParam(fs[i])])}

ParseSVCB(value) ==
  IF Len(value) < 2 THEN {}
  ELSE {[of |-> "SVCB", Priority |-> p, Target |-> value[2].v, Params |-> ps] :
          p \in ParseUint(value[1], 16), ps \in parseSvcParams(rest(value, 3))}

SVCBTarget(h) == DomainNameToWirePreserveCase(h.Target)

WireSVCB(h) ==
  LET ps == FlattenSeq([i \in DOMAIN h.Params |->
              AppendUint16(h.Params[i].Key) \o AppendUint16(Len(h.Params[i].Value)) \o h.Params[i].Value])
  IN  {body(2 + Len(t) + MapThenSumSet(LAMBDA i : 4 + Len(h.Params[i].Value), DOMAIN h.Params),
            AppendUint16(h.Priority) \o t \o ps) :
         t \in SVCBTarget(h)}

\* Straight from the octets; the parameters in the order they come in.
svcbFromRData(rdata) ==
  LET from[p \in Nat] ==
        IF p >= Len(rdata) THEN {<< >>}
        ELSE IF p + 4 > Len(rdata) \/ p + 4 + u16(rdata, p + 2) > Len(rdata) THEN {}
        ELSE LET end == p + 4 + u16(rdata, p + 2)
             IN  {<<[Key |-> u16(rdata, p), Value |-> slice(rdata, p + 4, end)]>> \o r : r \in from[end]}
  IN  IF Len(rdata) < 3 THEN {}
      ELSE UNION {{[of |-> "SVCB", Priority |-> u16(rdata, 0), Target |-> t.name, Params |-> ps] : ps \in from[t.next]} :
                  t \in ParseDomainName(rdata, 2)}

ParseSSHFP(value) ==
  IF Len(value) < 3 THEN {}
  ELSE {[of |-> "SSHFP", Algorithm |-> a, FPType |-> t, Fingerprint |-> o] :
          a \in ParseUint(value[1], 8), t \in ParseUint(value[2], 8), o \in hexDecode(rest(value, 3))}

WireSSHFP(h) == {body(2 + Len(h.Fingerprint), AppendUint8(h.Algorithm) \o AppendUint8(h.FPType) \o h.Fingerprint)}

ParseOPENPGPKEY(value) ==
  IF value = << >> THEN {} ELSE {[of |-> "OPENPGPKEY", KeyData |-> o] : o \in base64Decode(value)}

WireOPENPGPKEY(h) == {body(Len(h.KeyData), h.KeyData)}

\* A mnemonic or a number.
parseCertType(f) == IF f.k = "certtype" THEN {f.v} ELSE ParseUint(f, 16)

ParseCERT(value) ==
  IF Len(value) < 4 THEN {}
  ELSE {[of |-> "CERT", CertType |-> c, KeyTag |-> t, Algorithm |-> a, Certificate |-> o] :
          c \in parseCertType(value[1]), t \in ParseUint(value[2], 16), a \in ParseUint(value[3], 8),
          o \in base64Decode(rest(value, 4))}

WireCERT(h) ==
  {body(5 + Len(h.Certificate),
        AppendUint16(h.CertType) \o AppendUint16(h.KeyTag) \o AppendUint8(h.Algorithm) \o h.Certificate)}

\* One quoted string to the end, without a quote in it and read as it stands.
ParseURI(value) ==
  IF Len(value) # 3 \/ value[3].k # "str" THEN {}
  ELSE {[of |-> "URI", Priority |-> p, Weight |-> w, Target |-> value[3].v] :
          p \in ParseUint(value[1], 16), w \in {n \in ParseUint(value[2], 16) : 34 \notin ToSet(value[3].v)}}

WireURI(h) == {body(4 + Len(h.Target), AppendUint16(h.Priority) \o AppendUint16(h.Weight) \o h.Target)}

\* HINFO and NAPTR: a backslash stands for the next character, digits or not,
\* and a bare string has no escapes.
unquote(f) ==
  LET from[i \in 1..(Len(f.v) + 2)] ==
        IF i > Len(f.v) THEN << >>
        ELSE IF f.v[i] = 92 THEN <<f.v[i + 1]>> \o from[i + 2]
        ELSE <<f.v[i]>> \o from[i + 1]
  IN  IF f.k = "str" THEN from[1] ELSE f.v

ParseHINFO(value) ==
  IF Len(value) < 2 THEN {} ELSE {[of |-> "HINFO", CPU |-> unquote(value[1]), OS |-> unquote(value[2])]}

WireHINFO(h) ==
  IF Len(h.CPU) > MaxString \/ Len(h.OS) > MaxString THEN {}
  ELSE {body(2 + Len(h.CPU) + Len(h.OS), counted(h.CPU) \o counted(h.OS))}

ParseNAPTR(value) ==
  IF Len(value) < 6 \/ \E i \in 3..5 : value[i].k # "str" THEN {}
  ELSE {[of |-> "NAPTR", Order |-> o, Preference |-> p, Strings |-> [i \in 1..3 |-> unquote(value[i + 2])],
         Replacement |-> value[6].v] :
          o \in ParseUint(value[1], 16), p \in ParseUint(value[2], 16)}

WireNAPTR(h) ==
  IF \E i \in 1..3 : Len(h.Strings[i]) > MaxString THEN {}
  ELSE {body(2 + 2 + 1 + Len(h.Strings[1]) + 1 + Len(h.Strings[2]) + 1 + Len(h.Strings[3]) + Len(n),
             AppendUint16(h.Order) \o AppendUint16(h.Preference)
               \o FlattenSeq([i \in 1..3 |-> counted(h.Strings[i])]) \o n) :
          n \in DomainNameToWire(h.Replacement)}

ParseRP(value) == IF Len(value) < 2 THEN {} ELSE {[of |-> "RP", Mbox |-> value[1].v, TxtDName |-> value[2].v]}

WireRP(h) == {body(Len(m) + Len(t), m \o t) : m \in DomainNameToWire(h.Mbox), t \in DomainNameToWire(h.TxtDName)}

\* Octets with hyphens between them, as many as the type has.
ParseEUI(value, byteLen) ==
  IF Len(value) # 1 \/ value[1].k # "eui" \/ Len(value[1].v) # byteLen THEN {}
  ELSE {[of |-> "EUI", ByteLen |-> byteLen, Address |-> value[1].v]}

WireEUI(h) == {body(h.ByteLen, h.Address)}

ParseCSYNC(value) ==
  IF Len(value) < 2 THEN {}
  ELSE {[of |-> "CSYNC", SOASerial |-> s, Flags |-> f, TypeBitmap |-> EncodeTypeBitmap(coveredTypes(rest(value, 3)))] :
          s \in ParseUint(value[1], 32), f \in ParseUint(value[2], 16)}

WireCSYNC(h) == {body(6 + Len(h.TypeBitmap), AppendUint32(h.SOASerial) \o AppendUint16(h.Flags) \o h.TypeBitmap)}

-----------------------------------------------------------------------------
\* The factories by type, and what their handlers write.

factory(type, value) ==
  CASE type \in {"DNSKEY", "CDNSKEY"} -> ParseDNSKey(value)
    [] type \in {"DS", "CDS"} -> ParseDS(value)
    [] type = "RRSIG" -> ParseRRSig(value)
    [] type = "NSEC" -> ParseNSEC(value)
    [] type = "NSEC3" -> ParseNSEC3(value)
    [] type = "NSEC3PARAM" -> ParseNSEC3Param(value)
    [] type \in {"TLSA", "SMIMEA"} -> ParseTLSA(value)
    [] type \in {"SVCB", "HTTPS"} -> ParseSVCB(value)
    [] type = "SSHFP" -> ParseSSHFP(value)
    [] type = "OPENPGPKEY" -> ParseOPENPGPKEY(value)
    [] type = "CERT" -> ParseCERT(value)
    [] type = "URI" -> ParseURI(value)
    [] type = "HINFO" -> ParseHINFO(value)
    [] type = "NAPTR" -> ParseNAPTR(value)
    [] type = "RP" -> ParseRP(value)
    [] type = "EUI48" -> ParseEUI(value, 6)
    [] type = "EUI64" -> ParseEUI(value, 8)
    [] type = "CSYNC" -> ParseCSYNC(value)

\* The types RegisterHandlers registers, here and in the dnssec package.
Registered ==
  {"DNSKEY", "CDNSKEY", "DS", "CDS", "RRSIG", "NSEC", "NSEC3", "NSEC3PARAM", "TLSA", "SMIMEA", "SVCB", "HTTPS",
   "SSHFP", "OPENPGPKEY", "CERT", "URI", "HINFO", "NAPTR", "RP", "EUI48", "EUI64", "CSYNC"}

handlerWireBody(h) ==
  CASE h.of = "DNSKey" -> WireDNSKey(h) [] h.of = "DS" -> WireDS(h) [] h.of = "RRSig" -> WireRRSig(h)
    [] h.of = "NSEC" -> WireNSEC(h) [] h.of = "NSEC3" -> WireNSEC3(h) [] h.of = "NSEC3Param" -> WireNSEC3Param(h)
    [] h.of = "TLSA" -> WireTLSA(h) [] h.of = "SVCB" -> WireSVCB(h) [] h.of = "SSHFP" -> WireSSHFP(h)
    [] h.of = "OPENPGPKEY" -> WireOPENPGPKEY(h) [] h.of = "CERT" -> WireCERT(h) [] h.of = "URI" -> WireURI(h)
    [] h.of = "HINFO" -> WireHINFO(h) [] h.of = "NAPTR" -> WireNAPTR(h) [] h.of = "RP" -> WireRP(h)
    [] h.of = "EUI" -> WireEUI(h) [] h.of = "CSYNC" -> WireCSYNC(h)

isGeneric(value) == value # << >> /\ value[1] = marker

\* The length must be that of the octets.
ParseGenericRData(value) ==
  IF Len(value) < 2 THEN {}
  ELSE {raw \in hexDecode(rest(value, 3)) : ParseUint(value[2], 16) = {Len(raw)}}

\* Not generic: too short to have the form is a value the parser refuses.
tlsaPresentation(rdata) ==
  IF Len(rdata) < 3 THEN << >>
  ELSE <<num(rdata[1]), num(rdata[2]), num(rdata[3])>> \o hex(slice(rdata, 3, Len(rdata)))

handlerFromGeneric(type, rdata) ==
  CASE type \in {"TLSA", "SMIMEA"} -> factory(type, tlsaPresentation(rdata))
    [] type \in {"SVCB", "HTTPS"} -> svcbFromRData(rdata)
    [] OTHER -> UNION {factory(type, pres) : pres \in {v \in RDataToString(rdata, type, 0, Len(rdata)) : ~isGeneric(v)}}

\* reg is the set of the types it has factories for.
buildHandler(type, value, reg) ==
  IF type \notin reg THEN {}
  ELSE IF isGeneric(value) THEN UNION {handlerFromGeneric(type, raw) : raw \in ParseGenericRData(value)}
  ELSE factory(type, value)

builtIn(type, value) ==
  CASE type = "A" -> writeWireA(value)
    [] type \in {"NS", "CNAME", "PTR", "DNAME"} -> writeWireSingleName(value)
    [] type = "SOA" -> writeWireSOA(value)
    [] type = "MX" -> writeWireMX(value)
    [] type = "TXT" -> writeWireTXT(value)
    [] type = "AAAA" -> writeWireAAAA(value)
    [] type = "SRV" -> writeWireSRV(value)
    [] type = "CAA" -> writeWireCAA(value)

BuiltIn == {"A", "NS", "CNAME", "PTR", "DNAME", "SOA", "MX", "TXT", "AAAA", "SRV", "CAA"}

\* received is the RDATA a record came with: {} when it did not come so.  A type
\* nothing knows is written as no octets at all, not even a length.
WireBodyWith(type, value, received, reg) ==
  LET handlers == buildHandler(type, value, reg)
  IN  IF isGeneric(value) THEN {body(Len(raw), raw) : raw \in ParseGenericRData(value)}
      ELSE IF handlers # {} THEN UNION {handlerWireBody(h) : h \in handlers}
      ELSE IF type \in BuiltIn THEN builtIn(type, value)
      ELSE IF received # {} THEN {body(Len(raw), raw) : raw \in received}
      ELSE {<< >>}
=============================================================================
