---------------------------- MODULE Presentation ----------------------------
(***************************************************************************)
(* RDataToString of the wire package: the RDATA of a message as a value.   *)
(*                                                                         *)
(* A value is the sequence of its blank-separated fields.  A field is what *)
(* a reader of the text can tell: its kind and the number, the characters  *)
(* or the digits written.  A field of no characters is no field.           *)
(***************************************************************************)
EXTENDS Octets

fld(k, v) == [k |-> k, v |-> v]

num(n) == fld("num", n)
name(t) == fld("name", t)
word(t) == fld("word", t)
str(t) == fld("str", t)       \* the characters between the quotes
rrtype(n) == fld("type", n)   \* RRTypeName: a mnemonic or TYPEn
marker == fld("marker", << >>)
dash == fld("dash", << >>)

-----------------------------------------------------------------------------
\* Digits of w bits for octets: the last is filled up with zeros.  Back, the
\* bits that do not fill an octet are dropped.

bitsOf(s, w) == [i \in 1..(w * Len(s)) |-> (s[(i - 1) \div w + 1] \div 2^(w - 1 - ((i - 1) % w))) % 2]

\* The jth group of w bits.
group(b, w, j) ==
  SumSet({2^(w - i) : i \in {i \in 1..w : (j - 1) * w + i <= Len(b) /\ b[(j - 1) * w + i] = 1}})

toDigits(o, w) == LET b == bitsOf(o, 8) IN [j \in 1..((Len(b) + w - 1) \div w) |-> group(b, w, j)]
toOctets(d, w) == LET b == bitsOf(d, w) IN [j \in 1..(Len(b) \div 8) |-> group(b, 8, j)]

digits(k, w, o) == IF o = << >> THEN << >> ELSE <<fld(k, toDigits(o, w))>>

hex(o) == digits("hex", 4, o)
base64(o) == digits("base64", 6, o)
base32hexEncode(o) == digits("base32", 5, o)

-----------------------------------------------------------------------------
\* Addresses: net.IP holds sixteen octets, and writes an IPv4 address in them
\* as a dotted quad.

v4InV6 == [i \in 1..12 |-> IF i > 10 THEN 255 ELSE 0]

To4(ip) == IF SubSeq(ip, 1, 12) = v4InV6 THEN {SubSeq(ip, 13, 16)} ELSE {}

ipString(ip) == IF To4(ip) = {} THEN fld("ip6", ip) ELSE fld("ip4", SubSeq(ip, 13, 16))

-----------------------------------------------------------------------------
\* Character-strings.

\* The length of the UTF-8 rune of several octets at i, none when it is not one.
runeLen(s, i) ==
  {n \in 2..4 :
     /\ i + n - 1 <= Len(s)
     /\ s[i] \in (CASE n = 2 -> 194..223 [] n = 3 -> 224..239 [] n = 4 -> 240..244)
     /\ \A j \in 1..(n - 1) : s[i + j] \in 128..191
     /\ s[i] = 224 => s[i + 1] >= 160
     /\ s[i] = 237 => s[i + 1] < 160
     /\ s[i] = 240 => s[i + 1] >= 144
     /\ s[i] = 244 => s[i + 1] < 144}

\* \DDD
decimalEscape(c) == <<92, 48 + (c \div 100), 48 + ((c \div 10) % 10), 48 + (c % 10)>>

\* Mutant: only the quote is escaped.
needsBackslashQuote(c) == c = 34

needsBackslash(c) == c \in {34, 92}

txtQuote(s) ==
  LET from[i \in 1..(Len(s) + 1)] ==
        IF i > Len(s) THEN << >>
        ELSE IF needsBackslash(s[i]) THEN <<92, s[i]>> \o from[i + 1]
        ELSE IF s[i] \in 32..126 THEN <<s[i]>> \o from[i + 1]
        ELSE IF runeLen(s, i) # {}
        THEN LET n == Max(runeLen(s, i)) IN SubSeq(s, i, i + n - 1) \o from[i + n]
        ELSE decimalEscape(s[i]) \o from[i + 1]
  IN  str(from[1])

-----------------------------------------------------------------------------
\* The decoders.  m is the message, the RDATA its octets from s to e.

FormatGenericRData(rdata) == <<marker, num(Len(rdata))>> \o hex(rdata)

decodeA(rdata) == IF Len(rdata) # 4 THEN {} ELSE {<<ipString(v4InV6 \o rdata)>>}

decodeAAAA(rdata) == IF Len(rdata) # 16 THEN {} ELSE {<<ipString(rdata)>>}

decodeSingleName(m, s) == {<<name(n.name)>> : n \in ParseDomainName(m, s)}

decodeMX(m, s, e) ==
  IF e - s < 3 THEN {}
  ELSE {<<num(u16(m, s)), name(n.name)>> : n \in ParseDomainName(m, s + 2)}

decodeTXT(rdata) ==
  LET from[p \in Nat] ==
        IF p >= Len(rdata) THEN {<< >>}
        ELSE IF p + 1 + u8(rdata, p) > Len(rdata) THEN {}
        ELSE {<<txtQuote(slice(rdata, p + 1, p + 1 + u8(rdata, p)))>> \o r : r \in from[p + 1 + u8(rdata, p)]}
  IN  from[0]

decodeSOA(m, s, e) ==
  UNION {{<<name(mname.name), name(rname.name)>> \o [i \in 1..5 |-> num(u32(m, rname.next + 4 * (i - 1)))] :
            rname \in {r \in ParseDomainName(m, mname.next) : r.next + 20 <= e}} :
         mname \in ParseDomainName(m, s)}

decodeSRV(m, s, e) ==
  IF e - s < 7 THEN {}
  ELSE {<<num(u16(m, s)), num(u16(m, s + 2)), num(u16(m, s + 4)), name(n.name)>> :
          n \in ParseDomainName(m, s + 6)}

decodeCAA(rdata) ==
  IF Len(rdata) < 2 \/ 2 + u8(rdata, 1) > Len(rdata) THEN {}
  ELSE LET tag == slice(rdata, 2, 2 + u8(rdata, 1))
       IN  {<<num(u8(rdata, 0))>> \o (IF tag = << >> THEN << >> ELSE <<word(tag)>>)
              \o <<txtQuote(slice(rdata, 2 + u8(rdata, 1), Len(rdata)))>>}

\* Sixteen bits, two times eight, and octets to the end.
headAndOctets(rdata) == <<num(u16(rdata, 0)), num(u8(rdata, 2)), num(u8(rdata, 3))>>

decodeDNSKEY(rdata) ==
  IF Len(rdata) < 4 THEN {} ELSE {headAndOctets(rdata) \o base64(slice(rdata, 4, Len(rdata)))}

decodeDS(rdata) ==
  IF Len(rdata) < 4 THEN {} ELSE {headAndOctets(rdata) \o hex(slice(rdata, 4, Len(rdata)))}

decodeRRSIG(m, s, e) ==
  IF e - s < 18 THEN {}
  ELSE {<<rrtype(u16(m, s)), num(u8(m, s + 2)), num(u8(m, s + 3)), num(u32(m, s + 4)), num(u32(m, s + 8)),
          num(u32(m, s + 12)), num(u16(m, s + 16)), name(n.name)>> \o base64(slice(m, n.next, e)) :
          n \in {n \in ParseDomainName(m, s + 18) : n.next <= e}}

typeFields(types) == [i \in DOMAIN types |-> rrtype(types[i])]

\* The slice of the bitmap, msg[next:end], is taken without comparing the two.
nsecOutOfRange(m, s, e) == \E n \in ParseDomainName(m, s) : n.next > e

decodeNSEC(m, s, e) ==
  UNION {{<<name(n.name)>> \o typeFields(types) : types \in decodeBitmap(slice(m, n.next, e))} :
         n \in ParseDomainName(m, s)}

saltField(salt) == IF salt = << >> THEN <<dash>> ELSE hex(salt)

\* Hash algorithm, flags, iterations and salt.
nsec3Head(rdata) ==
  <<num(u8(rdata, 0)), num(u8(rdata, 1)), num(u16(rdata, 2))>> \o saltField(slice(rdata, 5, 5 + u8(rdata, 4)))

decodeNSEC3(rdata) ==
  LET p == 5 + u8(rdata, 4)         \* the length of the next hash
      q == p + 1 + u8(rdata, p)     \* the bitmap
  IN  IF Len(rdata) < 5 \/ p + 1 > Len(rdata) \/ q > Len(rdata) THEN {}
      ELSE {nsec3Head(rdata) \o base32hexEncode(slice(rdata, p + 1, q)) \o typeFields(types) :
              types \in decodeBitmap(slice(rdata, q, Len(rdata)))}

decodeNSEC3PARAM(rdata) ==
  IF Len(rdata) < 5 \/ 5 + u8(rdata, 4) > Len(rdata) THEN {} ELSE {nsec3Head(rdata)}

decodeTLSA(rdata) ==
  IF Len(rdata) <= 3 THEN FormatGenericRData(rdata)
  ELSE <<num(rdata[1]), num(rdata[2]), num(rdata[3])>> \o hex(slice(rdata, 3, Len(rdata)))

-----------------------------------------------------------------------------
\* SVCB and HTTPS: a plain value only where it will be read back as the same
\* octets.  A parameter is its key and the values between the commas; no values
\* stand for a key without "=".

param(key, vals) == fld("param", [key |-> key, vals |-> vals])

Mandatory == 0
Alpn == 1
NoDefaultAlpn == 2
Port == 3
IPv4Hint == 4
ECH == 5
IPv6Hint == 6
KnownKeys == 0..6

chunksOf(v, n) == [i \in 1..(Len(v) \div n) |-> SubSeq(v, n * (i - 1) + 1, n * i)]

svcMandatoryValue(v) ==
  LET keys == [i \in 1..(Len(v) \div 2) |-> u16(v, 2 * (i - 1))]
  IN  IF Len(v) % 2 # 0 \/ \E i \in 2..Len(keys) : keys[i] < keys[i - 1] THEN {}
      ELSE {[i \in DOMAIN keys |-> fld("key", keys[i])]}

\* Printable, and nothing the parser would take apart.
alpnPlain(c) == c \in 33..126 /\ c \notin {44, 34, 92}

svcAlpnValue(v) ==
  LET from[p \in Nat] ==
        IF p >= Len(v) THEN {<< >>}
        ELSE LET id == slice(v, p + 1, p + 1 + u8(v, p))
             IN  IF u8(v, p) = 0 \/ p + 1 + u8(v, p) > Len(v) \/ \E i \in DOMAIN id : ~alpnPlain(id[i]) THEN {}
                 ELSE {<<word(id)>> \o r : r \in from[p + 1 + u8(v, p)]}
  IN  from[0]

svcAddrValue(v, size) ==
  LET ips == [i \in 1..(Len(v) \div size) |->
                IF size = 4 THEN v4InV6 \o chunksOf(v, 4)[i] ELSE chunksOf(v, 16)[i]]
  IN  IF Len(v) % size # 0 \/ (size = 16 /\ \E i \in DOMAIN ips : To4(ips[i]) # {}) THEN {}
      ELSE {[i \in DOMAIN ips |-> ipString(ips[i])]}

svcParamValue(key, v) ==
  CASE key = Mandatory -> svcMandatoryValue(v)
    [] key = Alpn -> svcAlpnValue(v)
    [] key = Port -> IF Len(v) # 2 THEN {} ELSE {<<num(u16(v, 0))>>}
    [] key = IPv4Hint -> svcAddrValue(v, 4)
    [] key = ECH -> {base64(v)}
    [] key = IPv6Hint -> svcAddrValue(v, 16)
    [] OTHER -> {hex(v)}

svcParamString(key, v) ==
  IF key = NoDefaultAlpn \/ v = << >>
  THEN IF v = << >> /\ (key = NoDefaultAlpn \/ key \notin KnownKeys) THEN {param(key, << >>)} ELSE {}
  ELSE {param(key, vals) : vals \in svcParamValue(key, v)}

Blanks == {9, 10, 13, 32}

svcbTargetIsPlain(target, raw) ==
  (\A i \in DOMAIN target : target[i] \notin Blanks) /\ DomainNameToWirePreserveCase(target) = {raw}

\* floor is one above the key before, 0 at first.
svcKeyInOrder(key, floor) == key >= floor

svcParamsFrom(rdata, p) ==
  LET from[q \in Nat, floor \in Nat] ==
        IF q >= Len(rdata) THEN {<< >>}
        ELSE IF q + 4 > Len(rdata) THEN {}
        ELSE LET key == u16(rdata, q)
                 end == q + 4 + u16(rdata, q + 2)
             IN  IF end > Len(rdata) \/ ~svcKeyInOrder(key, floor) THEN {}
                 ELSE UNION {{<<f>> \o r : r \in from[end, key + 1]} :
                               f \in svcParamString(key, slice(rdata, q + 4, end))}
  IN  from[p, 0]

svcbPresentation(rdata) ==
  IF Len(rdata) < 3 THEN {}
  ELSE UNION {{<<num(u16(rdata, 0)), name(t.name)>> \o params : params \in svcParamsFrom(rdata, t.next)} :
              t \in {t \in ParseDomainName(rdata, 2) : svcbTargetIsPlain(t.name, slice(rdata, 2, t.next))}}

decodeSVCB(rdata) ==
  IF svcbPresentation(rdata) = {} THEN FormatGenericRData(rdata)
  ELSE CHOOSE v \in svcbPresentation(rdata) : TRUE

-----------------------------------------------------------------------------
RDataToString(m, type, s, e) ==
  LET rdata == slice(m, s, e)
  IN  CASE type = "A" -> decodeA(rdata)
        [] type = "AAAA" -> decodeAAAA(rdata)
        [] type \in {"NS", "CNAME", "PTR", "DNAME"} -> decodeSingleName(m, s)
        [] type = "MX" -> decodeMX(m, s, e)
        [] type = "TXT" -> decodeTXT(rdata)
        [] type = "SOA" -> decodeSOA(m, s, e)
        [] type = "SRV" -> decodeSRV(m, s, e)
        [] type = "CAA" -> decodeCAA(rdata)
        [] type \in {"DNSKEY", "CDNSKEY"} -> decodeDNSKEY(rdata)
        [] type \in {"DS", "CDS"} -> decodeDS(rdata)
        [] type = "RRSIG" -> decodeRRSIG(m, s, e)
        [] type = "NSEC" -> decodeNSEC(m, s, e)
        [] type = "NSEC3" -> decodeNSEC3(rdata)
        [] type = "NSEC3PARAM" -> decodeNSEC3PARAM(rdata)
        [] type \in {"TLSA", "SMIMEA"} -> {decodeTLSA(rdata)}
        [] type \in {"SVCB", "HTTPS"} -> {decodeSVCB(rdata)}
        [] OTHER -> {FormatGenericRData(rdata)}
=============================================================================
