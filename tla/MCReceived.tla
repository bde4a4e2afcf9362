----------------------------- MODULE MCReceived -----------------------------
(***************************************************************************)
(* RDATA of every type with a form of its own and of some without: names   *)
(* in full, compressed, with a dot in a label, cut off and too long to be  *)
(* written; strings of the octets that are escaped and of those that are   *)
(* not; fields missing, empty, cut short and followed by octets too many.  *)
(* Numbers of 32 bits stay below 2^31.                                     *)
(***************************************************************************)
EXTENDS Received

\* Before the RDATA, the names X. at 0 and a.X. at 3; after it, a root label.
Prefix == <<1, 88, 0, 1, 97, 192, 0>>
Suffix == <<0>>

\* ., B., X., b.a.X. (too long for MaxName), a label with a dot, a pointer
\* ahead, and a label that goes on after the RDATA when it is the end of it.
Names == {<<0>>, <<1, 66, 0>>, <<192, 0>>, <<1, 98, 192, 3>>, <<3, 97, 46, 66, 0>>, <<192, 200>>, <<1, 66>>}

Tails == {<< >>, <<9>>}

upTo(n, S) == UNION {[1..k -> S] : k \in 0..n}

zeros(n) == [i \in 1..n |-> 0]
count(n) == [i \in 1..n |-> i]

\* A quote, a backslash, a letter, a digit, a line end, a rune of two octets
\* and halves of it.
Strings == upTo(2, {34, 92, 97, 49, 10, 195, 169}) \cup {<<92, 48, 54, 53>>, <<195, 169, 92>>}

lengthAndOctets(o) == <<Len(o)>> \o o

\* The bitmaps of no type, of A, of A and TYPE256, with an octet too many,
\* with windows in the wrong order, and cut short.
Bitmaps == {<< >>, <<0, 1, 64>>, <<0, 1, 64, 1, 1, 128>>, <<0, 2, 64, 0>>, <<1, 1, 128, 0, 1, 64>>, <<0, 2, 64>>, <<0>>}

v6(o) == zeros(10) \o o \o <<192, 0, 2, 1>>

\* Parameters of SVCB, well-formed and not, by key.
SvcParams ==
  {<< >>, <<0, 0, 0, 4, 0, 1, 0, 3>>, <<0, 0, 0, 4, 0, 3, 0, 1>>, <<0, 0, 0, 1, 1>>,
   <<0, 1, 0, 3, 2, 104, 50>>, <<0, 1, 0, 2, 1, 44>>, <<0, 1, 0, 2, 2, 104>>, <<0, 1, 0, 4, 1, 97, 1, 98>>,
   <<0, 2, 0, 0>>, <<0, 2, 0, 1, 1>>, <<0, 3, 0, 2, 1, 187>>, <<0, 3, 0, 1, 1>>,
   <<0, 4, 0, 4, 192, 0, 2, 1>>, <<0, 4, 0, 3, 192, 0, 2>>, <<0, 5, 0, 1, 7>>, <<0, 5, 0, 0>>,
   <<0, 6, 0, 16>> \o v6(<<0, 1>>), <<0, 6, 0, 16>> \o v6(<<255, 255>>),
   <<0, 7, 0, 1, 9>>, <<0, 7, 0, 0>>, <<0, 7, 0, 2, 9>>, <<0, 7>>}

Rdatas(type) ==
  CASE type = "A" -> {count(n) : n \in 3..5}
    [] type = "AAAA" -> {v6(<<255, 255>>), v6(<<0, 1>>), zeros(15)}
    [] type \in {"NS", "DNAME"} -> {n \o t : n \in Names, t \in Tails}
    [] type = "MX" -> {<<0, 10>> \o n \o t : n \in Names, t \in Tails} \cup {<<0, 1>>}
    [] type = "SRV" -> {<<0, 1, 0, 2, 255, 255>> \o n \o t : n \in Names, t \in Tails} \cup {zeros(6)}
    [] type = "SOA" -> {n \o r \o zeros(k) \o <<1, 2, 3, 4>> : n \in Names, r \in Names, k \in 15..17}
    [] type = "TXT" -> {lengthAndOctets(s) : s \in Strings} \cup {lengthAndOctets(s) \o <<1, 97>> : s \in Strings}
                       \cup {<< >>, <<2, 97>>, <<0, 0>>}
    [] type = "CAA" -> {<<128>> \o lengthAndOctets(t) \o v : t \in {<< >>, <<97>>, <<97, 98>>}, v \in Strings}
                       \cup {<<0>>, <<0, 2, 97>>}
    [] type = "DNSKEY" -> {<<1, f, 3, a>> \o k : f \in {0, 255}, a \in {1, 8}, k \in upTo(3, {1, 255})} \cup {<<1, 0, 3>>}
                          \cup {<<255, 255, 3, 255, 255, 255, 255, 255, 255>>}
    [] type \in {"DS", "CDS"} -> {<<255, 1, 8, 2>> \o d : d \in upTo(2, {1, 255})} \cup {<<1, 2, 3>>}
    [] type = "RRSIG" -> {<<0, 1, 8, 2>> \o zeros(14) \o n \o s : n \in Names, s \in {<< >>, <<7>>, <<7, 255>>}} \cup {zeros(17)}
    [] type = "NSEC" -> {n \o b : n \in Names, b \in Bitmaps} \cup {<< >>}
    [] type = "NSEC3" -> {<<1, 1, 0, 9>> \o s \o h \o b : s \in {<<0>>, <<2, 170, 5>>}, h \in {<<1, 255>>, <<3, 0, 1, 2>>}, b \in Bitmaps}
                         \cup {<<1, 0, 0, 9>>, <<1, 0, 0, 9, 1>>, <<1, 0, 0, 9, 0>>, <<1, 0, 0, 9, 0, 2, 3>>}
    [] type = "NSEC3PARAM" -> {<<1, 0, 0, 9>> \o s : s \in {<< >>, <<0>>, <<2, 170, 5>>, <<2, 170>>, <<0, 7>>}}
    [] type = "TLSA" -> {count(n) : n \in 0..5}
    [] type = "SVCB" -> {<<0, 1>> \o n \o p \o q : n \in {<<0>>, <<1, 66, 0>>}, p \in SvcParams, q \in SvcParams}
                        \cup {<<0, 1>> \o n : n \in Names \cup {<<2, 32, 66, 0>>}} \cup {<<0, 1>>}
    [] type = "RP" -> {<<1, 66, 0, 0>>, << >>}

Types == {"A", "AAAA", "NS", "DNAME", "MX", "SRV", "SOA", "TXT", "CAA", "DNSKEY", "DS", "CDS", "RRSIG", "NSEC",
          "NSEC3", "NSEC3PARAM", "TLSA", "SVCB", "RP"}

wireJob(from, type, r) ==
  [from |-> from, type |-> type, msg |-> Prefix \o r \o Suffix, start |-> Len(Prefix), end |-> Len(Prefix) + Len(r),
   value |-> << >>, expect |-> {}]

\* The RDATA a text must be written as, none when it must not be.
textJob(type, v, e) ==
  [from |-> "text", type |-> type, msg |-> << >>, start |-> 0, end |-> 0, value |-> v, expect |-> e]

BName == name(<<66, Dot>>)
octet(n) == IF n < 256 THEN {<<n>>} ELSE {}
octets2(n) == IF n < 65536 THEN {<<n \div 256, n % 256>>} ELSE {}

TextJobs ==
  {textJob("TXT", <<str(<< >>)>>, {<<0>>}),
        textJob("TXT", <<word(<<97, 98, 99, 100>>)>>, {<<4, 97, 98, 99, 100>>}),
        textJob("TXT", <<str(<<97, 98, 99, 100, 101>>)>>, {<<4, 97, 98, 99, 100, 1, 101>>}),
        textJob("TXT", <<word(<<97, 98, 99, 100, 101, 102, 103, 104, 105>>), str(<< >>)>>,
                {<<4, 97, 98, 99, 100, 4, 101, 102, 103, 104, 1, 105, 0>>}),
        textJob("TXT", <<str(<<92, 48, 54, 53, 92, 97>>), word(<<97, 92>>)>>, {<<2, 65, 97, 2, 97, 92>>}),
        textJob("TXT", <<str(<<92, 51, 48, 48>>)>>, {}),
        textJob("A", <<fld("ip4", <<192, 0, 2, 1>>)>>, {<<192, 0, 2, 1>>}),
        textJob("A", <<fld("ip6", v6(<<0, 1>>))>>, {}),
        textJob("A", <<fld("ip4", <<192, 0, 2, 1>>), word(<<97>>)>>, {}),
        textJob("NS", <<BName>>, {<<1, 98, 0>>}),
        textJob("TYPE999", <<word(<<97>>)>>, {}),
        textJob("TYPE999", <<marker, num(2)>> \o hex(<<1, 2>>), {<<1, 2>>}),
        textJob("A", <<marker, num(1)>> \o hex(<<1, 2>>), {}),
        textJob("A", <<marker, num(2)>> \o hex(<<1>>) \o hex(<<2>>), {<<1, 2>>}),
        textJob("A", <<marker>>, {}),
        textJob("SVCB", <<num(1), BName, param(Port, <<num(443)>>), param(Alpn, <<word(<<104>>)>>)>>,
                {<<0, 1, 1, 66, 0, 0, 1, 0, 2, 1, 104, 0, 3, 0, 2, 1, 187>>}),
        textJob("SVCB", <<num(1), BName, param(Mandatory, <<fld("key", 3), fld("key", 1)>>)>>,
                {<<0, 1, 1, 66, 0, 0, 0, 0, 4, 0, 1, 0, 3>>}),
        textJob("SVCB", <<num(1), BName, param(Port, <<num(65536)>>)>>, {}),
        textJob("SVCB", <<num(1), BName, param(IPv4Hint, << >>)>>, {}),
        textJob("URI", <<num(1), num(2), str(<<97, 92>>)>>, {<<0, 1, 0, 2, 97, 92>>}),
        textJob("URI", <<num(1), num(2), str(<<97, 92, 34>>)>>, {}),
        textJob("HINFO", <<str(<<97, 92, 34>>), word(<<92, 97>>)>>, {<<2, 97, 34, 2, 92, 97>>}),
        textJob("HINFO", <<str(<<97, 97, 97, 97, 97>>), word(<<97>>)>>, {}),
        textJob("HINFO", <<word(<<97>>)>>, {}),
        textJob("NAPTR", <<num(1), num(2), str(<<97>>), str(<< >>), str(<<92, 92>>), BName>>,
                {<<0, 1, 0, 2, 1, 97, 0, 1, 92, 1, 98, 0>>}),
        textJob("NAPTR", <<num(1), num(2), str(<<97>>), word(<<97>>), str(<< >>), BName>>, {}),
        textJob("RP", <<BName, name(<<Dot>>)>>, {<<1, 98, 0, 0>>}),
        textJob("EUI48", <<fld("eui", count(6))>>, {count(6)}),
        textJob("EUI64", <<fld("eui", count(6))>>, {}),
        textJob("EUI64", <<fld("eui", count(8))>>, {count(8)}),
        textJob("CSYNC", <<num(66), num(3), rrtype(256), word(<<97>>), rrtype(1)>>, {<<0, 0, 0, 66, 0, 3, 0, 1, 64, 1, 1, 128>>}),
        textJob("OPENPGPKEY", base64(<<1, 2>>), {<<1, 2>>}),
        textJob("OPENPGPKEY", << >>, {}),
        textJob("CERT", <<fld("certtype", 253), num(7), num(8)>> \o base64(<<1>>), {<<0, 253, 0, 7, 8, 1>>}),
        textJob("RRSIG", <<rrtype(1), num(8), num(2), num(300), fld("date", 86400), num(1), num(7), BName>> \o base64(<<9>>),
                {<<0, 1, 8, 2, 0, 0, 1, 44, 0, 1, 81, 128, 0, 0, 0, 1, 0, 7, 1, 98, 0, 9>>})}
  \* Numbers at the edges of their width; RangeJobs has the one a built-in
  \* encoder does not refuse.
  \cup {textJob("SSHFP", <<num(a), num(1)>> \o hex(<<171>>), {o \o <<1, 171>> : o \in octet(a)}) : a \in {0, 255, 256}}
  \cup {textJob("DS", <<num(t), num(8), num(2)>> \o hex(<<1>>) \o hex(<<2>>), {o \o <<8, 2, 1, 2>> : o \in octets2(t)}) :
          t \in {0, 65535, 65536}}
  \cup {textJob("CERT", <<num(t), num(7), num(8)>> \o base64(<<1>>), {o \o <<0, 7, 8, 1>> : o \in octets2(t)}) : t \in {0, 65535, 65536}}
  \cup {textJob("MX", <<num(n), BName>>, {o \o <<1, 98, 0>> : o \in octets2(n)}) : n \in {0, 65535}}

MCJobs ==
  UNION {{wireJob(f, t, r) : f \in {"message", "octets"}, r \in Rdatas(t)} : t \in Types} \cup TextJobs

\* Addresses, for what the comment of RDataToString says of them.
AddressJobs == {wireJob("message", t, r) : t \in {"A", "AAAA"}, r \in Rdatas("A") \cup Rdatas("AAAA")}

\* NSEC records of a message, for what it says of its failures.
NSECJobs == {wireJob("message", "NSEC", r) : r \in Rdatas("NSEC")}

\* A preference at the edge of its 16 bits and past it.
RangeJobs == {textJob("MX", <<num(n), BName>>, {o \o <<1, 98, 0>> : o \in octets2(n)}) : n \in {65535, 65536}}

\* Each of the three sets has an outcome that the comments rule out.
ContractJobs == AddressJobs \cup NSECJobs \cup RangeJobs

-----------------------------------------------------------------------------
\* The formats of the RFCs, field by field.

fixed(n) == [k |-> "fixed", n |-> n]
part(k) == [k |-> k, n |-> 0]

Layout(type) ==
  CASE type = "A" -> <<fixed(4)>>
    [] type = "AAAA" -> <<fixed(16)>>
    [] type \in {"NS", "DNAME"} -> <<part("name")>>
    [] type = "MX" -> <<fixed(2), part("name")>>
    [] type = "SRV" -> <<fixed(6), part("name")>>
    [] type = "SOA" -> <<part("name"), part("name"), fixed(20)>>
    [] type = "TXT" -> <<part("string"), part("strings")>>
    [] type = "CAA" -> <<fixed(1), part("string"), part("rest")>>
    [] type \in {"DNSKEY", "DS", "CDS"} -> <<fixed(4), part("rest")>>
    [] type = "RRSIG" -> <<fixed(18), part("name"), part("rest")>>
    [] type = "NSEC" -> <<part("cased"), part("bitmap")>>
    [] type = "NSEC3" -> <<fixed(4), part("string"), part("string"), part("bitmap")>>
    [] type = "NSEC3PARAM" -> <<fixed(4), part("string")>>
    [] OTHER -> <<part("rest")>>

lower(o) == [i \in DOMAIN o |-> IF o[i] \in 65..90 THEN o[i] + 32 ELSE o[i]]

\* A name in full, in lower case where the canonical form has it so.
inFull(labels, k) ==
  FlattenSeq([i \in DOMAIN labels |-> <<Len(labels[i])>> \o (IF k = "name" THEN lower(labels[i]) ELSE labels[i])]) \o <<0>>

\* The canonical form of the RDATA up to e: one where it fits the format.
canonical(type, m, s, e) ==
  LET layout == Layout(type)
      from[i \in Nat, p \in Nat] ==
        IF i > Len(layout) THEN IF p = e THEN {<< >>} ELSE {}
        ELSE LET k == layout[i].k
                 n == layout[i].n
             IN  CASE k = "fixed" -> IF p + n > e THEN {} ELSE {slice(m, p, p + n) \o r : r \in from[i + 1, p + n]}
                   [] k \in {"name", "cased"} ->
                        IF ~nameAt(m, p).ok \/ Len(inFull(nameAt(m, p).labels, k)) > MaxName THEN {}
                        ELSE {inFull(nameAt(m, p).labels, k) \o r :
                                r \in IF endOf(m, p) > e THEN {} ELSE from[i + 1, endOf(m, p)]}
                   [] k = "string" ->
                        IF p >= e \/ p + 1 + u8(m, p) > e THEN {}
                        ELSE {slice(m, p, p + 1 + u8(m, p)) \o r : r \in from[i + 1, p + 1 + u8(m, p)]}
                   [] k = "strings" ->
                        IF p = e THEN from[i + 1, p]
                        ELSE IF p + 1 + u8(m, p) > e THEN {}
                        ELSE {slice(m, p, p + 1 + u8(m, p)) \o r : r \in from[i, p + 1 + u8(m, p)]}
                   [] k = "bitmap" -> {EncodeTypeBitmap(types) : types \in decodeBitmap(slice(m, p, e))}
                   [] k = "rest" -> {slice(m, p, e)}
  IN  from[1, s]

withLength(o) == <<Len(o) \div 256, Len(o) % 256>> \o o

canonicalTo(e) == {withLength(o) : o \in canonical(job.type, job.msg, job.start, e)}

\* What the text has no way to say: a dot in a label, an IPv4 address in an
\* IPv6 address, no string at all, and a tag of no characters.  SVCB is written
\* in the generic form then.
speakable ==
  \/ job.type = "SVCB"
  \/ /\ 46 \notin ToSet(rdata)
     /\ job.type = "AAAA" /\ Len(rdata) = 16 => To4(rdata) = {}
     /\ job.type = "TXT" => rdata # << >>
     /\ job.type = "CAA" /\ Len(rdata) > 1 => rdata[2] # 0

verbatim == isGeneric(value) \/ (handlers = {} /\ job.type \notin BuiltIn)

(***************************************************************************)
(* RDATA that fits its format is taken from a message and written again in *)
(* its canonical form: names in full and in lower case, except the next    *)
(* name of NSEC and the target of SVCB; the rest as it was.  RDATA that    *)
(* does not fit is refused, or cannot be written, or is read as RDATA that *)
(* ends elsewhere: nothing is ever written that is not the canonical form  *)
(* of octets at that place.  What has no plain form is written verbatim.   *)
(* The one misfit that is none of these stops the program: an NSEC whose   *)
(* next name ends past its RDATA (ConvertsOrFails states that case).       *)
(* (RDataToString, then ResourceRecord.WireBodyWith)                       *)
(***************************************************************************)
ReceivedIsCanonical ==
  /\ at = "panic" => job.type = "NSEC" /\ nameAt(job.msg, job.start).ok /\ endOf(job.msg, job.start) > job.end
  /\ job.from = "message" /\ speakable =>
       /\ canonicalTo(job.end) # {} => at \notin {"refused", "unwritable"}
       /\ at = "written" =>
            IF verbatim THEN octets = withLength(rdata)
            ELSE /\ \E e \in job.start..Len(job.msg) : octets \in canonicalTo(e)
                 /\ canonicalTo(job.end) # {} => octets \in canonicalTo(job.end)

(***************************************************************************)
(* A record held as octets is written as those octets, and the handler it  *)
(* yields stands for all of them: it would write their canonical form, to  *)
(* the last octet.  Only octets that do not fit the format may yield the   *)
(* handler of a part of them that does.                                    *)
(* (NewResourceRecordFromRData, handlerFromGeneric and svcbFromRData)      *)
(***************************************************************************)
HandlerMeansOctets ==
  job.from = "octets" /\ at = "written" =>
    /\ octets = withLength(rdata)
    /\ Dot \notin ToSet(rdata) /\ (job.type = "SVCB" /\ handlers # {} => rdata[3] < 192) =>
         \A h \in handlers :
           LET standsFor(e) == {withLength(o) : o \in canonical(job.type, rdata, 0, e)}
           IN  IF standsFor(Len(rdata)) # {} THEN handlerWireBody(h) = standsFor(Len(rdata))
               ELSE \E e \in 0..Len(rdata) : handlerWireBody(h) = standsFor(e)

(***************************************************************************)
(* The key tag of a DNSKEY is the one of RFC 4034, Appendix B: computed    *)
(* octet by octet over the RDATA that is written, carry added once.        *)
(* (DNSKey.calcKeyTag, from the fields; algorithm 1 has a tag of its own)  *)
(***************************************************************************)
KeyTagIsRFC ==
  at = "written" => \A h \in handlers : h.of = "DNSKey" /\ h.Algorithm # RSAMD5 =>
    LET o == CHOOSE o \in handlerWireBody(h) : TRUE
        ac == MapThenSumSet(LAMBDA i : IF i % 2 = 1 THEN o[i] * 256 ELSE o[i], 3..Len(o))
    IN  h.KeyTag = (ac + (ac \div 65536)) % 65536

(***************************************************************************)
(* Zone text is written in the format of its type, strings broken where a  *)
(* length octet ends and parameters in the order of their keys, after a    *)
(* length that counts the octets.  A value cut short, or of a type nothing *)
(* knows, is not written at all, nor is a number out of range where a      *)
(* handler reads it; the built-in encoders of MX, SRV, SOA and CAA do (the *)
(* case ConvertsOrFails states).  (the Parse functions and the WireBody    *)
(* methods of the zone and dnssec packages)                                *)
(***************************************************************************)
TextIsWritten ==
  job.from = "text" /\ reg = Registered =>
    IF job.expect = {} THEN at = "unwritable" \/ octets = << >>
    ELSE at = "written" /\ octets \in {withLength(o) : o \in job.expect}

(***************************************************************************)
(* What is written are octets, whatever number, escape or digits the value *)
(* has, and there is at most one handler for it.  (HandlerFrom and         *)
(* WireBodyWith)                                                           *)
(***************************************************************************)
ReceivedTypeOK ==
  /\ at \in {"message", "record", "written", "refused", "unwritable", "panic"}
  /\ \A i \in DOMAIN octets : octets[i] \in 0..255
  /\ Cardinality(handlers) <= 1 /\ Cardinality(received) <= 1

(***************************************************************************)
(* What the comments of the conversions say.  RDataToString fails with     *)
(* ErrRData ("a Go error return value, not a panic", DESIGN.md), else "the *)
(* same string is what [zone.NewResourceRecord]'s value argument accepts", *)
(* and can be written; WireBody "returns [ErrRDataFormat] when an encoder  *)
(* recognises the type but the value is malformed".  The code breaks each: *)
(* decodeNSEC slices before it compares the end of the next name with the  *)
(* end of the RDATA; decodeAAAA prints an IPv4-mapped address as an IPv4   *)
(* one, which writeWireAAAA refuses; writeWireMX drops the error of        *)
(* ParseUint and writes the largest number that fits.                      *)
(***************************************************************************)
ConvertsOrFails ==
  /\ job.from = "message" => at \notin {"panic", "unwritable"}
  /\ job.from = "text" /\ job.expect = {} => at # "written"
=============================================================================
