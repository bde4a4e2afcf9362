------------------------------- MODULE MCWire -------------------------------
(***************************************************************************)
(* Names: every message of up to five octets that are the root, a label of *)
(* one or two, an unused label type or a pointer, read from every offset,  *)
(* and longer chains of pointers.  Messages: up to two records, with       *)
(* owners that point at the question, into the header, at themselves and   *)
(* nowhere, cut short at every length.  Bitmaps: types around the edges of *)
(* octets and windows, cut short at every length.  Queries and OPT records *)
(* as they are written, the latter also with a length that is not theirs.  *)
(***************************************************************************)
EXTENDS Wire, Query, TLC

\* Chains of two and three pointers, and one of labels between pointers.
Chains ==
  {<<0, 192, 0, 192, 1, 192, 3>>, <<0, 192, 0, 192, 1>>,
   <<1, 7, 0, 1, 8, 192, 0, 1, 9, 192, 3>>, <<1, 7, 192, 4, 1, 8, 192, 0>>}

NameJobs ==
  {[call |-> "ParseDomainName", msg |-> m, offset |-> p] :
     m \in UNION {[1..n -> {0, 1, 2, 64, 192}] : n \in 1..5} \cup Chains, p \in 0..8}

zeros(n) == [i \in 1..n |-> 0]

headers ==
  {zeros(4) \o <<0, qd, 0, an, 0, ns, 0, ar>> : qd \in {0, 1, 2}, an \in 0..1, ns \in 0..1, ar \in {0, 2}}

\* The root, a label, the question's name (itself, in the question), a label
\* before it, and header octets read as a name.
owners == {<<0>>, <<1, 7, 0>>, <<192, 12>>, <<1, 8, 192, 12>>, <<192, 5>>}

bare == {o \o zeros(10) : o \in owners}

records ==
  {o \o zeros(8) \o <<0, n>> \o zeros(k) : o \in owners, n \in {0, 2}, k \in {0, 2}}

\* One record, or two without RDATA.
bodies == {<< >>} \cup records \cup {a \o b : a \in bare, b \in bare}

whole == {h \o q \o zeros(4) \o r : h \in headers, q \in owners, r \in bodies}

oneAnswer ==
  {zeros(5) \o <<1, 0, 1>> \o zeros(4) \o q \o zeros(4) \o r : q \in owners, r \in records}

MessageJobs ==
  {[call |-> "ParseMessage", msg |-> m, offset |-> 0] : m \in whole}
  \cup {[call |-> "ParseMessage", msg |-> SubSeq(m, 1, IF n < Len(m) THEN n ELSE Len(m)), offset |-> 0] : m \in oneAnswer, n \in 0..40}

\* The first and the last type of an octet and of a window.
EdgeTypes == {0, 7, 8, 255, 256, 65535}

Lists ==
  {<<a, b, c>> : a, b, c \in EdgeTypes} \cup {<< >>}

Encodings == [l \in Lists |-> EncodeTypeBitmap(l)]

BitmapJobs ==
  {[call |-> "DecodeTypeBitmap", msg |-> SubSeq(Encodings[l], 1, Len(Encodings[l]) - cut), offset |-> 0] :
     l \in Lists, cut \in 0..3}
  \cup {[call |-> "DecodeTypeBitmap", msg |-> <<0, 0>>, offset |-> 0],
        [call |-> "DecodeTypeBitmap", msg |-> <<0, 33>> \o zeros(33), offset |-> 0]}

\* The root, names with and without a dot at the end, in upper case, with an
\* empty label, and one that is too long for a query.
QueryNames ==
  {<< >>, <<Dot>>, <<97>>, <<97, Dot>>, <<65, Dot, 66>>, <<97, Dot, Dot, 98>>, [i \in 1..64 |-> 97]}

Queries == [q \in [name : QueryNames, type : {1, 65535}, cd : BOOLEAN] |-> BuildQueryWithOptions(513, q.name, q.type, q.cd)]

opt(c, d) == [code |-> c, data |-> d]

EDNSs ==
  [udp : {0, 512, 65535}, rcode : {0, 255}, version : {0, 1}, do : BOOLEAN, z : {0, 32767, 32768},
   opts : {<< >>, <<opt(8, << >>)>>, <<opt(10, <<1, 2>>)>>, <<opt(10, <<1>>), opt(256, <<0, 9, 0>>)>>}]

\* An answer to a query for the root, with an OPT.
carrying(o) == zeros(5) \o <<1>> \o zeros(5) \o <<1>> \o zeros(5) \o o

\* The last option's length, or the whole, does not fit.
misfits(o) ==
  {[o EXCEPT ![11] = (@ + d) % 256] : d \in {1, 255}} \cup {[o EXCEPT ![Len(o) - i] = 7] : i \in 0..2}

parsing(m) == [call |-> "ParseMessage", msg |-> m, offset |-> 0]

\* The jobs know what their message was written from.
QueryJobs ==
  UNION {{parsing(m) @@ [query |-> q] : m \in Queries[q]} : q \in DOMAIN Queries}

OPTJobs ==
  {parsing(carrying(Encode(e))) @@ [edns |-> e] : e \in EDNSs}
  \cup {parsing(carrying(o)) : o \in UNION {misfits(Encode(e)) : e \in {e \in EDNSs : e.rcode = 0 /\ e.z = 0}}}

MCJobs ==
  {j \in NameJobs : j.offset <= Len(j.msg)} \cup MessageJobs \cup BitmapJobs \cup QueryJobs \cup OPTJobs

-----------------------------------------------------------------------------
(***************************************************************************)
(* The bitmaps EncodeTypeBitmap writes, for types in any order and with    *)
(* repetitions, are decoded to those types in ascending order, and no      *)
(* other octets here are accepted.                                         *)
(***************************************************************************)
BitmapIsReference ==
  at = "done" /\ job.call = "DecodeTypeBitmap" =>
    LET from == {l \in Lists : Encodings[l] = job.msg}
    IN  /\ err = "nil" <=> from # {}
        /\ \A l \in from : out = SetToSortSeq(ToSet(l), <)

\* The OPT of a message with one record, from its type on.
theOPT == slice(job.msg, endOf(job.msg, out[2].at), size)

(***************************************************************************)
(* What is asked is what the other side reads: a query is a message with   *)
(* one question, whose name is the one given, absolute and in lower case,  *)
(* and one OPT that asks for DNSSEC; a name that cannot be sent is no      *)
(* query.  An OPT record is read as the options it was written from, and   *)
(* what is read as one would be written as it was.                         *)
(* (BuildQueryWithOptions, EDNS.Encode and DecodeOPT, over ParseMessage)   *)
(***************************************************************************)
QueryIsReadBack ==
  /\ at = "header" /\ "query" \in DOMAIN job =>
       \A q \in DOMAIN Queries :
         Queries[q] = {} <=> \E i \in DOMAIN pieces(q.name) : Len(pieces(q.name)[i]) > 63
  /\ at = "done" /\ "query" \in DOMAIN job =>
       /\ err = "nil" /\ Len(out) = 2
       /\ uint16(endOf(job.msg, HeaderLen)) = job.query.type /\ (octet(3) >= 16) = job.query.cd
       /\ LET given == SelectSeq(pieces(job.query.name), LAMBDA x : x # << >>)
          IN  out[1].name = [i \in DOMAIN given |-> [j \in DOMAIN given[i] |-> asciiToLower(given[i][j])]]
       /\ \E e \in DecodeOPT(theOPT) : e.do /\ e.rcode = 0 /\ e.version = 0 /\ e.udp = 4096
  /\ at = "done" /\ "edns" \in DOMAIN job =>
       /\ err = "nil"
       /\ [job.edns EXCEPT !.udp = IF @ = 0 THEN 4096 ELSE @, !.z = @ % 32768] \in DecodeOPT(theOPT)
  /\ at = "done" /\ job.call = "ParseMessage" /\ err = "nil" /\ Len(out) = 2 /\ uint16(out[2].at + 1) = optType =>
       \A e \in DecodeOPT(theOPT) : e.udp # 0 => Encode(e) = slice(job.msg, out[2].at, out[2].at + Len(Encode(e)))
=============================================================================
