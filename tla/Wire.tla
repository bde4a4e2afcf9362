-------------------------------- MODULE Wire --------------------------------
(***************************************************************************)
(* Decoding of the wire package: ParseDomainName with its compression      *)
(* pointers, ParseMessage over it, and the RFC 4034 type bitmaps.  Octets  *)
(* are numbers below 256 and offsets count from 0, as in the code.         *)
(*                                                                         *)
(* A behaviour is one call.  Its steps are the rounds of the loops: one    *)
(* per label or pointer of a name, one per record and one per window.      *)
(***************************************************************************)
EXTENDS Octets

CONSTANT Jobs  \* the calls: [call, msg, offset]

\* A message is octets, and ParseMessage reads it from its start.
ASSUME JobsAssumption ==
  /\ MaxPointerHops \in Nat
  /\ \A j \in Jobs :
       /\ j.call \in {"ParseMessage", "ParseDomainName", "DecodeTypeBitmap"}
       /\ j.msg \in Seq(0..255) /\ j.offset \in Nat
       /\ j.call = "ParseMessage" => j.offset = 0

VARIABLES
  job,    \* the call
  at,     \* "header", "name", "fields", "bitmap" or "done"
  pos, labels, next, visited, hops, \* the locals of ParseDomainName; next 0 for -1
  start,  \* the offset the name under decoding began at
  left,   \* per section, with the question first: the entries to come
  out,    \* the entries, or the types of the bitmap, decoded so far
  err

vars == <<job, at, pos, labels, next, visited, hops, start, left, out, err>>

size == Len(job.msg)
octet(i) == u8(job.msg, i)
uint16(i) == u16(job.msg, i)

HeaderLen == 12

\* The counts of the header.
counts == [s \in 1..4 |-> uint16(2 + 2 * s)]

Init ==
  /\ job \in Jobs
  /\ at = CASE job.call = "ParseMessage" -> "header"
            [] job.call = "ParseDomainName" -> "name"
            [] job.call = "DecodeTypeBitmap" -> "bitmap"
  /\ pos = job.offset /\ labels = << >> /\ next = 0 /\ visited = {} /\ hops = 0
  /\ start = job.offset
  /\ left = [s \in 1..4 |-> 0] /\ out = << >> /\ err = "nil"

locals == <<labels, next, visited, hops, start>>

Fail(e) ==
  /\ at' = "done" /\ err' = e /\ out' = << >>
  /\ UNCHANGED <<job, pos, locals, left>>

-----------------------------------------------------------------------------
\* ParseDomainName.

\* ParseMessage formats the error of a name into its own.
nameError(e) == IF job.call = "ParseMessage" THEN "ErrMessageMalformed" ELSE e

isPointer(b) == b >= 192

pointer == (octet(pos) % 64) * 256 + octet(pos + 1)

\* The offset after the name as it stands in the message.
after(p) == IF next = 0 THEN p ELSE next

\* Out of octets, or a label type that is not in use.
NameTruncated ==
  /\ at = "name"
  /\ \/ pos >= size
     \/ /\ pos < size
        /\ \/ isPointer(octet(pos)) /\ pos + 1 >= size
           \/ octet(pos) \in 64..191
           \/ octet(pos) \in 1..63 /\ pos + 1 + octet(pos) > size
  /\ Fail(nameError("ErrTruncated"))

Label ==
  /\ at = "name" /\ pos < size /\ octet(pos) \in 1..63 /\ pos + 1 + octet(pos) <= size
  /\ labels' = Append(labels, SubSeq(job.msg, pos + 2, pos + 1 + octet(pos)))
  /\ pos' = pos + 1 + octet(pos)
  /\ UNCHANGED <<job, at, next, visited, hops, start, left, out, err>>

\* Mutant: the hops are compared before this one is counted.
pointerErrorLate ==
  IF pointer >= pos THEN "ErrPointerForward"
  ELSE IF pointer \in visited \/ hops > MaxPointerHops THEN "ErrPointerLoop"
  ELSE "nil"

\* A pointer must go back, to a place not gone to before.
pointerError ==
  IF pointer >= pos THEN "ErrPointerForward"
  ELSE IF pointer \in visited \/ hops + 1 > MaxPointerHops THEN "ErrPointerLoop"
  ELSE "nil"

\* Mutant: the cursor goes on after the name pointed to.
PointerCursor ==
  /\ at = "name" /\ pos + 1 < size /\ isPointer(octet(pos))
  /\ \/ /\ pointerError = "nil"
        /\ pos' = pointer
        /\ visited' = visited \cup {pointer} /\ hops' = hops + 1
        /\ UNCHANGED <<job, at, labels, next, start, left, out, err>>
     \/ pointerError # "nil" /\ Fail(nameError(pointerError))

Pointer ==
  /\ at = "name" /\ pos + 1 < size /\ isPointer(octet(pos))
  /\ \/ /\ pointerError = "nil"
        /\ pos' = pointer /\ next' = after(pos + 2)
        /\ visited' = visited \cup {pointer} /\ hops' = hops + 1
        /\ UNCHANGED <<job, at, labels, start, left, out, err>>
     \/ pointerError # "nil" /\ Fail(nameError(pointerError))

\* The root label ends the name; its locals end with the call.
NameEnd ==
  /\ at = "name" /\ pos < size /\ octet(pos) = 0
  /\ labels' = << >> /\ next' = 0 /\ visited' = {} /\ hops' = 0
  /\ pos' = after(pos + 1)
  /\ out' = Append(out, [at |-> start, name |-> labels, next |-> after(pos + 1), rdata |-> << >>])
  /\ at' = IF job.call = "ParseMessage" THEN "fields" ELSE "done"
  /\ UNCHANGED <<job, start, left, err>>

-----------------------------------------------------------------------------
\* ParseMessage: the header, the question and the three sections.

\* The call is over when no entry is left, the next name starts otherwise.
NextEntry(todo, from) ==
  /\ left' = todo
  /\ pos' = from /\ start' = from
  /\ at' = IF \A s \in 1..4 : todo[s] = 0 THEN "done" ELSE "name"

Header ==
  /\ at = "header" /\ size >= HeaderLen /\ counts[1] = 1
  /\ NextEntry(counts, HeaderLen)
  /\ UNCHANGED <<job, labels, next, visited, hops, out, err>>

HeaderMalformed ==
  /\ at = "header"
  /\ size < HeaderLen \/ (size >= HeaderLen /\ counts[1] # 1)
  /\ Fail("ErrMessageMalformed")

inQuestion == Len(out) = 1

\* The sections come one after the other.
section == Min({s \in 1..4 : left[s] > 0})

\* Type and class after the question's name, and for a record also TTL and
\* RDLENGTH, with the RDATA they announce.
fieldsLen == IF inQuestion THEN 4 ELSE 10

\* Mutant: one octet of RDLENGTH is read.
rdlenOctet == IF inQuestion THEN 0 ELSE octet(pos + 8)

rdlen == IF inQuestion THEN 0 ELSE uint16(pos + 8)

Fields ==
  /\ at = "fields" /\ pos + fieldsLen <= size /\ pos + fieldsLen + rdlen <= size
  /\ out' = [out EXCEPT ![Len(out)].rdata = <<pos + fieldsLen, rdlen>>]
  /\ NextEntry([left EXCEPT ![section] = @ - 1], pos + fieldsLen + rdlen)
  /\ UNCHANGED <<job, labels, next, visited, hops, err>>

FieldsTruncated ==
  /\ at = "fields"
  /\ pos + fieldsLen > size \/ (pos + fieldsLen <= size /\ pos + fieldsLen + rdlen > size)
  /\ Fail("ErrMessageMalformed")

-----------------------------------------------------------------------------
\* Type bitmaps.

DecodeWindow ==
  /\ at = "bitmap" /\ pos < size /\ windowWhole(job.msg, pos)
  /\ out' = out \o typesAt(job.msg, pos)
  /\ pos' = pos + 2 + octet(pos + 1)
  /\ UNCHANGED <<job, at, locals, left, err>>

WindowMalformed ==
  /\ at = "bitmap" /\ pos < size /\ ~windowWhole(job.msg, pos)
  /\ Fail("ErrTypeBitmap")

BitmapEnd ==
  /\ at = "bitmap" /\ pos >= size
  /\ at' = "done"
  /\ UNCHANGED <<job, pos, locals, left, out, err>>

-----------------------------------------------------------------------------
Step ==
  \/ NameTruncated \/ Label \/ Pointer \/ NameEnd
  \/ Header \/ HeaderMalformed \/ Fields \/ FieldsTruncated
  \/ DecodeWindow \/ WindowMalformed \/ BitmapEnd

Finished == at = "done" /\ UNCHANGED vars

Next == Step \/ Finished

Spec == Init /\ [][Next]_vars

-----------------------------------------------------------------------------
(***************************************************************************)
(* Whatever the octets are, the loops of decoding end within them (what    *)
(* ParseMessage sets aside at first, by the header's counts, is not meant).*)
(* However the pointers lie, a name takes no more of them than are         *)
(* allowed, and between two of them passes the message once.  However many *)
(* records the header counts, no more are read than have room: the name of *)
(* one takes an octet, its fields ten.                                     *)
(* (the loops of ParseDomainName and ParseMessage)                         *)
(***************************************************************************)
WorkBounded ==
  /\ hops <= MaxPointerHops
  /\ Len(labels) <= (hops + 1) * size
  /\ job.call = "ParseMessage" => 11 * Len(out) <= size + 11

\* nameAt says what the octets of a name stand for, without a cursor.

nameOK(m, p) == ParseDomainName(m, p) # {}

(***************************************************************************)
(* ParseDomainName returns the name the octets stand for, and the offset   *)
(* after it in place, exactly when its labels end within the message, its  *)
(* pointers go back and there are no more of them than allowed.            *)
(***************************************************************************)
NameIsReference ==
  at = "done" /\ job.call = "ParseDomainName" =>
    /\ err = "nil" <=> nameOK(job.msg, job.offset)
    /\ err = "nil" => /\ out[1].name = nameAt(job.msg, job.offset).labels
                      /\ out[1].next = endOf(job.msg, job.offset)

\* The RDATA of the record at p, and whether all of the record is there.
rdataAt(m, p) == endOf(m, p) + 10
rdlenAt(m, p) == u16(m, rdataAt(m, p) - 2)
recordEnd(m, p) == rdataAt(m, p) + rdlenAt(m, p)
recordOK(m, p) == nameOK(m, p) /\ rdataAt(m, p) <= Len(m) /\ recordEnd(m, p) <= Len(m)

\* The records of a message follow each other: by n, where n of them fit.
fits(m) ==
  LET fit[n \in Nat] ==
        IF n = 0 THEN [p \in Nat |-> TRUE]
        ELSE [p \in Nat |-> recordOK(m, p) /\ fit[n - 1][recordEnd(m, p)]]
  IN  fit

entries == 1 + counts[2] + counts[3] + counts[4]

\* The question and all the records the header counts are there.
questionEnd == endOf(job.msg, HeaderLen) + 4
wellFormed ==
  /\ size >= HeaderLen /\ counts[1] = 1
  /\ nameOK(job.msg, HeaderLen) /\ questionEnd <= size
  /\ fits(job.msg)[entries - 1][questionEnd]

\* Entry i is the one that stands where the one before ends.
placed(i) ==
  /\ out[i].at = IF i = 1 THEN HeaderLen ELSE out[i - 1].rdata[1] + out[i - 1].rdata[2]
  /\ out[i].name = nameAt(job.msg, out[i].at).labels
  /\ out[i].rdata = IF i = 1 THEN <<questionEnd, 0>> ELSE <<rdataAt(job.msg, out[i].at), rdlenAt(job.msg, out[i].at)>>

(***************************************************************************)
(* ParseMessage accepts a message exactly when its question and all the    *)
(* records its header counts are there; what it returns are those, each    *)
(* where the one before ends, under the name its owner octets stand for    *)
(* and with the RDATA its own length announces.                            *)
(***************************************************************************)
MessageIsReference ==
  at = "done" /\ job.call = "ParseMessage" =>
    /\ err = "nil" <=> wellFormed
    /\ err = "nil" => Len(out) = entries /\ \A i \in 1..entries : placed(i)
=============================================================================
