----------------------------- MODULE WireProofs -----------------------------
(***************************************************************************)
(* What decoding costs and what it returns, for every sequence of octets.  *)
(* The bounds of WorkBounded follow from the place the cursor is at.  That *)
(* the loops return what nameAt and fits say, which have no cursor, is     *)
(* proved by relating what is still to be read to what the definitions say *)
(* of the place reached: a name is its labels so far before the name that  *)
(* stands at the cursor, a message its entries before the ones that fit.   *)
(***************************************************************************)
EXTENDS Wire, SequenceTheorems, FiniteSetTheorems, WellFoundedInduction, TLAPS

-----------------------------------------------------------------------------
\* Recursive functions on the natural numbers, stated of sets and functions
\* so that they apply to any definition.

\* A set with 0 and the successor of each of its numbers has them all.
LEMMA Induction ==
  ASSUME NEW S, 0 \in S, \A n \in Nat : n \in S => n + 1 \in S
  PROVE  \A n \in Nat : n \in S
PROOF
  <1> DEFINE T == {n \in Nat : n \notin S}
  <1> SUFFICES ASSUME T # {} PROVE FALSE
    OBVIOUS
  <1>1. PICK least \in T : \A y \in T : ~(<<y, least>> \in OpToRel(<, Nat))
    BY WFMin, NatLessThanWellFounded
  <1>2. least \in Nat /\ least \notin S /\ least # 0
    OBVIOUS
  <1>3. least - 1 \in Nat /\ least - 1 < least /\ (least - 1) + 1 = least
    BY <1>2
  <1>4. least - 1 \notin S
    BY <1>2, <1>3
  <1>5. least - 1 \in T
    BY <1>3, <1>4
  <1>6. <<least - 1, least>> \in OpToRel(<, Nat)
    <2>1. <<least - 1, least>> \in Nat \X Nat /\ <<least - 1, least>>[1] = least - 1 /\ <<least - 1, least>>[2] = least
      BY <1>2, <1>3
    <2>. QED BY Zenon, <1>3, <2>1 DEF OpToRel
  <1>. QED BY <1>1, <1>5, <1>6

\* f is defined by its value at 0 and by each value from the last.
Recursive(f, R, a0, step) ==
  f \in [Nat -> R] /\ f[0] = a0 /\ \A n \in Nat : f[n + 1] = step[f[n]]

LEMMA Recursion ==
  ASSUME NEW R, NEW a0 \in R, NEW step \in [R -> R]
  PROVE  \E f : Recursive(f, R, a0, step)
PROOF
  <1> DEFINE G(n) == {g \in [0..n -> R] : g[0] = a0 /\ \A i \in 0..(n - 1) : g[i + 1] = step[g[i]]}
             S == {n \in Nat : G(n) # {}}
  <1>1. 0 \in S
    <2>1. [i \in 0..0 |-> a0] \in G(0)
      OBVIOUS
    <2>. QED BY <2>1
  <1>2. ASSUME NEW n \in Nat, n \in S PROVE n + 1 \in S
    <2>1. PICK g \in G(n) : TRUE
      BY <1>2
    <2> DEFINE h == [i \in 0..(n + 1) |-> IF i <= n THEN g[i] ELSE step[g[n]]]
    <2>2. g \in [0..n -> R] /\ g[0] = a0 /\ \A i \in 0..(n - 1) : g[i + 1] = step[g[i]]
      BY <2>1
    <2>3. h \in [0..(n + 1) -> R]
      BY <2>2
    <2>4. h[0] = a0
      BY <2>2
    <2>5. ASSUME NEW i \in 0..n PROVE h[i + 1] = step[h[i]]
      <3>1. CASE i = n
        BY <3>1
      <3>2. CASE i # n
        <4>1. i \in 0..(n - 1) /\ i + 1 \in 0..(n + 1) /\ i + 1 <= n /\ i <= n
          BY <3>2
        <4>. QED BY <2>2, <4>1
      <3>. QED BY <3>1, <3>2
    <2>6. h \in G(n + 1)
      <3>1. (n + 1) - 1 = n
        OBVIOUS
      <3> HIDE DEF h
      <3>. QED BY <2>3, <2>4, <2>5, <3>1
    <2>7. n + 1 \in Nat
      OBVIOUS
    <2> HIDE DEF G, h
    <2>. QED BY <2>6, <2>7
  <1>3. \A n \in Nat : G(n) # {}
    <2> HIDE DEF G
    <2>1. \A n \in Nat : n \in S
      <3> HIDE DEF S
      <3>. QED BY <1>1, <1>2, Induction
    <2>. QED BY <2>1
  <1>4. ASSUME NEW n \in Nat, NEW g \in G(n), NEW h \in G(n + 1)
        PROVE  g[n] = h[n]
    <2> DEFINE D == {i \in Nat : i <= n => g[i] = h[i]}
    <2>1. 0 \in D
      OBVIOUS
    <2>2. ASSUME NEW i \in Nat, i \in D PROVE i + 1 \in D
      <3> SUFFICES ASSUME i + 1 <= n PROVE g[i + 1] = h[i + 1]
        OBVIOUS
      <3>1. i \in 0..(n - 1) /\ i \in 0..((n + 1) - 1) /\ g[i] = h[i]
        BY <2>2
      <3>. QED BY <3>1
    <2>3. \A i \in Nat : i \in D
      <3> HIDE DEF D
      <3>. QED BY <2>1, <2>2, Induction
    <2>. QED BY <2>3
  <1> DEFINE g(n) == CHOOSE h \in G(n) : TRUE
             f == [n \in Nat |-> g(n)[n]]
  <1>5. ASSUME NEW n \in Nat PROVE g(n) \in G(n)
    <2> HIDE DEF G
    <2>. QED BY <1>3
  <1>6. ASSUME NEW n \in Nat PROVE g(n)[n] \in R
    <2> HIDE DEF g
    <2>1. g(n) \in [0..n -> R] /\ n \in 0..n
      BY <1>5
    <2>. QED BY <2>1
  <1>7. f \in [Nat -> R]
    <2> HIDE DEF g
    <2>. QED BY <1>6
  <1>8. f[0] = a0
    <2> HIDE DEF g
    <2>. QED BY <1>5
  <1>9. ASSUME NEW n \in Nat PROVE f[n + 1] = step[f[n]]
    <2> HIDE DEF g
    <2>1. g(n) \in G(n) /\ g(n + 1) \in G(n + 1)
      <3>1. n + 1 \in Nat
        OBVIOUS
      <3> HIDE DEF G
      <3>. QED BY <1>5, <3>1
    <2>2. g(n)[n] = g(n + 1)[n]
      <3> HIDE DEF G
      <3>. QED BY <1>4, <2>1
    <2>3. n \in 0..((n + 1) - 1)
      OBVIOUS
    <2>4. g(n + 1)[n + 1] = step[g(n + 1)[n]]
      BY <2>1, <2>3
    <2>. QED BY <2>2, <2>4
  <1>. QED
    <2> HIDE DEF f
    <2>. QED BY <1>7, <1>8, <1>9 DEF Recursive

-----------------------------------------------------------------------------
\* The work of a call.

Octet == 0..255

Entry == [at : Nat, name : Seq(Seq(Octet)), next : Nat, rdata : Seq(Nat)]

\* The locals, and which of them are in use where.
Locals ==
  /\ job \in Jobs
  /\ at \in {"header", "name", "fields", "bitmap", "done"}
  /\ pos \in Nat /\ next \in Nat /\ hops \in Nat /\ start \in Nat
  /\ labels \in Seq(Seq(Octet))
  /\ at \in {"header", "fields"} => job.call = "ParseMessage"
  /\ at = "bitmap" => job.call = "DecodeTypeBitmap"
  /\ at \in {"header", "fields", "bitmap"} => labels = << >> /\ hops = 0 /\ next = 0
  /\ job.call = "ParseMessage" => out \in Seq(Entry)

\* A label moves the cursor on, and a pointer moves it back by less than
\* the message is long.
Passes ==
  /\ hops <= MaxPointerHops
  /\ Len(labels) <= hops * size + pos
  /\ labels # << >> \/ hops > 0 => pos <= size

\* The entries decoded lie one after the other before the cursor.
Room ==
  job.call = "ParseMessage" =>
    /\ at = "header" => out = << >>
    /\ at = "name" => /\ HeaderLen <= start /\ start <= size /\ 11 * Len(out) <= start
                      /\ next = 0 => start <= pos
                      /\ next # 0 => start < next /\ next <= size
    /\ at = "fields" => /\ HeaderLen < pos /\ pos <= size /\ 11 * Len(out) <= pos + 10
                        /\ Len(out) >= 1
    /\ at = "done" => 11 * Len(out) <= size + 11

Decoding == Locals /\ Passes /\ Room

-----------------------------------------------------------------------------
LEMMA Number ==
  ASSUME NEW a \in Octet, NEW b \in Octet
  PROVE  a * 256 + b \in Nat /\ (a % 64) * 256 + b \in Nat
PROOF
  <1>1. a \in Nat /\ b \in Nat /\ a % 64 \in Nat
    BY DEF Octet
  <1>. QED BY <1>1

LEMMA Messages ==
  ASSUME Locals
  PROVE  /\ size \in Nat
         /\ \A i \in Nat : i < size => octet(i) \in Octet
         /\ \A i \in Nat : i + 1 < size => uint16(i) \in Nat
         /\ job.call \in {"ParseMessage", "ParseDomainName", "DecodeTypeBitmap"}
         /\ MaxPointerHops \in Nat
PROOF
  <1>1. job.msg \in Seq(Octet) /\ job.call \in {"ParseMessage", "ParseDomainName", "DecodeTypeBitmap"}
    BY JobsAssumption DEF Locals, Octet
  <1>2. size \in Nat /\ \A i \in 1..size : job.msg[i] \in Octet
    BY <1>1 DEF size
  <1>3. \A i \in Nat : i < size => job.msg[i + 1] \in Octet
    BY <1>2
  <1>4. \A i \in Nat : i + 1 < size => job.msg[i + 1] \in Octet /\ job.msg[i + 2] \in Octet
    BY <1>2
  <1>5. ASSUME NEW i \in Nat, i + 1 < size PROVE uint16(i) \in Nat
    BY <1>4, <1>5, Number DEF uint16, u16
  <1>. QED BY <1>1, <1>2, <1>3, <1>5, JobsAssumption DEF octet, u8

\* One more pass.
LEMMA Pass ==
  ASSUME NEW h \in Nat, NEW s \in Nat
  PROVE  h * s \in Nat /\ (h + 1) * s = h * s + s
PROOF
  OBVIOUS

LEMMA InitDecoding == Init => Decoding
PROOF
  <1> SUFFICES ASSUME Init PROVE Decoding
    OBVIOUS
  <1>1. /\ job \in Jobs /\ job.offset \in Nat
        /\ job.call \in {"ParseMessage", "ParseDomainName", "DecodeTypeBitmap"}
    BY JobsAssumption DEF Init
  <1>2. /\ job.call = "ParseMessage" => at = "header"
        /\ job.call = "ParseDomainName" => at = "name"
        /\ job.call = "DecodeTypeBitmap" => at = "bitmap"
    BY DEF Init
  <1>3. Locals
    BY <1>1, <1>2 DEF Init, Locals
  <1>4. 0 * size = 0
    BY <1>3, Messages
  <1>5. Passes
    BY <1>1, <1>4, JobsAssumption DEF Init, Passes
  <1>6. Room
    BY <1>2 DEF Init, Room
  <1>. QED BY <1>3, <1>5, <1>6 DEF Decoding

\* An error ends the call where it is.
LEMMA FailKeeps ==
  ASSUME Decoding, NEW e, Fail(e)
  PROVE  Decoding'
PROOF
  <1>1. Locals /\ Passes /\ Room
    BY DEF Decoding
  <1>2. /\ at' = "done" /\ out' = << >> /\ job' = job /\ pos' = pos /\ labels' = labels
        /\ next' = next /\ hops' = hops /\ start' = start
    BY DEF Fail, locals
  <1>3. size' = size /\ size \in Nat
    BY <1>1, <1>2, Messages DEF size
  <1>4. Locals'
    BY <1>1, <1>2 DEF Locals
  <1>5. Passes'
    BY <1>1, <1>2, <1>3 DEF Passes
  <1>6. Room'
    BY <1>2, <1>3 DEF Room
  <1>. QED BY <1>4, <1>5, <1>6 DEF Decoding

LEMMA LabelKeeps ==
  ASSUME Decoding, Label
  PROVE  Decoding'
PROOF
  <1>1. Locals /\ Passes /\ Room /\ at = "name"
    BY DEF Decoding, Label
  <1> DEFINE l == SubSeq(job.msg, pos + 2, pos + 1 + octet(pos))
  <1>2. /\ labels' = Append(labels, l) /\ pos' = pos + 1 + octet(pos)
        /\ pos < size /\ octet(pos) \in 1..63 /\ pos + 1 + octet(pos) <= size
        /\ job' = job /\ at' = at /\ next' = next /\ hops' = hops /\ start' = start /\ out' = out
    BY DEF Label
  <1>3. size' = size /\ size \in Nat
    BY <1>1, <1>2, Messages DEF size
  <1>4. l \in Seq(Octet)
    <2>1. job.msg \in Seq(Octet)
      BY <1>1, JobsAssumption DEF Locals, Octet
    <2>. QED BY <1>1, <1>2, <2>1 DEF Locals, size
  <1> HIDE DEF l
  <1>5. labels' \in Seq(Seq(Octet)) /\ Len(labels') = Len(labels) + 1 /\ Len(labels) \in Nat
    BY <1>1, <1>2, <1>4 DEF Locals
  <1>6. pos' \in Nat /\ pos' <= size /\ pos' >= pos + 1
    <2>1. pos \in Nat /\ octet(pos) \in Nat /\ octet(pos) >= 1
      <3>1. octet(pos) \in 1..63
        BY <1>2
      <3>2. \A b \in 1..63 : b \in Nat /\ b >= 1
        OBVIOUS
      <3>. QED BY Zenon, <1>1, <3>1, <3>2 DEF Locals
    <2>. QED BY <1>2, <1>3, <2>1
  <1>7. Locals'
    BY <1>1, <1>2, <1>5, <1>6 DEF Locals
  <1>8. Passes'
    <2>1. hops * size \in Nat
      BY <1>1, <1>3, Pass DEF Locals
    <2>. QED BY <1>1, <1>2, <1>3, <1>5, <1>6, <2>1 DEF Passes, Locals
  <1>9. Room'
    BY <1>1, <1>2, <1>3, <1>6 DEF Room, Locals
  <1>. QED BY <1>7, <1>8, <1>9 DEF Decoding

LEMMA PointerKeeps ==
  ASSUME Decoding, Pointer
  PROVE  Decoding'
PROOF
  <1>1. Locals /\ Passes /\ Room /\ at = "name" /\ pos + 1 < size
    BY DEF Decoding, Pointer
  <1>2. CASE pointerError # "nil"
    BY <1>2, FailKeeps DEF Pointer
  <1>3. CASE pointerError = "nil"
    <2>1. /\ pos' = pointer /\ next' = after(pos + 2) /\ hops' = hops + 1
          /\ job' = job /\ at' = at /\ labels' = labels /\ start' = start /\ out' = out
      BY <1>3 DEF Pointer
    <2>2. size' = size /\ size \in Nat
      BY <1>1, <2>1, Messages DEF size
    <2>3. octet(pos) \in Octet /\ octet(pos + 1) \in Octet
      BY <1>1, Messages DEF Locals
    <2>4. pointer \in Nat
      BY <2>3, Number DEF pointer
    <2>5. pointer < pos /\ hops + 1 <= MaxPointerHops
      BY <1>1, <1>3, <2>4, Messages DEF pointerError, Locals
    <2>6. next' \in Nat /\ next' # 0
      BY <1>1, <2>1 DEF after, Locals
    <2>7. Locals'
      BY <1>1, <2>1, <2>4, <2>6 DEF Locals
    <2>8. Passes'
      <3>1. hops * size \in Nat /\ (hops + 1) * size = hops * size + size
        BY <1>1, <2>2, Pass DEF Locals
      <3>2. Len(labels) \in Nat
        BY <1>1 DEF Locals
      <3>3. Len(labels') <= hops' * size' + pos'
        <4>1. Len(labels) <= hops * size + pos
          BY <1>1 DEF Passes
        <4>2. Len(labels) <= (hops + 1) * size + pointer
          BY <1>1, <2>2, <2>4, <3>1, <3>2, <4>1 DEF Locals
        <4>. QED BY <2>1, <2>2, <4>2
      <3>. QED BY <1>1, <2>1, <2>2, <2>4, <2>5, <3>3, Messages DEF Passes, Locals
    <2>9. Room'
      <3> SUFFICES ASSUME job.call = "ParseMessage" PROVE Room'
        BY <2>1 DEF Room
      <3>1. start < next' /\ next' <= size
        BY <1>1, <2>1, <2>2 DEF Room, Locals, after
      <3>. QED BY <1>1, <2>1, <2>2, <2>6, <3>1 DEF Room
    <2>. QED BY <2>7, <2>8, <2>9 DEF Decoding
  <1>. QED BY <1>2, <1>3

LEMMA NameEndKeeps ==
  ASSUME Decoding, NameEnd
  PROVE  Decoding'
PROOF
  <1>1. Locals /\ Passes /\ Room /\ at = "name" /\ pos < size
    BY DEF Decoding, NameEnd
  <1> DEFINE e == [at |-> start, name |-> labels, next |-> after(pos + 1), rdata |-> << >>]
  <1>2. /\ labels' = << >> /\ next' = 0 /\ hops' = 0 /\ pos' = after(pos + 1) /\ out' = Append(out, e)
        /\ at' = (IF job.call = "ParseMessage" THEN "fields" ELSE "done")
        /\ job' = job /\ start' = start
    BY DEF NameEnd
  <1>3. size' = size /\ size \in Nat
    BY <1>1, <1>2, Messages DEF size
  <1>4. after(pos + 1) \in Nat
    BY <1>1 DEF after, Locals
  <1>5. e \in Entry
    BY <1>1, <1>4 DEF Entry, Locals
  <1> HIDE DEF e
  <1>6. Locals'
    BY <1>1, <1>2, <1>4, <1>5 DEF Locals
  <1>7. Passes'
    <2>1. 0 * size = 0 /\ Len(labels') = 0
      BY <1>2, <1>3
    <2>. QED BY <1>1, <1>2, <1>3, <1>4, <2>1, Messages DEF Passes
  <1>8. Room'
    <2> SUFFICES ASSUME job.call = "ParseMessage" PROVE Room'
      BY <1>2 DEF Room
    <2>1. at' = "fields" /\ start < pos' /\ pos' <= size /\ pos' \in Nat
      BY <1>1, <1>2, <1>3, <1>4 DEF Room, Locals, after
    <2>2. Len(out') = Len(out) + 1 /\ Len(out) \in Nat
      BY <1>1, <1>2, <1>5 DEF Locals
    <2>3. HeaderLen <= start /\ 11 * Len(out) <= start /\ HeaderLen = 12
      BY <1>1 DEF Room, HeaderLen
    <2>. QED BY <1>1, <1>3, <2>1, <2>2, <2>3 DEF Room, Locals
  <1>. QED BY <1>6, <1>7, <1>8 DEF Decoding

\* The next entry begins at from, behind what was decoded.
LEMMA NextEntryKeeps ==
  ASSUME Decoding, at \in {"header", "fields"}, NEW todo, NEW from \in Nat, NextEntry(todo, from),
         out' \in Seq(Entry), HeaderLen <= from, from <= size, 11 * Len(out') <= from,
         job' = job, labels' = labels, next' = next, hops' = hops
  PROVE  Decoding'
PROOF
  <1>1. Locals /\ job.call = "ParseMessage" /\ labels = << >> /\ hops = 0 /\ next = 0
    BY DEF Decoding, Locals
  <1>2. pos' = from /\ start' = from /\ at' \in {"done", "name"}
    BY DEF NextEntry
  <1>3. size' = size /\ size \in Nat /\ Len(out') \in Nat
    BY <1>1, Messages DEF size
  <1>4. Locals'
    BY <1>1, <1>2 DEF Locals
  <1>5. Passes'
    <2>1. 0 * size = 0 /\ Len(labels') = 0
      BY <1>1, <1>3
    <2>. QED BY <1>1, <1>2, <1>3, <2>1, Messages DEF Passes
  <1>6. Room'
    BY <1>1, <1>2, <1>3 DEF Room
  <1>. QED BY <1>4, <1>5, <1>6 DEF Decoding

LEMMA HeaderKeeps ==
  ASSUME Decoding, Header
  PROVE  Decoding'
PROOF
  <1>1. Locals /\ Room /\ at = "header" /\ size >= HeaderLen /\ NextEntry(counts, HeaderLen)
        /\ job' = job /\ labels' = labels /\ next' = next /\ hops' = hops /\ out' = out
    BY DEF Decoding, Header
  <1>2. out' = << >> /\ HeaderLen \in Nat
    BY <1>1 DEF Room, Locals, HeaderLen
  <1>3. size \in Nat /\ Len(out') = 0 /\ out' \in Seq(Entry)
    BY <1>1, <1>2, Messages
  <1>. QED BY <1>1, <1>2, <1>3, NextEntryKeeps

LEMMA FieldsTyped ==
  ASSUME Locals, at = "fields", pos + fieldsLen <= size
  PROVE  /\ fieldsLen \in Nat /\ (Len(out) = 1 => fieldsLen = 4) /\ (Len(out) # 1 => fieldsLen = 10)
         /\ rdlen \in Nat /\ pos + fieldsLen + rdlen \in Nat
PROOF
  <1>1. pos \in Nat /\ size \in Nat
    BY Messages DEF Locals
  <1>2. fieldsLen \in Nat /\ (Len(out) = 1 => fieldsLen = 4) /\ (Len(out) # 1 => fieldsLen = 10)
    BY DEF fieldsLen, inQuestion
  <1>3. rdlen \in Nat
    <2>1. CASE inQuestion
      BY <2>1 DEF rdlen
    <2>2. CASE ~inQuestion
      <3>1. pos + 10 <= size
        BY <1>2, <2>2 DEF inQuestion
      <3>2. pos + 8 \in Nat /\ pos + 8 + 1 < size
        BY <1>1, <3>1
      <3>3. uint16(pos + 8) \in Nat
        BY <3>2, Messages
      <3>. QED BY <2>2, <3>3 DEF rdlen
    <2>. QED BY <2>1, <2>2
  <1>. QED BY <1>1, <1>2, <1>3

LEMMA FieldsKeeps ==
  ASSUME Decoding, Fields
  PROVE  Decoding'
PROOF
  <1>1. Locals /\ Room /\ at = "fields"
        /\ job' = job /\ labels' = labels /\ next' = next /\ hops' = hops
    BY DEF Decoding, Fields
  <1>2. /\ out' = [out EXCEPT ![Len(out)].rdata = <<pos + fieldsLen, rdlen>>]
        /\ NextEntry([left EXCEPT ![section] = @ - 1], pos + fieldsLen + rdlen)
        /\ pos + fieldsLen <= size /\ pos + fieldsLen + rdlen <= size
    BY DEF Fields
  <1>3. /\ job.call = "ParseMessage" /\ out \in Seq(Entry) /\ Len(out) >= 1 /\ size \in Nat
        /\ HeaderLen < pos /\ 11 * Len(out) <= pos + 10 /\ pos \in Nat
    BY <1>1, Messages DEF Locals, Room
  <1>4. fieldsLen \in Nat /\ (Len(out) = 1 => fieldsLen = 4) /\ (Len(out) # 1 => fieldsLen = 10)
    BY <1>1, <1>2, FieldsTyped
  <1>5. rdlen \in Nat
    BY <1>1, <1>2, FieldsTyped
  <1>6. out' \in Seq(Entry) /\ Len(out') = Len(out)
    <2>1. <<pos + fieldsLen, rdlen>> \in Seq(Nat)
      BY <1>3, <1>4, <1>5
    <2>2. Len(out) \in 1..Len(out)
      BY <1>3
    <2>3. out[Len(out)] \in Entry
      BY <1>3, <2>2
    <2>4. [out[Len(out)] EXCEPT !.rdata = <<pos + fieldsLen, rdlen>>] \in Entry
      BY <2>1, <2>3 DEF Entry
    <2>. QED BY <1>2, <1>3, <2>2, <2>4
  <1>7. 11 * Len(out') <= pos + fieldsLen + rdlen /\ HeaderLen <= pos + fieldsLen + rdlen
        /\ pos + fieldsLen + rdlen \in Nat
    BY <1>3, <1>4, <1>5, <1>6 DEF HeaderLen
  <1>. QED BY <1>1, <1>2, <1>6, <1>7, NextEntryKeeps

LEMMA BitmapKeeps ==
  ASSUME Decoding, DecodeWindow \/ BitmapEnd
  PROVE  Decoding'
PROOF
  <1>1. Locals /\ Passes /\ at = "bitmap" /\ job.call = "DecodeTypeBitmap"
        /\ labels = << >> /\ hops = 0 /\ next = 0
    BY DEF Decoding, DecodeWindow, BitmapEnd, Locals
  <1>2. /\ job' = job /\ at' \in {"bitmap", "done"} /\ labels' = labels /\ next' = next
        /\ hops' = hops /\ start' = start
    BY <1>1 DEF DecodeWindow, BitmapEnd, locals
  <1>3. size' = size /\ size \in Nat
    BY <1>1, <1>2, Messages DEF size
  <1>4. pos' \in Nat
    <2>1. CASE BitmapEnd
      BY <1>1, <2>1 DEF BitmapEnd, Locals
    <2>2. CASE DecodeWindow
      <3>1. pos + 2 <= size
        BY <2>2 DEF DecodeWindow, windowWhole, size
      <3>2. octet(pos + 1) \in Octet
        BY <1>1, <1>3, <3>1, Messages DEF Locals
      <3>3. octet(pos + 1) \in Nat /\ pos \in Nat
        <4>1. Octet \subseteq Nat
          BY DEF Octet
        <4>. QED BY Zenon, <1>1, <3>2, <4>1 DEF Locals
      <3>4. pos' = pos + 2 + octet(pos + 1)
        BY <2>2 DEF DecodeWindow
      <3>. QED BY <3>3, <3>4
    <2>. QED BY <2>1, <2>2
  <1>5. Locals'
    BY <1>1, <1>2, <1>4 DEF Locals
  <1>6. Passes'
    <2>1. 0 * size = 0 /\ Len(labels') = 0
      BY <1>1, <1>2, <1>3
    <2>2. hops' * size' = 0 /\ hops' <= MaxPointerHops
      BY <1>1, <1>2, <1>3, <2>1, Messages
    <2>3. Len(labels') <= hops' * size' + pos'
      BY <1>4, <2>1, <2>2
    <2>4. labels' = << >> /\ ~(hops' > 0)
      BY <1>1, <1>2
    <2>. QED BY <2>2, <2>3, <2>4 DEF Passes
  <1>7. Room'
    BY <1>1, <1>2 DEF Room
  <1>. QED BY <1>5, <1>6, <1>7 DEF Decoding

LEMMA DecodingKeeps == Decoding /\ [Next]_vars => Decoding'
PROOF
  <1> SUFFICES ASSUME Decoding, [Next]_vars PROVE Decoding'
    OBVIOUS
  <1>1. CASE NameTruncated \/ HeaderMalformed \/ FieldsTruncated \/ WindowMalformed
    BY <1>1, FailKeeps DEF NameTruncated, HeaderMalformed, FieldsTruncated, WindowMalformed
  <1>2. CASE UNCHANGED vars
    BY <1>2 DEF vars, Decoding, Locals, Passes, Room, size
  <1>. QED BY <1>1, <1>2, LabelKeeps, PointerKeeps, NameEndKeeps, HeaderKeeps, FieldsKeeps, BitmapKeeps
       DEF Next, Step, Finished

(***************************************************************************)
(* Decoding any message from anywhere stays within the work its octets     *)
(* allow: no chain of pointers and no count in a header makes              *)
(* ParseDomainName or ParseMessage do more.                                *)
(***************************************************************************)
THEOREM DecodingBounded == Spec => []WorkBounded
PROOF
  <1>1. Decoding => WorkBounded
    <2> SUFFICES ASSUME Decoding PROVE WorkBounded
      OBVIOUS
    <2>1. Locals /\ Passes /\ Room /\ size \in Nat
      BY Messages DEF Decoding
    <2>2. Len(labels) \in Nat /\ hops * size \in Nat /\ (hops + 1) * size = hops * size + size
      BY <2>1, Pass DEF Locals
    <2>3. Len(labels) <= (hops + 1) * size
      <3>1. CASE labels = << >> /\ hops = 0
        BY <2>1, <2>2, <3>1
      <3>2. CASE labels # << >> \/ hops # 0
        <4>1. pos <= size /\ Len(labels) <= hops * size + pos
          BY <2>1, <3>2 DEF Passes, Locals
        <4>. QED BY <2>1, <2>2, <4>1 DEF Locals
      <3>. QED BY <3>1, <3>2
    <2>4. job.call = "ParseMessage" => 11 * Len(out) <= size + 11
      <3> SUFFICES ASSUME job.call = "ParseMessage" PROVE 11 * Len(out) <= size + 11
        OBVIOUS
      <3>1. out \in Seq(Entry) /\ Len(out) \in Nat /\ at # "bitmap"
        BY <2>1 DEF Locals
      <3>. QED BY <2>1, <3>1 DEF Locals, Room
    <2>. QED BY <2>1, <2>3, <2>4 DEF WorkBounded, Passes
  <1>. QED BY <1>1, InitDecoding, DecodingKeeps, PTL DEF Spec

-----------------------------------------------------------------------------
\* What the octets of a name stand for.

Labels == Seq(Seq(Octet))

Name == [ok : BOOLEAN, labels : Labels, hops : Nat, end : Nat]

\* Where a label and where a pointer leads.
behind(m, q) == q + 1 + u8(m, q)
target(m, q) == u16(m, q) - 49152

IsLabel(m, q) == q < Len(m) /\ u8(m, q) \in 1..63 /\ behind(m, q) <= Len(m)
IsBack(m, q) == q + 1 < Len(m) /\ u8(m, q) >= 192 /\ target(m, q) < q

LEMMA LengthOctet ==
  ASSUME NEW b
  PROVE  b \in 1..63 <=> b \in Nat /\ b # 0 /\ b <= 63
PROOF
  OBVIOUS

LEMMA NameParts ==
  /\ << >> \in Labels
  /\ \A n \in Name : n.ok \in BOOLEAN /\ n.labels \in Labels /\ n.hops \in Nat /\ n.end \in Nat
  /\ \A o \in BOOLEAN, l \in Labels, h \in Nat, e \in Nat :
       [ok |-> o, labels |-> l, hops |-> h, end |-> e] \in Name
PROOF
  <1>1. << >> \in Labels
    BY DEF Labels
  <1>. QED BY <1>1 DEF Name

LEMMA OctetsAt ==
  ASSUME NEW m \in Seq(Octet), NEW q \in Nat
  PROVE  /\ Len(m) \in Nat
         /\ q < Len(m) => u8(m, q) \in Octet /\ u8(m, q) \in Nat /\ u8(m, q) <= 255 /\ behind(m, q) \in Nat
         /\ q + 1 < Len(m) => /\ u16(m, q) = u8(m, q) * 256 + u8(m, q + 1) /\ u16(m, q) \in Nat
                              /\ u8(m, q) >= 192 => target(m, q) \in Nat
PROOF
  <1>1. Len(m) \in Nat /\ \A i \in 1..Len(m) : m[i] \in Octet
    OBVIOUS
  <1>2. \A b \in Octet : b \in Nat /\ b <= 255
    BY DEF Octet
  <1>3. ASSUME q < Len(m) PROVE u8(m, q) \in Octet
    BY <1>1, <1>3 DEF u8
  <1>4. ASSUME q + 1 < Len(m)
        PROVE  u8(m, q + 1) \in Octet /\ u16(m, q) = u8(m, q) * 256 + u8(m, q + 1)
    <2>1. q + 2 \in 1..Len(m) /\ (q + 1) + 1 = q + 2
      BY <1>1, <1>4
    <2>. QED BY <1>1, <2>1 DEF u8, u16
  <1>5. q + 1 < Len(m) => q < Len(m)
    BY <1>1
  <1>6. ASSUME q + 1 < Len(m)
        PROVE  u16(m, q) \in Nat /\ (u8(m, q) >= 192 => target(m, q) \in Nat)
    <2>1. u8(m, q) \in Nat /\ u8(m, q + 1) \in Nat
      BY <1>2, <1>3, <1>4, <1>5, <1>6
    <2>. QED BY <1>4, <1>6, <2>1 DEF target
  <1>. QED BY <1>1, <1>2, <1>3, <1>4, <1>5, <1>6 DEF behind

\* The rounds at q: the root, a label, a pointer, and what is no name.
LEMMA Rounds ==
  ASSUME NEW m \in Seq(Octet), NEW rest \in [Nat -> Name], NEW q \in Nat
  PROVE  /\ q < Len(m) /\ u8(m, q) = 0 =>
              expandAt(m, rest, q) = [ok |-> TRUE, labels |-> << >>, hops |-> 0, end |-> q + 1]
         /\ IsLabel(m, q) =>
              /\ behind(m, q) \in Nat
              /\ expandAt(m, rest, q) =
                   [ok |-> rest[behind(m, q)].ok,
                    labels |-> <<slice(m, q + 1, behind(m, q))>> \o rest[behind(m, q)].labels,
                    hops |-> rest[behind(m, q)].hops, end |-> rest[behind(m, q)].end]
         /\ IsBack(m, q) =>
              /\ target(m, q) \in Nat
              /\ expandAt(m, rest, q) =
                   [ok |-> rest[target(m, q)].ok, labels |-> rest[target(m, q)].labels,
                    hops |-> rest[target(m, q)].hops + 1, end |-> q + 2]
         /\ ~(q < Len(m) /\ u8(m, q) = 0) /\ ~IsLabel(m, q) /\ ~IsBack(m, q) =>
              expandAt(m, rest, q) = NoName
PROOF
  <1>1. Len(m) \in Nat
    BY OctetsAt
  <1>2. ASSUME q < Len(m), u8(m, q) = 0
        PROVE  expandAt(m, rest, q) = [ok |-> TRUE, labels |-> << >>, hops |-> 0, end |-> q + 1]
    <2>1. ~(q >= Len(m))
      BY <1>1, <1>2
    <2>. QED BY <1>2, <2>1 DEF expandAt
  <1>3. ASSUME IsLabel(m, q)
        PROVE  /\ behind(m, q) \in Nat
               /\ expandAt(m, rest, q) =
                   [ok |-> rest[behind(m, q)].ok,
                    labels |-> <<slice(m, q + 1, behind(m, q))>> \o rest[behind(m, q)].labels,
                    hops |-> rest[behind(m, q)].hops, end |-> rest[behind(m, q)].end]
    <2>1. ~(q >= Len(m)) /\ u8(m, q) # 0 /\ u8(m, q) <= 63 /\ q + 1 + u8(m, q) <= Len(m) /\ behind(m, q) \in Nat
      <3>1. q < Len(m) /\ u8(m, q) \in 1..63 /\ q + 1 + u8(m, q) <= Len(m) /\ behind(m, q) \in Nat
        BY <1>3, OctetsAt DEF IsLabel, behind
      <3>2. u8(m, q) # 0 /\ u8(m, q) <= 63
        BY <3>1, LengthOctet
      <3>. QED BY <1>1, <3>1, <3>2
    <2>2. rest[behind(m, q)] \in Name
      BY <2>1
    <2>3. expandAt(m, rest, q) = [rest[behind(m, q)] EXCEPT !.labels = <<slice(m, q + 1, behind(m, q))>> \o @]
      BY <2>1 DEF expandAt, behind
    <2> DEFINE r == rest[behind(m, q)]
               l == <<slice(m, q + 1, behind(m, q))>>
    <2>4. expandAt(m, rest, q) = [r EXCEPT !.labels = l \o r.labels] /\ r \in Name
      BY <2>2, <2>3
    <2> HIDE DEF r, l
    <2>5. expandAt(m, rest, q) = [ok |-> r.ok, labels |-> l \o r.labels, hops |-> r.hops, end |-> r.end]
      BY <2>4 DEF Name
    <2>. QED BY <2>1, <2>5 DEF r, l
  <1>4. ASSUME IsBack(m, q)
        PROVE  /\ target(m, q) \in Nat
               /\ expandAt(m, rest, q) =
                   [ok |-> rest[target(m, q)].ok, labels |-> rest[target(m, q)].labels,
                    hops |-> rest[target(m, q)].hops + 1, end |-> q + 2]
    <2>1. ~(q >= Len(m)) /\ u8(m, q) # 0 /\ ~(u8(m, q) <= 63) /\ u8(m, q) >= 192 /\ q + 1 < Len(m)
          /\ u16(m, q) - 49152 < q /\ target(m, q) \in Nat
      BY <1>1, <1>4, OctetsAt DEF IsBack, target
    <2> DEFINE r == rest[target(m, q)]
    <2>2. expandAt(m, rest, q) = [r EXCEPT !.hops = r.hops + 1, !.end = q + 2] /\ r \in Name
      BY <2>1 DEF expandAt, target
    <2> HIDE DEF r
    <2>3. expandAt(m, rest, q) = [ok |-> r.ok, labels |-> r.labels, hops |-> r.hops + 1, end |-> q + 2]
      BY <2>2 DEF Name
    <2>. QED BY <2>1, <2>3 DEF r
  <1>5. ASSUME ~(q < Len(m) /\ u8(m, q) = 0), ~IsLabel(m, q), ~IsBack(m, q)
        PROVE  expandAt(m, rest, q) = NoName
    <2>1. CASE q >= Len(m)
      BY <2>1 DEF expandAt
    <2>2. CASE q < Len(m)
      <3>1. u8(m, q) \in Nat /\ ~(q >= Len(m)) /\ u8(m, q) # 0
        BY <1>1, <1>5, <2>2, OctetsAt
      <3>2. ~(u8(m, q) <= 63 /\ q + 1 + u8(m, q) <= Len(m))
        <4> SUFFICES ASSUME u8(m, q) <= 63, q + 1 + u8(m, q) <= Len(m) PROVE FALSE
          OBVIOUS
        <4>1. u8(m, q) \in 1..63
          BY <3>1, LengthOctet
        <4>. QED BY <1>5, <2>2, <4>1 DEF IsLabel, behind
      <3>3. ~(u8(m, q) >= 192 /\ q + 1 < Len(m) /\ u16(m, q) - 49152 < q)
        BY <1>5 DEF IsBack, target
      <3>. QED BY <3>1, <3>2, <3>3 DEF expandAt
    <2>. QED BY <1>1, <2>1, <2>2
  <1>. QED BY <1>2, <1>3, <1>4, <1>5

LEMMA RoundType ==
  ASSUME NEW m \in Seq(Octet), NEW rest \in [Nat -> Name], NEW q \in Nat
  PROVE  expandAt(m, rest, q) \in Name
PROOF
  <1>1. CASE q < Len(m) /\ u8(m, q) = 0
    <2>1. expandAt(m, rest, q) = [ok |-> TRUE, labels |-> << >>, hops |-> 0, end |-> q + 1]
      BY <1>1, Rounds
    <2>2. q + 1 \in Nat
      OBVIOUS
    <2>. QED BY <2>1, <2>2, NameParts
  <1>2. CASE IsLabel(m, q)
    <2> DEFINE l == slice(m, q + 1, behind(m, q))
    <2>1. l \in Seq(Octet)
      <3>1. behind(m, q) \in Nat /\ behind(m, q) <= Len(m)
        BY <1>2, Rounds DEF IsLabel
      <3>. QED BY <3>1 DEF slice
    <2> HIDE DEF l
    <2>2. rest[behind(m, q)] \in Name
      BY <1>2, Rounds
    <2>3. <<l>> \o rest[behind(m, q)].labels \in Labels
      <3> DEFINE T == Seq(Octet)
      <3>1. l \in T
        BY <2>1
      <3>2. rest[behind(m, q)].labels \in Seq(T)
        BY <2>2 DEF Name, Labels
      <3> HIDE DEF T
      <3>3. <<l>> \o rest[behind(m, q)].labels \in Seq(T)
        BY <3>1, <3>2
      <3>. QED BY <3>3 DEF Labels, T
    <2>4. expandAt(m, rest, q) =
                   [ok |-> rest[behind(m, q)].ok, labels |-> <<l>> \o rest[behind(m, q)].labels,
                    hops |-> rest[behind(m, q)].hops, end |-> rest[behind(m, q)].end]
      BY <1>2, Rounds DEF l
    <2> DEFINE r == rest[behind(m, q)]
               ls == <<l>> \o r.labels
    <2>5. r \in Name /\ ls \in Labels /\ expandAt(m, rest, q) = [ok |-> r.ok, labels |-> ls, hops |-> r.hops, end |-> r.end]
      BY <2>2, <2>3, <2>4
    <2> HIDE DEF r, ls
    <2>. QED BY <2>5 DEF Name
  <1>3. CASE IsBack(m, q)
    <2>1. rest[target(m, q)] \in Name
      BY <1>3, Rounds
    <2>2. expandAt(m, rest, q) =
                   [ok |-> rest[target(m, q)].ok, labels |-> rest[target(m, q)].labels,
                    hops |-> rest[target(m, q)].hops + 1, end |-> q + 2]
      BY <1>3, Rounds
    <2>3. rest[target(m, q)].hops + 1 \in Nat /\ q + 2 \in Nat
      BY <2>1, NameParts
    <2> DEFINE r == rest[target(m, q)]
    <2>4. r \in Name /\ expandAt(m, rest, q) = [ok |-> r.ok, labels |-> r.labels, hops |-> r.hops + 1, end |-> q + 2]
          /\ r.hops + 1 \in Nat /\ q + 2 \in Nat
      BY <2>1, <2>2, <2>3
    <2> HIDE DEF r
    <2>. QED BY <2>4 DEF Name
  <1>4. CASE ~(q < Len(m) /\ u8(m, q) = 0) /\ ~IsLabel(m, q) /\ ~IsBack(m, q)
    <2>1. expandAt(m, rest, q) = NoName
      BY <1>4, Rounds
    <2>. QED BY <2>1, NameParts DEF NoName
  <1>. QED BY <1>1, <1>2, <1>3, <1>4

\* expansions is what its definition says.
LEMMA Expansions ==
  ASSUME NEW m \in Seq(Octet)
  PROVE  /\ expansions(m) \in [Nat -> [Nat -> Name]]
         /\ expansions(m)[0] = [q \in Nat |-> NoName]
         /\ \A k \in Nat : expansions(m)[k + 1] = [q \in Nat |-> expandAt(m, expansions(m)[k], q)]
PROOF
  <1> DEFINE R == [Nat -> Name]
             none == [q \in Nat |-> NoName]
             once(rest) == [q \in Nat |-> expandAt(m, rest, q)]
             step == [rest \in R |-> once(rest)]
             body(f) == [k \in Nat |-> IF k = 0 THEN none ELSE once(f[k - 1])]
  <1>1. none \in R
    BY NameParts DEF NoName
  <1>2. ASSUME NEW rest \in R PROVE once(rest) \in R
    BY RoundType
  <1> HIDE DEF R
  <1>3. PICK f : Recursive(f, R, none, step)
    <2>1. step \in [R -> R]
      <3> HIDE DEF once
      <3>. QED BY <1>2
    <2> HIDE DEF step, none
    <2>. QED BY <1>1, <2>1, Recursion
  <1>4. f = body(f)
    <2> HIDE DEF none, once
    <2>0. f \in [Nat -> R] /\ f[0] = none /\ \A n \in Nat : f[n + 1] = step[f[n]]
      BY <1>3 DEF Recursive
    <2>1. ASSUME NEW k \in Nat PROVE f[k] = body(f)[k]
      <3>1. CASE k = 0
        BY <2>0, <3>1
      <3>2. CASE k # 0
        <4>1. k - 1 \in Nat /\ (k - 1) + 1 = k
          BY <3>2
        <4>2. f[k] = step[f[k - 1]] /\ f[k - 1] \in R
          BY <2>0, <4>1
        <4>. QED BY <3>2, <4>2
      <3>. QED BY <3>1, <3>2
    <2>. QED BY <2>0, <2>1
  <1>5. expansions(m) = CHOOSE e : e = body(e)
    BY DEF expansions
  <1> DEFINE e == expansions(m)
  <1>6. e = body(e)
    <2> HIDE DEF body, e
    <2>. QED BY <1>4, <1>5 DEF e
  <1> HIDE DEF e
  <1>7. e[0] = none /\ \A k \in Nat : e[k + 1] = once(e[k])
    <2> HIDE DEF none, once
    <2>1. ASSUME NEW k \in Nat PROVE e[k + 1] = once(e[k])
      <3>1. k + 1 \in Nat /\ k + 1 # 0 /\ (k + 1) - 1 = k
        OBVIOUS
      <3>2. e[k + 1] = body(e)[k + 1]
        BY <1>6
      <3> DEFINE j == k + 1
      <3> HIDE DEF j
      <3>3. body(e)[j] = once(e[j - 1])
        BY <3>1 DEF j
      <3>. QED BY <3>1, <3>2, <3>3 DEF j
    <2>2. e[0] = body(e)[0]
      BY <1>6
    <2>3. body(e)[0] = none
      OBVIOUS
    <2>. QED BY <2>1, <2>2, <2>3
  <1>8. \A k \in Nat : e[k] \in R
    <2> DEFINE S == {k \in Nat : e[k] \in R}
    <2>1. 0 \in S
      BY <1>1, <1>7
    <2>2. ASSUME NEW k \in Nat, k \in S PROVE k + 1 \in S
      <3> HIDE DEF once, none
      <3>1. once(e[k]) \in R
        BY <1>2, <2>2
      <3>2. e[k + 1] \in R
        BY Zenon, <1>7, <3>1
      <3>3. k + 1 \in Nat
        OBVIOUS
      <3>. QED BY <3>2, <3>3
    <2>3. \A k \in Nat : k \in S
      <3> HIDE DEF S
      <3>. QED BY <2>1, <2>2, Induction
    <2>. QED BY <2>3
  <1>9. e \in [Nat -> R]
    <2>1. e = [k \in Nat |-> e[k]]
      <3>1. DOMAIN body(e) = Nat /\ body(e) = [k \in Nat |-> body(e)[k]]
        OBVIOUS
      <3> HIDE DEF body
      <3>. QED BY <1>6, <3>1
    <2>. QED BY <1>8, <2>1
  <1>. QED BY <1>7, <1>9 DEF e, R

\* The name at q in k rounds.
Within(m, k, q) == expansions(m)[k][q]

LEMMA Expanded ==
  ASSUME NEW m \in Seq(Octet), NEW k \in Nat, NEW q \in Nat
  PROVE  /\ Within(m, k, q) \in Name
         /\ Within(m, 0, q) = NoName
         /\ q < Len(m) /\ u8(m, q) = 0 =>
              Within(m, k + 1, q) = [ok |-> TRUE, labels |-> << >>, hops |-> 0, end |-> q + 1]
         /\ IsLabel(m, q) =>
              /\ behind(m, q) \in Nat
              /\ Within(m, k + 1, q) =
                   [ok |-> Within(m, k, behind(m, q)).ok,
                    labels |-> <<slice(m, q + 1, behind(m, q))>> \o Within(m, k, behind(m, q)).labels,
                    hops |-> Within(m, k, behind(m, q)).hops, end |-> Within(m, k, behind(m, q)).end]
         /\ IsBack(m, q) =>
              /\ target(m, q) \in Nat
              /\ Within(m, k + 1, q) =
                   [ok |-> Within(m, k, target(m, q)).ok, labels |-> Within(m, k, target(m, q)).labels,
                    hops |-> Within(m, k, target(m, q)).hops + 1, end |-> q + 2]
         /\ ~(q < Len(m) /\ u8(m, q) = 0) /\ ~IsLabel(m, q) /\ ~IsBack(m, q) =>
              Within(m, k + 1, q) = NoName
PROOF
  <1> DEFINE rest == expansions(m)[k]
  <1>1. rest \in [Nat -> Name] /\ Within(m, k, q) \in Name /\ Within(m, 0, q) = NoName
    BY Expansions DEF Within
  <1>2. Within(m, k + 1, q) = expandAt(m, rest, q)
    <2>1. expansions(m)[k + 1] = [p \in Nat |-> expandAt(m, rest, p)]
      BY Expansions
    <2> HIDE DEF rest
    <2>. QED BY <2>1 DEF Within
  <1>3. \A p \in Nat : rest[p] = Within(m, k, p)
    BY DEF Within
  <1> HIDE DEF rest
  <1>. QED BY <1>1, <1>2, <1>3, Rounds

LEMMA NoRounds ==
  ASSUME NEW m \in Seq(Octet), NEW k \in Nat, NEW q \in Nat
  PROVE  Within(m, k, q) \in Name /\ ~Within(m, 0, q).ok
PROOF
  <1>1. Within(m, k, q) \in Name /\ Within(m, 0, q) = NoName
    BY Expanded
  <1>. QED BY <1>1 DEF NoName

LEMMA AtRoot ==
  ASSUME NEW m \in Seq(Octet), NEW k \in Nat, NEW q \in Nat, q < Len(m), u8(m, q) = 0
  PROVE  /\ Within(m, k + 1, q) = [ok |-> TRUE, labels |-> << >>, hops |-> 0, end |-> q + 1]
         /\ Within(m, k + 1, q).ok
PROOF
  <1>1. Within(m, k + 1, q) = [ok |-> TRUE, labels |-> << >>, hops |-> 0, end |-> q + 1]
    BY Expanded
  <1>. QED BY <1>1

LEMMA AtLabel ==
  ASSUME NEW m \in Seq(Octet), NEW k \in Nat, NEW q \in Nat, IsLabel(m, q)
  PROVE  /\ behind(m, q) \in Nat
         /\ Within(m, k + 1, q) =
              [ok |-> Within(m, k, behind(m, q)).ok,
               labels |-> <<slice(m, q + 1, behind(m, q))>> \o Within(m, k, behind(m, q)).labels,
               hops |-> Within(m, k, behind(m, q)).hops, end |-> Within(m, k, behind(m, q)).end]
         /\ Within(m, k + 1, q).ok <=> Within(m, k, behind(m, q)).ok
PROOF
  <1> DEFINE n == Within(m, k, behind(m, q))
             l == <<slice(m, q + 1, behind(m, q))>> \o n.labels
  <1>1. behind(m, q) \in Nat /\ Within(m, k + 1, q) = [ok |-> n.ok, labels |-> l, hops |-> n.hops, end |-> n.end]
    BY Expanded
  <1> HIDE DEF n, l
  <1>2. Within(m, k + 1, q).ok = n.ok
    BY <1>1
  <1>. QED BY Zenon, <1>1, <1>2 DEF n, l

LEMMA AtPointer ==
  ASSUME NEW m \in Seq(Octet), NEW k \in Nat, NEW q \in Nat, IsBack(m, q)
  PROVE  /\ target(m, q) \in Nat
         /\ Within(m, k + 1, q) =
              [ok |-> Within(m, k, target(m, q)).ok, labels |-> Within(m, k, target(m, q)).labels,
               hops |-> Within(m, k, target(m, q)).hops + 1, end |-> q + 2]
         /\ Within(m, k + 1, q).ok <=> Within(m, k, target(m, q)).ok
PROOF
  <1> DEFINE n == Within(m, k, target(m, q))
  <1>1. target(m, q) \in Nat /\ Within(m, k + 1, q) = [ok |-> n.ok, labels |-> n.labels, hops |-> n.hops + 1, end |-> q + 2]
    BY Expanded
  <1> HIDE DEF n
  <1>2. Within(m, k + 1, q).ok = n.ok
    BY <1>1
  <1>. QED BY Zenon, <1>1, <1>2 DEF n

LEMMA AtNothing ==
  ASSUME NEW m \in Seq(Octet), NEW k \in Nat, NEW q \in Nat,
         ~(q < Len(m) /\ u8(m, q) = 0), ~IsLabel(m, q), ~IsBack(m, q)
  PROVE  ~Within(m, k + 1, q).ok
PROOF
  <1>1. Within(m, k + 1, q) = NoName
    BY Expanded
  <1>. QED BY <1>1 DEF NoName

\* More rounds change nothing once a name is found.
LEMMA OneMore ==
  ASSUME NEW m \in Seq(Octet)
  PROVE  \A k \in Nat : \A q \in Nat : Within(m, k, q).ok => Within(m, k + 1, q) = Within(m, k, q)
PROOF
  <1> DEFINE Same(k, q) == Within(m, k, q).ok => Within(m, k + 1, q) = Within(m, k, q)
             S == {k \in Nat : \A q \in Nat : Same(k, q)}
  <1>1. 0 \in S
    <2>1. \A q \in Nat : ~Within(m, 0, q).ok
      BY NoRounds
    <2>. QED BY <2>1
  <1>2. ASSUME NEW k \in Nat, k \in S PROVE k + 1 \in S
    <2> SUFFICES ASSUME NEW q \in Nat, Within(m, k + 1, q).ok
                 PROVE  Within(m, (k + 1) + 1, q) = Within(m, k + 1, q)
      OBVIOUS
    <2>1. \A p \in Nat : Within(m, k, p).ok => Within(m, k + 1, p) = Within(m, k, p)
      BY <1>2
    <2>2. k + 1 \in Nat
      OBVIOUS
    <2>3. CASE q < Len(m) /\ u8(m, q) = 0
      BY <2>2, <2>3, AtRoot
    <2>4. CASE IsLabel(m, q)
      <3>1. behind(m, q) \in Nat /\ Within(m, k, behind(m, q)).ok
        BY <2>4, AtLabel
      <3>2. Within(m, k + 1, behind(m, q)) = Within(m, k, behind(m, q))
        BY <2>1, <3>1
      <3> DEFINE F(n) == [ok |-> n.ok, labels |-> <<slice(m, q + 1, behind(m, q))>> \o n.labels,
                          hops |-> n.hops, end |-> n.end]
      <3>3. Within(m, k + 1, q) = F(Within(m, k, behind(m, q)))
        BY <2>4, AtLabel
      <3>4. Within(m, (k + 1) + 1, q) = F(Within(m, k + 1, behind(m, q)))
        BY <2>2, <2>4, AtLabel
      <3> HIDE DEF F
      <3>. QED BY <3>2, <3>3, <3>4
    <2>5. CASE IsBack(m, q)
      <3>1. target(m, q) \in Nat /\ Within(m, k, target(m, q)).ok
        BY <2>5, AtPointer
      <3>2. Within(m, k + 1, target(m, q)) = Within(m, k, target(m, q))
        BY <2>1, <3>1
      <3> DEFINE F(n) == [ok |-> n.ok, labels |-> n.labels, hops |-> n.hops + 1, end |-> q + 2]
      <3>3. Within(m, k + 1, q) = F(Within(m, k, target(m, q)))
        BY <2>5, AtPointer
      <3>4. Within(m, (k + 1) + 1, q) = F(Within(m, k + 1, target(m, q)))
        BY <2>2, <2>5, AtPointer
      <3> HIDE DEF F
      <3>. QED BY <3>2, <3>3, <3>4
    <2>6. CASE ~(q < Len(m) /\ u8(m, q) = 0) /\ ~IsLabel(m, q) /\ ~IsBack(m, q)
      BY <2>6, AtNothing
    <2>. QED BY <2>3, <2>4, <2>5, <2>6
  <1>3. \A k \in Nat : k \in S
    <2> HIDE DEF S
    <2>. QED BY <1>1, <1>2, Induction
  <1>. QED BY <1>3

LEMMA AnyMore ==
  ASSUME NEW m \in Seq(Octet), NEW k \in Nat, NEW q \in Nat, Within(m, k, q).ok, NEW j \in Nat, k <= j
  PROVE  Within(m, j, q) = Within(m, k, q)
PROOF
  <1> DEFINE S == {i \in Nat : Within(m, k + i, q) = Within(m, k, q)}
  <1>1. 0 \in S
    <2>1. k + 0 = k
      OBVIOUS
    <2>. QED BY <2>1
  <1>2. ASSUME NEW i \in Nat, i \in S PROVE i + 1 \in S
    <2>1. Within(m, k + i, q) = Within(m, k, q) /\ k + i \in Nat /\ (k + i) + 1 = k + (i + 1) /\ i + 1 \in Nat
      BY <1>2
    <2>2. Within(m, (k + i) + 1, q) = Within(m, k + i, q)
      BY <2>1, OneMore
    <2>. QED BY <2>1, <2>2
  <1>3. \A i \in Nat : i \in S
    <2> HIDE DEF S
    <2>. QED BY <1>1, <1>2, Induction
  <1>4. j - k \in Nat /\ k + (j - k) = j
    OBVIOUS
  <1>. QED BY <1>3, <1>4

\* The names that take exactly k rounds, and the fewest rounds of a name.
Rank(m, k) == {q \in Nat : Within(m, k, q).ok /\ ~Within(m, k - 1, q).ok}

LEMMA Ranked ==
  ASSUME NEW m \in Seq(Octet), NEW k \in Nat, NEW q \in Nat, Within(m, k, q).ok
  PROVE  \E j \in 1..k : q \in Rank(m, j)
PROOF
  <1> DEFINE S == {i \in Nat : i <= k => ~Within(m, i, q).ok}
  <1> SUFFICES ASSUME \A j \in 1..k : q \notin Rank(m, j) PROVE FALSE
    OBVIOUS
  <1>1. 0 \in S
    BY NoRounds
  <1>2. ASSUME NEW i \in Nat, i \in S PROVE i + 1 \in S
    <2> SUFFICES ASSUME i + 1 <= k PROVE ~Within(m, i + 1, q).ok
      OBVIOUS
    <2>1. i + 1 \in 1..k /\ (i + 1) - 1 = i /\ ~Within(m, i, q).ok
      BY <1>2
    <2>2. q \notin Rank(m, i + 1)
      BY <2>1
    <2>. QED BY <2>1, <2>2 DEF Rank
  <1>3. \A i \in Nat : i \in S
    <2> HIDE DEF S
    <2>. QED BY <1>1, <1>2, Induction
  <1>. QED BY <1>3

\* A name of more than one round has one of a round less within it.
LEMMA RankBelow ==
  ASSUME NEW m \in Seq(Octet), NEW k \in Nat, k >= 1, Rank(m, k + 1) # {}
  PROVE  Rank(m, k) # {}
PROOF
  <1>1. PICK q \in Nat : Within(m, k + 1, q).ok /\ ~Within(m, (k + 1) - 1, q).ok
    BY DEF Rank
  <1>2. k - 1 \in Nat /\ (k - 1) + 1 = k /\ (k + 1) - 1 = k
    OBVIOUS
  <1>3. ~Within(m, k, q).ok
    BY <1>1, <1>2
  <1>4. ~(q < Len(m) /\ u8(m, q) = 0)
    <2> SUFFICES ASSUME q < Len(m), u8(m, q) = 0 PROVE FALSE
      OBVIOUS
    <2>1. Within(m, (k - 1) + 1, q).ok
      BY <1>2, AtRoot
    <2>. QED BY <1>2, <1>3, <2>1
  <1>5. CASE IsLabel(m, q)
    <2>1. behind(m, q) \in Nat /\ Within(m, k, behind(m, q)).ok
      BY <1>1, <1>5, AtLabel
    <2>2. ~Within(m, k - 1, behind(m, q)).ok
      BY <1>2, <1>3, <1>5, AtLabel
    <2>. QED BY <2>1, <2>2 DEF Rank
  <1>6. CASE IsBack(m, q)
    <2>1. target(m, q) \in Nat /\ Within(m, k, target(m, q)).ok
      BY <1>1, <1>6, AtPointer
    <2>2. ~Within(m, k - 1, target(m, q)).ok
      BY <1>2, <1>3, <1>6, AtPointer
    <2>. QED BY <2>1, <2>2 DEF Rank
  <1>7. CASE ~IsLabel(m, q) /\ ~IsBack(m, q)
    BY <1>1, <1>4, <1>7, AtNothing
  <1>. QED BY <1>5, <1>6, <1>7

\* No name takes more rounds than the message has octets: the names on the
\* way to its end are all at different offsets.
LEMMA RoundsFit ==
  ASSUME NEW m \in Seq(Octet), NEW k \in Nat, k >= 1, Rank(m, k) # {}
  PROVE  k <= Len(m)
PROOF
  <1>1. Len(m) \in Nat
    OBVIOUS
  <1>2. ASSUME NEW j \in 1..k PROVE Rank(m, j) # {}
    <2> DEFINE S == {i \in Nat : i < k => Rank(m, k - i) # {}}
    <2>1. 0 \in S
      <3>1. k - 0 = k
        OBVIOUS
      <3>. QED BY <3>1
    <2>2. ASSUME NEW i \in Nat, i \in S PROVE i + 1 \in S
      <3> SUFFICES ASSUME i + 1 < k PROVE Rank(m, k - (i + 1)) # {}
        OBVIOUS
      <3>1. k - (i + 1) \in Nat /\ k - (i + 1) >= 1 /\ (k - (i + 1)) + 1 = k - i /\ i < k
        OBVIOUS
      <3>2. Rank(m, k - i) # {}
        BY <2>2, <3>1
      <3>. QED BY <3>1, <3>2, RankBelow
    <2>3. \A i \in Nat : i \in S
      <3> HIDE DEF S
      <3>. QED BY <2>1, <2>2, Induction
    <2>4. k - j \in Nat /\ k - j < k /\ k - (k - j) = j
      OBVIOUS
    <2>. QED BY <2>3, <2>4
  <1>3. ASSUME NEW i \in 1..k, NEW q \in Rank(m, i) PROVE q \in 0..(Len(m) - 1)
    <2>1. i - 1 \in Nat /\ (i - 1) + 1 = i /\ q \in Nat /\ Within(m, i, q).ok
      BY DEF Rank
    <2>2. Within(m, (i - 1) + 1, q).ok
      BY <2>1
    <2>3. q < Len(m) \/ IsLabel(m, q) \/ IsBack(m, q)
      BY <2>1, <2>2, AtNothing
    <2>. QED BY <1>1, <2>1, <2>3 DEF IsLabel, IsBack
  <1>4. ASSUME NEW i \in 1..k, NEW j \in 1..k, i < j, NEW q \in Rank(m, i), q \in Rank(m, j)
        PROVE  FALSE
    <2>1. i \in Nat /\ j - 1 \in Nat /\ i <= j - 1 /\ q \in Nat /\ Within(m, i, q).ok /\ ~Within(m, j - 1, q).ok
      BY <1>4 DEF Rank
    <2>2. Within(m, j - 1, q) = Within(m, i, q)
      BY <2>1, AnyMore
    <2>. QED BY <2>1, <2>2
  <1> DEFINE T == 0..(Len(m) - 1)
             one(i) == CHOOSE q \in Rank(m, i) : TRUE
             g == [i \in 1..k |-> one(i)]
  <1>5. ASSUME NEW i \in 1..k PROVE one(i) \in Rank(m, i)
    BY <1>2
  <1> HIDE DEF one
  <1>6. g \in [1..k -> T]
    BY <1>3, <1>5
  <1>7. ASSUME NEW i \in 1..k, NEW j \in 1..k, g[i] = g[j] PROVE i = j
    <2>1. one(i) \in Rank(m, i) /\ one(i) \in Rank(m, j)
      BY <1>5, <1>7
    <2>2. ~(i < j) /\ ~(j < i)
      BY <1>4, <2>1
    <2>. QED BY <2>2
  <1>8. g \in Injection(1..k, T)
    BY <1>6, <1>7 DEF Injection, IsInjective
  <1>9. IsFiniteSet(T) /\ Cardinality(T) = Len(m) /\ Cardinality(1..k) = k
    <2>1. 0 \in Int /\ Len(m) - 1 \in Int /\ 1 \in Int /\ k \in Int
      BY <1>1
    <2>2. IsFiniteSet(0..(Len(m) - 1)) /\ Cardinality(0..(Len(m) - 1)) = IF 0 > Len(m) - 1 THEN 0 ELSE Len(m) - 1 - 0 + 1
      BY <2>1, FS_Interval
    <2>3. Cardinality(1..k) = IF 1 > k THEN 0 ELSE k - 1 + 1
      BY <2>1, FS_Interval
    <2>. QED BY <1>1, <2>2, <2>3
  <1>10. Cardinality(1..k) <= Cardinality(T)
    <2> HIDE DEF g, T
    <2>. QED BY <1>8, <1>9, FS_Injection
  <1>. QED BY <1>9, <1>10

\* A name found in any number of rounds is the name nameAt finds.
LEMMA Enough ==
  ASSUME NEW m \in Seq(Octet), NEW k \in Nat, NEW q \in Nat, Within(m, k, q).ok
  PROVE  nameAt(m, q) = Within(m, k, q)
PROOF
  <1>1. PICK j \in 1..k : q \in Rank(m, j)
    BY Ranked
  <1>2. j \in Nat /\ j >= 1 /\ j <= k /\ Rank(m, j) # {}
    BY <1>1
  <1>3. j <= Len(m) /\ Len(m) \in Nat
    BY <1>2, RoundsFit
  <1>4. Within(m, j, q).ok
    BY <1>1 DEF Rank
  <1>5. Within(m, k, q) = Within(m, j, q)
    BY <1>2, <1>4, AnyMore
  <1>6. Len(m) + 1 \in Nat /\ j <= Len(m) + 1
    BY <1>2, <1>3
  <1>7. Within(m, Len(m) + 1, q) = Within(m, j, q)
    BY <1>2, <1>4, <1>6, AnyMore
  <1>. QED BY <1>5, <1>7 DEF nameAt, Within

-----------------------------------------------------------------------------
\* The rounds of ParseDomainName against the name they are rounds of.

\* What is decoded up to p, labels l and h pointers, and what stands at p
\* together are what stands at s; n is the offset after the first pointer.
Follows(m, s, p, l, h, n) ==
  \E r \in Nat : \A k \in Nat :
    /\ Within(m, k + r, s).ok <=> Within(m, k, p).ok
    /\ Within(m, k, p).ok =>
         /\ Within(m, k + r, s).labels = l \o Within(m, k, p).labels
         /\ Within(m, k + r, s).hops = h + Within(m, k, p).hops
         /\ Within(m, k + r, s).end = IF n = 0 THEN Within(m, k, p).end ELSE n

\* The names at the offsets V pointed to run through p.
Through(m, V, p) ==
  \A v \in V : \A k \in Nat : Within(m, k, v).ok => \E j \in 0..k : Within(m, j, p).ok

LEMMA Concat ==
  ASSUME NEW l \in Labels, NEW x \in Seq(Octet), NEW w \in Labels
  PROVE  l \o (<<x>> \o w) = Append(l, x) \o w
PROOF
  <1> DEFINE T == Seq(Octet)
  <1>1. l \in Seq(T) /\ w \in Seq(T) /\ x \in T
    BY DEF Labels
  <1> HIDE DEF T
  <1>2. <<x>> \in Seq(T) /\ Append(l, x) = l \o <<x>>
    BY <1>1
  <1>3. (l \o <<x>>) \o w = l \o (<<x>> \o w)
    BY <1>1, <1>2, ConcatAssociative
  <1>. QED BY <1>2, <1>3

LEMMA FollowsLabel ==
  ASSUME NEW m \in Seq(Octet), NEW s \in Nat, NEW p \in Nat, NEW l \in Labels, NEW h \in Nat, NEW n \in Nat,
         Follows(m, s, p, l, h, n), IsLabel(m, p)
  PROVE  Follows(m, s, behind(m, p), Append(l, slice(m, p + 1, behind(m, p))), h, n)
PROOF
  <1> DEFINE x == slice(m, p + 1, behind(m, p))
             b == behind(m, p)
  <1>1. PICK r \in Nat : \A k \in Nat :
    /\ Within(m, k + r, s).ok <=> Within(m, k, p).ok
    /\ Within(m, k, p).ok =>
         /\ Within(m, k + r, s).labels = l \o Within(m, k, p).labels
         /\ Within(m, k + r, s).hops = h + Within(m, k, p).hops
         /\ Within(m, k + r, s).end = IF n = 0 THEN Within(m, k, p).end ELSE n
    BY DEF Follows
  <1>2. b \in Nat /\ b <= Len(m)
    BY AtLabel DEF IsLabel
  <1>3. x \in Seq(Octet)
    BY <1>2 DEF slice
  <1> SUFFICES ASSUME NEW k \in Nat
               PROVE  /\ Within(m, k + (r + 1), s).ok <=> Within(m, k, b).ok
                      /\ Within(m, k, b).ok =>
                           /\ Within(m, k + (r + 1), s).labels = Append(l, x) \o Within(m, k, b).labels
                           /\ Within(m, k + (r + 1), s).hops = h + Within(m, k, b).hops
                           /\ Within(m, k + (r + 1), s).end = IF n = 0 THEN Within(m, k, b).end ELSE n
    <2>1. r + 1 \in Nat
      OBVIOUS
    <2> HIDE DEF x, b
    <2>. QED BY <2>1 DEF Follows, x, b
  <1>4. k + (r + 1) = (k + 1) + r /\ k + 1 \in Nat
    OBVIOUS
  <1> DEFINE whole == Within(m, k + (r + 1), s)
             here == Within(m, k + 1, p)
             rest == Within(m, k, b)
  <1>5. /\ here = [ok |-> rest.ok, labels |-> <<x>> \o rest.labels, hops |-> rest.hops, end |-> rest.end]
        /\ here.ok <=> rest.ok
    BY AtLabel
  <1>6. /\ whole.ok <=> here.ok
        /\ here.ok => /\ whole.labels = l \o here.labels /\ whole.hops = h + here.hops
                      /\ whole.end = IF n = 0 THEN here.end ELSE n
    BY <1>1, <1>4
  <1>7. rest \in Name
    BY <1>2, NoRounds
  <1> HIDE DEF whole, here, rest, x, b
  <1>8. here.labels = <<x>> \o rest.labels /\ here.hops = rest.hops /\ here.end = rest.end
    BY <1>5
  <1>9. l \o (<<x>> \o rest.labels) = Append(l, x) \o rest.labels
    BY <1>3, <1>7, Concat, NameParts
  <1>10. /\ whole.ok <=> rest.ok
         /\ rest.ok => /\ whole.labels = Append(l, x) \o rest.labels /\ whole.hops = h + rest.hops
                       /\ whole.end = IF n = 0 THEN rest.end ELSE n
    BY <1>5, <1>6, <1>8, <1>9
  <1>. QED BY <1>10 DEF whole, rest

LEMMA FollowsPointer ==
  ASSUME NEW m \in Seq(Octet), NEW s \in Nat, NEW p \in Nat, NEW l \in Labels, NEW h \in Nat, NEW n \in Nat,
         Follows(m, s, p, l, h, n), IsBack(m, p)
  PROVE  Follows(m, s, target(m, p), l, h + 1, IF n = 0 THEN p + 2 ELSE n)
PROOF
  <1> DEFINE t == target(m, p)
             e == IF n = 0 THEN p + 2 ELSE n
  <1>1. PICK r \in Nat : \A k \in Nat :
    /\ Within(m, k + r, s).ok <=> Within(m, k, p).ok
    /\ Within(m, k, p).ok =>
         /\ Within(m, k + r, s).labels = l \o Within(m, k, p).labels
         /\ Within(m, k + r, s).hops = h + Within(m, k, p).hops
         /\ Within(m, k + r, s).end = IF n = 0 THEN Within(m, k, p).end ELSE n
    BY DEF Follows
  <1>2. t \in Nat
    BY AtPointer
  <1>3. e # 0
    OBVIOUS
  <1> SUFFICES ASSUME NEW k \in Nat
               PROVE  /\ Within(m, k + (r + 1), s).ok <=> Within(m, k, t).ok
                      /\ Within(m, k, t).ok =>
                           /\ Within(m, k + (r + 1), s).labels = l \o Within(m, k, t).labels
                           /\ Within(m, k + (r + 1), s).hops = (h + 1) + Within(m, k, t).hops
                           /\ Within(m, k + (r + 1), s).end = IF e = 0 THEN Within(m, k, t).end ELSE e
    <2>1. r + 1 \in Nat
      OBVIOUS
    <2> HIDE DEF t, e
    <2>. QED BY <2>1 DEF Follows, t, e
  <1>4. k + (r + 1) = (k + 1) + r /\ k + 1 \in Nat
    OBVIOUS
  <1> DEFINE whole == Within(m, k + (r + 1), s)
             here == Within(m, k + 1, p)
             rest == Within(m, k, t)
  <1>5. /\ here = [ok |-> rest.ok, labels |-> rest.labels, hops |-> rest.hops + 1, end |-> p + 2]
        /\ here.ok <=> rest.ok
    BY AtPointer
  <1>6. /\ whole.ok <=> here.ok
        /\ here.ok => /\ whole.labels = l \o here.labels /\ whole.hops = h + here.hops
                      /\ whole.end = IF n = 0 THEN here.end ELSE n
    BY <1>1, <1>4
  <1>7. rest \in Name
    BY <1>2, NoRounds
  <1> HIDE DEF whole, here, rest, t
  <1>8. here.labels = rest.labels /\ here.hops = rest.hops + 1 /\ here.end = p + 2 /\ rest.hops \in Nat
    BY <1>5, <1>7, NameParts
  <1>9. h + (rest.hops + 1) = (h + 1) + rest.hops
    BY <1>8
  <1>10. /\ whole.ok <=> rest.ok
         /\ rest.ok => /\ whole.labels = l \o rest.labels /\ whole.hops = (h + 1) + rest.hops /\ whole.end = e
    BY <1>5, <1>6, <1>8, <1>9
  <1>. QED BY <1>3, <1>10 DEF whole, rest

\* At the root label the name at s is decoded.
LEMMA FollowsEnd ==
  ASSUME NEW m \in Seq(Octet), NEW s \in Nat, NEW p \in Nat, NEW l \in Labels, NEW h \in Nat, NEW n \in Nat,
         Follows(m, s, p, l, h, n), p < Len(m), u8(m, p) = 0
  PROVE  /\ nameAt(m, s).ok /\ nameAt(m, s).labels = l /\ nameAt(m, s).hops = h
         /\ nameAt(m, s).end = IF n = 0 THEN p + 1 ELSE n
PROOF
  <1>1. PICK r \in Nat : \A k \in Nat :
    /\ Within(m, k + r, s).ok <=> Within(m, k, p).ok
    /\ Within(m, k, p).ok =>
         /\ Within(m, k + r, s).labels = l \o Within(m, k, p).labels
         /\ Within(m, k + r, s).hops = h + Within(m, k, p).hops
         /\ Within(m, k + r, s).end = IF n = 0 THEN Within(m, k, p).end ELSE n
    BY DEF Follows
  <1>2. \A z \in Nat : /\ Within(m, z + 1, p) = [ok |-> TRUE, labels |-> << >>, hops |-> 0, end |-> p + 1]
                       /\ Within(m, z + 1, p).ok
    BY AtRoot
  <1> DEFINE whole == Within(m, 1 + r, s)
             here == Within(m, 1, p)
  <1>3. here = [ok |-> TRUE, labels |-> << >>, hops |-> 0, end |-> p + 1] /\ here.ok
    <2>1. \A j \in Nat : j = 0 + 1 => Within(m, j, p) = [ok |-> TRUE, labels |-> << >>, hops |-> 0, end |-> p + 1] /\ Within(m, j, p).ok
      BY <1>2
    <2>. QED BY <2>1
  <1>4. /\ whole.ok <=> here.ok
        /\ here.ok => /\ whole.labels = l \o here.labels /\ whole.hops = h + here.hops
                      /\ whole.end = IF n = 0 THEN here.end ELSE n
    BY <1>1
  <1> HIDE DEF whole, here
  <1>5. here.labels = << >> /\ here.hops = 0 /\ here.end = p + 1
    BY <1>3
  <1>6. l \o << >> = l
    <2> DEFINE T == Seq(Octet)
    <2>1. l \in Seq(T)
      BY DEF Labels
    <2> HIDE DEF T
    <2>. QED BY <2>1
  <1>7. whole.ok /\ whole.labels = l /\ whole.hops = h /\ whole.end = IF n = 0 THEN p + 1 ELSE n
    BY <1>3, <1>4, <1>5, <1>6
  <1>8. nameAt(m, s) = whole
    <2>1. 1 + r \in Nat /\ Within(m, 1 + r, s).ok
      BY <1>7 DEF whole
    <2>. QED BY <2>1, Enough DEF whole
  <1>. QED BY <1>7, <1>8

\* Where no name stands at p, there is none at s; and a pointer at p is one
\* more of the name at s.
LEMMA FollowsNone ==
  ASSUME NEW m \in Seq(Octet), NEW s \in Nat, NEW p \in Nat, NEW l, NEW h \in Nat, NEW n,
         Follows(m, s, p, l, h, n), nameAt(m, s).ok
  PROVE  /\ \E k \in Nat : Within(m, k, p).ok
         /\ IsBack(m, p) => nameAt(m, s).hops >= h + 1
PROOF
  <1>1. PICK r \in Nat : \A k \in Nat :
    /\ Within(m, k + r, s).ok <=> Within(m, k, p).ok
    /\ Within(m, k, p).ok => Within(m, k + r, s).hops = h + Within(m, k, p).hops
    BY DEF Follows
  <1> DEFINE f == Len(m) + 1
  <1>2. f \in Nat /\ f + r \in Nat /\ f <= f + r /\ f - 1 \in Nat /\ (f - 1) + 1 = f
    OBVIOUS
  <1>3. Within(m, f, s) = nameAt(m, s)
    BY DEF Within, nameAt
  <1>4. Within(m, f, s).ok
    BY <1>3
  <1> HIDE DEF f
  <1>5. Within(m, f + r, s) = Within(m, f, s)
    BY <1>2, <1>4, AnyMore
  <1>6. Within(m, f, p).ok /\ nameAt(m, s).hops = h + Within(m, f, p).hops
    BY <1>1, <1>2, <1>3, <1>4, <1>5
  <1>7. ASSUME IsBack(m, p) PROVE Within(m, f, p).hops \in Nat /\ Within(m, f, p).hops >= 1
    <2> DEFINE rest == Within(m, f - 1, target(m, p))
    <2>1. target(m, p) \in Nat
          /\ Within(m, (f - 1) + 1, p) = [ok |-> rest.ok, labels |-> rest.labels, hops |-> rest.hops + 1, end |-> p + 2]
      BY <1>2, <1>7, AtPointer
    <2>2. rest \in Name
      BY <1>2, <2>1, NoRounds
    <2> HIDE DEF rest
    <2>3. Within(m, f, p) = [ok |-> rest.ok, labels |-> rest.labels, hops |-> rest.hops + 1, end |-> p + 2]
      BY <1>2, <2>1
    <2>4. Within(m, f, p).hops = rest.hops + 1 /\ rest.hops \in Nat
      BY <2>2, <2>3, NameParts
    <2>. QED BY <2>4
  <1>. QED BY <1>2, <1>6, <1>7

LEMMA ThroughMoves ==
  ASSUME NEW m \in Seq(Octet), NEW V, NEW p \in Nat, NEW b \in Nat, Through(m, V, p),
         \A k \in Nat : Within(m, k + 1, p).ok <=> Within(m, k, b).ok
  PROVE  Through(m, V, b) /\ Through(m, V \cup {b}, b)
PROOF
  <1>1. ASSUME NEW v \in V, NEW k \in Nat, Within(m, k, v).ok PROVE \E j \in 0..k : Within(m, j, b).ok
    <2>1. PICK j \in 0..k : Within(m, j, p).ok
      BY <1>1 DEF Through
    <2>2. j # 0
      BY <2>1, NoRounds
    <2>3. j - 1 \in Nat /\ (j - 1) + 1 = j /\ j - 1 \in 0..k
      BY <2>2
    <2>4. Within(m, (j - 1) + 1, p).ok
      BY <2>1, <2>3
    <2>5. Within(m, j - 1, b).ok
      BY <2>3, <2>4
    <2>. QED BY <2>3, <2>5
  <1>2. ASSUME NEW k \in Nat, Within(m, k, b).ok PROVE \E j \in 0..k : Within(m, j, b).ok
    <2>1. k \in 0..k
      OBVIOUS
    <2>. QED BY <1>2, <2>1
  <1>. QED BY <1>1, <1>2 DEF Through

\* A pointer to where a pointer went before never ends.
LEMMA ThroughLoops ==
  ASSUME NEW m \in Seq(Octet), NEW V, NEW p \in Nat, Through(m, V, p), IsBack(m, p), target(m, p) \in V,
         NEW k \in Nat, Within(m, k, p).ok
  PROVE  FALSE
PROOF
  <1> DEFINE t == target(m, p)
  <1>1. t \in Nat /\ \A i \in Nat : Within(m, i + 1, p).ok <=> Within(m, i, t).ok
    BY AtPointer
  <1>2. k - 1 \in Nat /\ (k - 1) + 1 = k
    <2>1. k # 0
      BY NoRounds
    <2>. QED BY <2>1
  <1>3. Within(m, (k - 1) + 1, p).ok
    BY <1>2
  <1>4. Within(m, k - 1, t).ok
    BY <1>1, <1>2, <1>3
  <1>5. PICK i \in 1..(k - 1) : t \in Rank(m, i)
    BY <1>1, <1>2, <1>4, Ranked
  <1>6. i \in Nat /\ i - 1 \in Nat /\ Within(m, i, t).ok /\ ~Within(m, i - 1, t).ok
    BY <1>5 DEF Rank
  <1>7. PICK j \in 0..i : Within(m, j, p).ok
    BY <1>6 DEF Through
  <1>8. j # 0
    BY <1>7, NoRounds
  <1>9. j - 1 \in Nat /\ (j - 1) + 1 = j /\ j - 1 <= i - 1
    BY <1>6, <1>8
  <1>10. Within(m, (j - 1) + 1, p).ok
    BY <1>7, <1>9
  <1>11. Within(m, j - 1, t).ok
    BY <1>1, <1>9, <1>10
  <1>12. Within(m, i - 1, t) = Within(m, j - 1, t)
    BY <1>1, <1>6, <1>9, <1>11, AnyMore
  <1>. QED BY <1>6, <1>11, <1>12

LEMMA FollowsStart ==
  ASSUME NEW m \in Seq(Octet), NEW s \in Nat
  PROVE  Follows(m, s, s, << >>, 0, 0) /\ Through(m, {}, s)
PROOF
  <1>1. ASSUME NEW k \in Nat
        PROVE  /\ Within(m, k + 0, s).labels = << >> \o Within(m, k, s).labels
               /\ Within(m, k + 0, s).hops = 0 + Within(m, k, s).hops
               /\ Within(m, k + 0, s) = Within(m, k, s)
    <2> DEFINE n == Within(m, k, s)
               T == Seq(Octet)
    <2>1. n \in Name /\ k + 0 = k
      BY NoRounds
    <2> HIDE DEF n
    <2>2. n.labels \in Seq(T) /\ n.hops \in Nat
      BY <2>1, NameParts DEF Labels
    <2> HIDE DEF T
    <2>3. << >> \o n.labels = n.labels /\ 0 + n.hops = n.hops
      BY <2>2
    <2>. QED BY <2>1, <2>3 DEF n
  <1>2. Follows(m, s, s, << >>, 0, 0)
    <2>1. 0 \in Nat
      OBVIOUS
    <2>. QED BY <1>1, <2>1 DEF Follows
  <1>. QED BY <1>2 DEF Through

-----------------------------------------------------------------------------
\* The call under way.

\* A name under decoding is followed; when it is decoded, nothing of it
\* stays behind.
Cursor ==
  /\ at = "name" => Follows(job.msg, start, pos, labels, hops, next) /\ Through(job.msg, visited, pos)
  /\ at \in {"header", "fields"} => visited = {}
  /\ job.call = "ParseDomainName" => at \in {"name", "done"} /\ start = job.offset
  /\ job.call = "DecodeTypeBitmap" => at \in {"bitmap", "done"}
  /\ job.call = "ParseDomainName" /\ at = "name" => out = << >> /\ err = "nil"

LEMMA Message ==
  ASSUME Locals
  PROVE  /\ job.msg \in Seq(Octet) /\ size = Len(job.msg) /\ labels \in Labels
         /\ \A i : octet(i) = u8(job.msg, i)
PROOF
  BY JobsAssumption DEF Locals, Octet, size, octet, Labels

\* The guards of the rounds in terms of the octets.
LEMMA LabelHere ==
  ASSUME Locals, Label
  PROVE  /\ IsLabel(job.msg, pos) /\ pos' = behind(job.msg, pos)
         /\ labels' = Append(labels, slice(job.msg, pos + 1, behind(job.msg, pos)))
PROOF
  <1>1. pos \in Nat /\ (pos + 1) + 1 = pos + 2
    BY DEF Locals
  <1>. QED BY <1>1, Message DEF Label, IsLabel, behind, slice

LEMMA PointerHere ==
  ASSUME Locals, pos + 1 < size, isPointer(octet(pos))
  PROVE  /\ pointer = target(job.msg, pos) /\ pointer \in Nat
         /\ pointer < pos <=> IsBack(job.msg, pos)
PROOF
  <1> DEFINE m == job.msg
             a == u8(m, pos)
             b == u8(m, pos + 1)
  <1>1. m \in Seq(Octet) /\ Len(m) \in Nat /\ size = Len(m) /\ pos \in Nat /\ octet(pos) = a /\ octet(pos + 1) = b
    BY Message DEF Locals
  <1>2. a \in Octet /\ b \in Octet /\ a >= 192 /\ u16(m, pos) = a * 256 + b
    <2>1. pos < Len(m) /\ pos + 1 \in Nat /\ pos + 1 < Len(m)
      BY <1>1
    <2>2. a \in Octet /\ b \in Octet
      BY <1>1, <2>1, OctetsAt
    <2>3. a >= 192
      BY <1>1 DEF isPointer
    <2>4. u16(m, pos) = a * 256 + b
      BY <1>1, <2>1, OctetsAt
    <2>. QED BY <2>2, <2>3, <2>4
  <1>3. pointer = (a % 64) * 256 + b
    BY <1>1 DEF pointer
  <1> HIDE DEF a, b
  <1>4. a \in 192..255 /\ b \in Nat
    BY <1>2 DEF Octet
  <1>5. a % 64 = a - 192
    BY <1>4
  <1>6. pointer = (a * 256 + b) - 49152 /\ pointer \in Nat
    <2>1. pointer = (a - 192) * 256 + b
      BY <1>3, <1>5
    <2>2. (a - 192) * 256 + b = (a * 256 + b) - 49152 /\ (a - 192) * 256 + b \in Nat
      BY <1>4
    <2>. QED BY <2>1, <2>2
  <1>7. pointer = target(m, pos)
    <2> DEFINE n == a * 256 + b
    <2>1. target(m, pos) = u16(m, pos) - 49152
      BY DEF target
    <2>2. u16(m, pos) = n /\ pointer = n - 49152
      BY <1>2, <1>6
    <2> HIDE DEF n
    <2>. QED BY <2>1, <2>2
  <1>8. pos + 1 < Len(m) /\ u8(m, pos) >= 192
    BY <1>1, <1>2 DEF a
  <1>. QED BY <1>6, <1>7, <1>8 DEF IsBack

LEMMA NameOK ==
  ASSUME NEW m, NEW p
  PROVE  nameOK(m, p) <=> nameAt(m, p).ok /\ nameAt(m, p).hops <= MaxPointerHops
PROOF
  <1> DEFINE one == nameAt(m, p)
  <1> HIDE DEF one
  <1>1. nameOK(m, p) <=> {[name |-> assembleName(n.labels), next |-> endOf(m, p)] :
                         n \in {n \in {one} : n.ok /\ n.hops <= MaxPointerHops}} # {}
    BY DEF nameOK, ParseDomainName, one
  <1>2. one.ok /\ one.hops <= MaxPointerHops => one \in {n \in {one} : n.ok /\ n.hops <= MaxPointerHops}
    OBVIOUS
  <1>. QED BY Zenon, <1>1, <1>2 DEF one

\* The name is decoded: it is the one that stands at start.
LEMMA NameDecoded ==
  ASSUME Decoding, Cursor, NameEnd
  PROVE  /\ nameOK(job.msg, start) /\ labels = nameAt(job.msg, start).labels
         /\ after(pos + 1) = endOf(job.msg, start)
PROOF
  <1> DEFINE m == job.msg
  <1>1. Locals /\ Passes /\ Cursor /\ at = "name" /\ pos < size /\ octet(pos) = 0
    BY DEF Decoding, NameEnd
  <1>2. m \in Seq(Octet) /\ pos < Len(m) /\ u8(m, pos) = 0 /\ labels \in Labels
    BY <1>1, Message
  <1>3. pos \in Nat /\ start \in Nat /\ hops \in Nat /\ next \in Nat /\ hops <= MaxPointerHops
    BY <1>1 DEF Locals, Passes
  <1>4. Follows(m, start, pos, labels, hops, next)
    BY <1>1 DEF Cursor
  <1>5. /\ nameAt(m, start).ok /\ nameAt(m, start).labels = labels /\ nameAt(m, start).hops = hops
        /\ nameAt(m, start).end = IF next = 0 THEN pos + 1 ELSE next
    BY <1>2, <1>3, <1>4, FollowsEnd
  <1>. QED BY <1>3, <1>5, NameOK DEF after, endOf

\* The octets are no name, or one with too many pointers.
LEMMA NameFailed ==
  ASSUME Decoding, Cursor, NameTruncated \/ (Pointer /\ pointerError # "nil")
  PROVE  ~nameOK(job.msg, start)
PROOF
  <1> DEFINE m == job.msg
  <1> SUFFICES ASSUME nameOK(job.msg, start) PROVE FALSE
    OBVIOUS
  <1>1. Locals /\ Passes /\ at = "name" /\ pos \in Nat /\ start \in Nat /\ hops \in Nat /\ MaxPointerHops \in Nat
    BY Messages DEF Decoding, NameTruncated, Pointer, Locals
  <1>2. m \in Seq(Octet) /\ size = Len(m) /\ Len(m) \in Nat /\ octet(pos) = u8(m, pos)
    BY <1>1, Message
  <1>3. Follows(m, start, pos, labels, hops, next) /\ Through(m, visited, pos)
    BY <1>1 DEF Cursor
  <1>4. nameAt(m, start).ok /\ nameAt(m, start).hops <= MaxPointerHops
    BY NameOK
  <1>5. PICK k \in Nat : Within(m, k, pos).ok
    BY <1>1, <1>2, <1>3, <1>4, FollowsNone
  <1>6. k - 1 \in Nat /\ (k - 1) + 1 = k
    <2>1. k # 0
      BY <1>1, <1>2, <1>5, NoRounds
    <2>. QED BY <2>1
  <1>7. (pos < Len(m) /\ u8(m, pos) = 0) \/ IsLabel(m, pos) \/ IsBack(m, pos)
    <2>1. Within(m, (k - 1) + 1, pos).ok
      BY <1>5, <1>6
    <2>. QED BY <1>1, <1>2, <1>6, <2>1, AtNothing
  <1>8. CASE NameTruncated
    <2>1. pos < size
      BY <1>1, <1>2, <1>7 DEF IsLabel, IsBack
    <2>2. u8(m, pos) \in Nat
      BY <1>1, <1>2, <2>1, OctetsAt
    <2>3. \/ u8(m, pos) >= 192 /\ pos + 1 >= Len(m)
          \/ u8(m, pos) \in 64..191
          \/ u8(m, pos) \in 1..63 /\ pos + 1 + u8(m, pos) > Len(m)
      <3>1. ~(pos >= size)
        BY <1>1, <1>2, <2>1
      <3>2. \/ octet(pos) >= 192 /\ pos + 1 >= size
            \/ octet(pos) \in 64..191
            \/ octet(pos) \in 1..63 /\ pos + 1 + octet(pos) > size
        BY Zenon, <1>8, <3>1 DEF NameTruncated, isPointer
      <3>. QED BY Zenon, <1>2, <3>2
    <2> DEFINE a == u8(m, pos)
    <2>4. \/ a = 0
          \/ a \in 1..63 /\ pos + 1 + a <= Len(m)
          \/ pos + 1 < Len(m) /\ a >= 192
      BY <1>7 DEF IsLabel, IsBack, behind
    <2>5. a \in Nat /\ ((a >= 192 /\ pos + 1 >= Len(m)) \/ a \in 64..191 \/ (a \in 1..63 /\ pos + 1 + a > Len(m)))
      BY <2>2, <2>3
    <2> HIDE DEF a
    <2>. QED BY <1>1, <1>2, <2>4, <2>5
  <1>9. CASE Pointer /\ pointerError # "nil"
    <2>1. pos + 1 < size /\ isPointer(octet(pos)) /\ u8(m, pos) >= 192
      BY <1>2, <1>9 DEF Pointer, isPointer
    <2>2. u8(m, pos) # 0 /\ ~(u8(m, pos) \in 1..63)
      <3>1. u8(m, pos) \in Nat
        BY <1>1, <1>2, <2>1, OctetsAt
      <3>. QED BY <2>1, <3>1, LengthOctet
    <2>3. IsBack(m, pos)
      BY <1>7, <2>2 DEF IsLabel
    <2>4. pointer = target(m, pos) /\ pointer < pos /\ pointer \in Nat
      BY <1>1, <2>1, <2>3, PointerHere
    <2>5. pointer \in visited \/ hops + 1 > MaxPointerHops
      BY <1>1, <1>9, <2>4 DEF pointerError
    <2>6. pointer \notin visited
      BY <1>1, <1>2, <1>3, <1>5, <2>3, <2>4, ThroughLoops
    <2>7. nameAt(m, start).hops >= hops + 1
      BY <1>1, <1>2, <1>3, <1>4, <2>3, FollowsNone
    <2>8. nameAt(m, start).hops \in Nat
      <3>1. Len(m) + 1 \in Nat
        BY <1>2
      <3>2. Within(m, Len(m) + 1, start) \in Name
        BY <1>1, <1>2, <3>1, NoRounds
      <3>. QED BY <3>2, NameParts DEF nameAt, Within
    <2>. QED BY <1>1, <1>4, <2>5, <2>6, <2>7, <2>8
  <1>. QED BY <1>8, <1>9

-----------------------------------------------------------------------------
\* One name: the rounds keep it followed.

LEMMA CursorInit == Init => Cursor
PROOF
  <1> SUFFICES ASSUME Init PROVE Cursor
    OBVIOUS
  <1>1. Locals
    BY InitDecoding DEF Decoding
  <1>2. job.msg \in Seq(Octet) /\ start \in Nat
    BY <1>1, Message DEF Locals
  <1>3. pos = start /\ labels = << >> /\ hops = 0 /\ next = 0 /\ visited = {} /\ start = job.offset
        /\ out = << >> /\ err = "nil"
    BY DEF Init
  <1>4. Follows(job.msg, start, pos, labels, hops, next) /\ Through(job.msg, visited, pos)
    BY <1>2, <1>3, FollowsStart
  <1>5. /\ job.call = "ParseDomainName" => at = "name"
        /\ job.call = "DecodeTypeBitmap" => at = "bitmap"
    BY DEF Init
  <1>. QED BY <1>3, <1>4, <1>5 DEF Cursor

LEMMA CursorStops ==
  ASSUME Cursor, at' = "done", job' = job, start' = start
  PROVE  Cursor'
PROOF
  BY DEF Cursor

LEMMA CursorLabel ==
  ASSUME Decoding, Cursor, Label
  PROVE  Cursor'
PROOF
  <1>1. Locals /\ at = "name" /\ at' = at /\ job' = job /\ start' = start /\ hops' = hops /\ next' = next
        /\ visited' = visited /\ out' = out /\ err' = err
    BY DEF Decoding, Label
  <1>2. job.msg \in Seq(Octet) /\ pos \in Nat /\ start \in Nat /\ hops \in Nat /\ next \in Nat /\ labels \in Labels
    BY <1>1, Message DEF Locals
  <1>3. /\ IsLabel(job.msg, pos) /\ pos' = behind(job.msg, pos)
        /\ labels' = Append(labels, slice(job.msg, pos + 1, behind(job.msg, pos)))
    BY <1>1, LabelHere
  <1>4. Follows(job.msg, start, pos, labels, hops, next) /\ Through(job.msg, visited, pos)
    BY <1>1 DEF Cursor
  <1>5. Follows(job.msg, start, pos', labels', hops, next)
    BY <1>2, <1>3, <1>4, FollowsLabel
  <1>6. Through(job.msg, visited, pos')
    <2>1. behind(job.msg, pos) \in Nat
          /\ \A k \in Nat : Within(job.msg, k + 1, pos).ok <=> Within(job.msg, k, behind(job.msg, pos)).ok
      BY <1>2, <1>3, AtLabel
    <2>. QED BY <1>2, <1>3, <1>4, <2>1, ThroughMoves
  <1>. QED BY <1>1, <1>5, <1>6 DEF Cursor

LEMMA CursorPointer ==
  ASSUME Decoding, Cursor, Pointer
  PROVE  Cursor'
PROOF
  <1>1. Locals /\ at = "name" /\ pos + 1 < size /\ isPointer(octet(pos))
    BY DEF Decoding, Pointer
  <1>2. CASE pointerError # "nil"
    BY <1>2, CursorStops DEF Pointer, Fail, locals
  <1>3. CASE pointerError = "nil"
    <2>1. /\ pos' = pointer /\ next' = after(pos + 2) /\ visited' = visited \cup {pointer} /\ hops' = hops + 1
          /\ job' = job /\ at' = at /\ labels' = labels /\ start' = start /\ out' = out /\ err' = err
      BY <1>3 DEF Pointer
    <2>2. job.msg \in Seq(Octet) /\ pos \in Nat /\ start \in Nat /\ hops \in Nat /\ next \in Nat /\ labels \in Labels
      BY <1>1, Message DEF Locals
    <2>3. pointer = target(job.msg, pos) /\ pointer \in Nat /\ IsBack(job.msg, pos)
      <3>1. pointer = target(job.msg, pos) /\ pointer \in Nat /\ (pointer < pos <=> IsBack(job.msg, pos))
        BY <1>1, PointerHere
      <3>2. ~(pointer >= pos)
        BY <1>3 DEF pointerError
      <3>. QED BY <2>2, <3>1, <3>2
    <2>4. Follows(job.msg, start, pos, labels, hops, next) /\ Through(job.msg, visited, pos)
      BY <1>1 DEF Cursor
    <2>5. Follows(job.msg, start, pos', labels', hops', next')
      <3>1. Follows(job.msg, start, target(job.msg, pos), labels, hops + 1, IF next = 0 THEN pos + 2 ELSE next)
        BY <2>2, <2>3, <2>4, FollowsPointer
      <3>. QED BY <2>1, <2>3, <3>1 DEF after
    <2>6. Through(job.msg, visited', pos')
      <3>1. \A k \in Nat : Within(job.msg, k + 1, pos).ok <=> Within(job.msg, k, target(job.msg, pos)).ok
        BY <2>2, <2>3, AtPointer
      <3>. QED BY <2>1, <2>2, <2>3, <2>4, <3>1, ThroughMoves
    <2>. QED BY <1>1, <2>1, <2>5, <2>6 DEF Cursor
  <1>. QED BY <1>2, <1>3

LEMMA CursorNameEnd ==
  ASSUME Decoding, Cursor, NameEnd
  PROVE  Cursor'
PROOF
  <1>1. Locals /\ at = "name" /\ job' = job /\ start' = start /\ visited' = {}
        /\ at' = IF job.call = "ParseMessage" THEN "fields" ELSE "done"
    BY DEF Decoding, NameEnd
  <1>. QED BY <1>1 DEF Cursor

LEMMA CursorNextEntry ==
  ASSUME Decoding, Cursor, at \in {"header", "fields"}, NEW todo, NEW from \in Nat, NextEntry(todo, from),
         job' = job, labels' = labels, next' = next, hops' = hops, visited' = visited
  PROVE  Cursor'
PROOF
  <1>1. Locals /\ job.call = "ParseMessage" /\ labels = << >> /\ hops = 0 /\ next = 0 /\ visited = {}
    BY DEF Decoding, Locals, Cursor
  <1>2. pos' = from /\ start' = from /\ at' \in {"done", "name"}
    BY DEF NextEntry
  <1>3. Follows(job.msg, from, from, << >>, 0, 0) /\ Through(job.msg, {}, from)
    BY <1>1, Message, FollowsStart
  <1>4. Follows(job.msg, start', pos', labels', hops', next') /\ Through(job.msg, visited', pos')
    BY <1>1, <1>2, <1>3
  <1>. QED BY <1>1, <1>2, <1>4 DEF Cursor

LEMMA CursorFields ==
  ASSUME Decoding, Cursor, Header \/ Fields
  PROVE  Cursor'
PROOF
  <1>1. CASE Header
    BY <1>1, CursorNextEntry DEF Header, HeaderLen
  <1>2. CASE Fields
    <2>1. at = "fields" /\ NextEntry([left EXCEPT ![section] = @ - 1], pos + fieldsLen + rdlen)
          /\ pos + fieldsLen <= size
          /\ job' = job /\ labels' = labels /\ next' = next /\ hops' = hops /\ visited' = visited
      BY <1>2 DEF Fields
    <2>2. pos + fieldsLen + rdlen \in Nat
      BY <2>1, FieldsTyped DEF Decoding
    <2>. QED BY <2>1, <2>2, CursorNextEntry
  <1>. QED BY <1>1, <1>2

LEMMA CursorKeeps == Decoding /\ Cursor /\ [Next]_vars => Cursor'
PROOF
  <1> SUFFICES ASSUME Decoding, Cursor, [Next]_vars PROVE Cursor'
    OBVIOUS
  <1>1. CASE NameTruncated \/ HeaderMalformed \/ FieldsTruncated \/ WindowMalformed
    BY <1>1, CursorStops DEF NameTruncated, HeaderMalformed, FieldsTruncated, WindowMalformed, Fail, locals
  <1>2. CASE DecodeWindow \/ BitmapEnd
    <2>1. at = "bitmap" /\ at' \in {"bitmap", "done"} /\ job' = job /\ start' = start
      BY <1>2 DEF DecodeWindow, BitmapEnd, locals
    <2>2. job.call = "DecodeTypeBitmap"
      BY <2>1 DEF Decoding, Locals
    <2>. QED BY <2>1, <2>2 DEF Cursor
  <1>3. CASE UNCHANGED vars
    BY <1>3 DEF vars, Cursor
  <1>. QED BY <1>1, <1>2, <1>3, CursorLabel, CursorPointer, CursorNameEnd, CursorFields
       DEF Next, Step, Finished

LEMMA SameJob == [Next]_vars => job' = job
PROOF
  <1>1. NameTruncated \/ HeaderMalformed \/ FieldsTruncated \/ WindowMalformed => job' = job
    BY DEF NameTruncated, HeaderMalformed, FieldsTruncated, WindowMalformed, Fail
  <1>2. Label \/ Pointer \/ NameEnd => job' = job
    BY DEF Label, Pointer, NameEnd, Fail
  <1>3. Header \/ Fields \/ DecodeWindow \/ BitmapEnd \/ UNCHANGED vars => job' = job
    BY DEF Header, Fields, DecodeWindow, BitmapEnd, vars
  <1>. QED BY <1>1, <1>2, <1>3 DEF Next, Step, Finished

\* The outcome of ParseDomainName is fixed in its last step.
LEMMA NameKeeps == Decoding /\ Cursor /\ NameIsReference /\ [Next]_vars => NameIsReference'
PROOF
  <1> SUFFICES ASSUME Decoding, Cursor, NameIsReference, [Next]_vars, job.call = "ParseDomainName", at' = "done"
               PROVE  NameIsReference'
    BY SameJob DEF NameIsReference
  <1>1. at \in {"name", "done"} /\ start = job.offset
    BY DEF Cursor
  <1>2. CASE at = "done"
    <2>1. UNCHANGED vars
      BY <1>2 DEF Next, Step, Finished, NameTruncated, Label, Pointer, NameEnd, Header, HeaderMalformed, Fields,
             FieldsTruncated, DecodeWindow, WindowMalformed, BitmapEnd
    <2>. QED BY <2>1 DEF NameIsReference, nameOK, vars
  <1>3. CASE at = "name"
    <2>1. NameTruncated \/ Pointer \/ NameEnd
      BY <1>3 DEF Next, Step, Finished, Label, Header, HeaderMalformed, Fields,
             FieldsTruncated, DecodeWindow, WindowMalformed, BitmapEnd, vars
    <2>2. CASE NameEnd
      <3>1. /\ nameOK(job.msg, job.offset) /\ labels = nameAt(job.msg, job.offset).labels
            /\ after(pos + 1) = endOf(job.msg, job.offset)
        BY <1>1, <2>2, NameDecoded
      <3>2. job' = job /\ err' = "nil" /\ out' = Append(out, [at |-> start, name |-> labels, next |-> after(pos + 1), rdata |-> << >>])
            /\ out = << >>
        BY <1>3, <2>2 DEF NameEnd, Cursor
      <3>3. out'[1].name = labels /\ out'[1].next = after(pos + 1)
        BY <3>2
      <3>. QED BY <3>1, <3>2, <3>3 DEF NameIsReference, nameOK
    <2>3. CASE NameTruncated \/ Pointer
      <3>1. NameTruncated \/ (Pointer /\ pointerError # "nil")
        BY <1>3, <2>3 DEF Pointer
      <3>2. ~nameOK(job.msg, job.offset)
        BY <1>1, <3>1, NameFailed
      <3>3. job' = job /\ err' # "nil"
        BY <3>1 DEF NameTruncated, Pointer, Fail, nameError, pointerError
      <3>. QED BY <3>2, <3>3 DEF NameIsReference, nameOK
    <2>. QED BY <2>1, <2>2, <2>3
  <1>. QED BY <1>1, <1>2, <1>3

(***************************************************************************)
(* For every message and offset ParseDomainName returns the name that      *)
(* stands there and the offset after it, and an error exactly when there   *)
(* is none: the place set, the backward rule and the hop limit refuse no   *)
(* name they should not and let through none that never ends.              *)
(***************************************************************************)
THEOREM NamesDecoded == Spec => []NameIsReference
PROOF
  <1>1. Init => NameIsReference
    <2> SUFFICES ASSUME Init PROVE NameIsReference
      OBVIOUS
    <2>1. job.call = "ParseDomainName" => at = "name"
      BY DEF Init
    <2>. QED BY <2>1 DEF NameIsReference
  <1>. QED BY <1>1, InitDecoding, DecodingKeeps, CursorInit, CursorKeeps, NameKeeps, PTL DEF Spec

-----------------------------------------------------------------------------
\* A message: its entries follow each other.

toCome == left[1] + left[2] + left[3] + left[4]

\* With n entries decoded and the next at p, what is to come decides.
Agreed(n, p) ==
  /\ n = 0 => p = HeaderLen
  /\ n > 0 => /\ p = out[n].rdata[1] + out[n].rdata[2]
              /\ nameOK(job.msg, HeaderLen) /\ questionEnd <= size
              /\ fits(job.msg)[entries - 1][questionEnd] <=> fits(job.msg)[entries - n][p]

\* n entries are decoded, and the next is at start.
Done(n) ==
  /\ size >= HeaderLen /\ counts[1] = 1
  /\ left \in [1..4 -> Nat] /\ toCome = entries - n /\ toCome > 0
  /\ \A i \in 1..n : placed(i)
  /\ Agreed(n, start)

Records ==
  job.call = "ParseMessage" =>
    /\ at # "bitmap"
    /\ at # "done" => err = "nil"
    /\ at = "name" => Done(Len(out))
    /\ at = "fields" => /\ Len(out) >= 1 /\ Done(Len(out) - 1)
                        /\ nameOK(job.msg, start) /\ pos = endOf(job.msg, start)
                        /\ out[Len(out)].at = start
                        /\ out[Len(out)].name = nameAt(job.msg, start).labels

\* fits is what its definition says.
LEMMA Fits ==
  ASSUME NEW m \in Seq(Octet)
  PROVE  /\ \A p \in Nat : fits(m)[0][p]
         /\ \A n \in Nat, p \in Nat :
              fits(m)[n + 1][p] <=> recordOK(m, p) /\ fits(m)[n][recordEnd(m, p)]
PROOF
  <1> DEFINE R == [Nat -> BOOLEAN]
             all == [p \in Nat |-> TRUE]
             once(rest) == [p \in Nat |-> recordOK(m, p) /\ rest[recordEnd(m, p)]]
             step == [rest \in R |-> once(rest)]
             body(f) == [n \in Nat |-> IF n = 0 THEN all ELSE once(f[n - 1])]
  <1>1. all \in R
    OBVIOUS
  <1>2. ASSUME NEW rest \in R PROVE once(rest) \in R
    OBVIOUS
  <1> HIDE DEF R
  <1>3. PICK f : Recursive(f, R, all, step)
    <2>1. step \in [R -> R]
      <3> HIDE DEF once
      <3>. QED BY <1>2
    <2> HIDE DEF step, all
    <2>. QED BY <1>1, <2>1, Recursion
  <1>4. f = body(f)
    <2> HIDE DEF all, once
    <2>0. f \in [Nat -> R] /\ f[0] = all /\ \A n \in Nat : f[n + 1] = step[f[n]]
      BY <1>3 DEF Recursive
    <2>1. ASSUME NEW k \in Nat PROVE f[k] = body(f)[k]
      <3>1. CASE k = 0
        BY <2>0, <3>1
      <3>2. CASE k # 0
        <4>1. k - 1 \in Nat /\ (k - 1) + 1 = k
          BY <3>2
        <4>2. f[k] = step[f[k - 1]] /\ f[k - 1] \in R
          BY <2>0, <4>1
        <4>. QED BY <3>2, <4>2
      <3>. QED BY <3>1, <3>2
    <2>. QED BY <2>0, <2>1
  <1>5. fits(m) = CHOOSE e : e = body(e)
    BY DEF fits
  <1> DEFINE e == fits(m)
  <1>6. e = body(e)
    <2> HIDE DEF body, e
    <2>. QED BY <1>4, <1>5 DEF e
  <1> HIDE DEF e
  <1>7. e[0] = all
    <2> HIDE DEF all, once
    <2>1. e[0] = body(e)[0]
      BY <1>6
    <2>2. body(e)[0] = all
      OBVIOUS
    <2>. QED BY <2>1, <2>2
  <1>8. ASSUME NEW k \in Nat PROVE e[k + 1] = once(e[k])
    <2> HIDE DEF all, once
    <2>1. k + 1 \in Nat /\ k + 1 # 0 /\ (k + 1) - 1 = k
      OBVIOUS
    <2>2. e[k + 1] = body(e)[k + 1]
      BY <1>6
    <2> DEFINE j == k + 1
    <2> HIDE DEF j
    <2>3. body(e)[j] = once(e[j - 1])
      BY <2>1 DEF j
    <2>. QED BY <2>1, <2>2, <2>3 DEF j
  <1>9. ASSUME NEW n \in Nat, NEW p \in Nat
        PROVE  e[n + 1][p] <=> recordOK(m, p) /\ e[n][recordEnd(m, p)]
    <2>1. e[n + 1][p] = once(e[n])[p]
      BY <1>8
    <2>2. once(e[n])[p] <=> recordOK(m, p) /\ e[n][recordEnd(m, p)]
      OBVIOUS
    <2>. QED BY <2>1, <2>2
  <1>10. \A p \in Nat : e[0][p]
    BY <1>7
  <1>. QED BY <1>9, <1>10 DEF e

\* A name that is decoded ends within the numbers.
LEMMA NameEnds ==
  ASSUME NEW m \in Seq(Octet), NEW p \in Nat
  PROVE  endOf(m, p) \in Nat /\ nameAt(m, p).labels \in Labels
PROOF
  <1>1. Len(m) + 1 \in Nat
    OBVIOUS
  <1>2. Within(m, Len(m) + 1, p) \in Name
    BY <1>1, NoRounds
  <1>. QED BY <1>2, NameParts DEF endOf, nameAt, Within

LEMMA Counts ==
  ASSUME Locals, size >= HeaderLen
  PROVE  counts \in [1..4 -> Nat] /\ entries \in Nat /\ entries >= 1
         /\ entries = 1 + counts[2] + counts[3] + counts[4]
PROOF
  <1>1. size \in Nat /\ HeaderLen = 12
    BY Messages DEF HeaderLen
  <1>2. ASSUME NEW s \in 1..4 PROVE uint16(2 + 2 * s) \in Nat
    <2>1. 2 + 2 * s \in Nat /\ (2 + 2 * s) + 1 < size
      BY <1>1
    <2>. QED BY <2>1, Messages
  <1>3. counts \in [1..4 -> Nat]
    BY <1>2 DEF counts
  <1>4. counts[2] \in Nat /\ counts[3] \in Nat /\ counts[4] \in Nat
    BY <1>3
  <1>. QED BY <1>3, <1>4 DEF entries

\* One entry less is to come.
LEMMA OneLess ==
  ASSUME left \in [1..4 -> Nat], toCome > 0
  PROVE  LET l == [left EXCEPT ![section] = @ - 1]
         IN  /\ l \in [1..4 -> Nat] /\ l[1] + l[2] + l[3] + l[4] = toCome - 1
             /\ (\A s \in 1..4 : l[s] = 0) <=> toCome = 1
PROOF
  <1> DEFINE S == {s \in 1..4 : left[s] > 0}
             l == [left EXCEPT ![section] = @ - 1]
  <1>1. left[1] \in Nat /\ left[2] \in Nat /\ left[3] \in Nat /\ left[4] \in Nat
    OBVIOUS
  <1>2. \E s \in S : \A y \in S : s =< y
    <2>1. CASE left[1] > 0
      BY <2>1
    <2>2. CASE ~(left[1] > 0) /\ left[2] > 0
      BY <2>2
    <2>3. CASE ~(left[1] > 0) /\ ~(left[2] > 0) /\ left[3] > 0
      BY <2>3
    <2>4. CASE ~(left[1] > 0) /\ ~(left[2] > 0) /\ ~(left[3] > 0) /\ left[4] > 0
      BY <2>4
    <2>5. left[1] > 0 \/ left[2] > 0 \/ left[3] > 0 \/ left[4] > 0
      BY <1>1 DEF toCome
    <2>. QED BY <2>1, <2>2, <2>3, <2>4, <2>5
  <1>3. section \in S
    <2> HIDE DEF S
    <2>1. section = CHOOSE s \in S : \A y \in S : s =< y
      BY DEF section, Min, S
    <2>. QED BY <1>2, <2>1
  <1>4. section \in 1..4 /\ left[section] > 0 /\ left[section] \in Nat
    BY <1>3
  <1>5. l \in [1..4 -> Nat]
    BY <1>4
  <1>6. l[1] + l[2] + l[3] + l[4] = toCome - 1
    <2>1. CASE section = 1
      BY <1>1, <1>4, <2>1 DEF toCome
    <2>2. CASE section = 2
      BY <1>1, <1>4, <2>2 DEF toCome
    <2>3. CASE section = 3
      BY <1>1, <1>4, <2>3 DEF toCome
    <2>4. CASE section = 4
      BY <1>1, <1>4, <2>4 DEF toCome
    <2>. QED BY <1>4, <2>1, <2>2, <2>3, <2>4
  <1> HIDE DEF l
  <1>7. l[1] \in Nat /\ l[2] \in Nat /\ l[3] \in Nat /\ l[4] \in Nat /\ toCome \in Nat
    BY <1>1, <1>5 DEF toCome
  <1>8. (\A s \in 1..4 : l[s] = 0) <=> toCome = 1
    <2>1. (\A s \in 1..4 : l[s] = 0) <=> l[1] = 0 /\ l[2] = 0 /\ l[3] = 0 /\ l[4] = 0
      OBVIOUS
    <2> DEFINE a == l[1]
               b == l[2]
               c == l[3]
               d == l[4]
    <2>2. a \in Nat /\ b \in Nat /\ c \in Nat /\ d \in Nat /\ a + b + c + d = toCome - 1
      BY <1>6, <1>7
    <2> HIDE DEF a, b, c, d
    <2>3. a = 0 /\ b = 0 /\ c = 0 /\ d = 0 <=> toCome = 1
      BY <1>7, <2>2
    <2> USE DEF a, b, c, d
    <2>. QED BY Zenon, <2>1, <2>3
  <1>. QED BY <1>5, <1>6, <1>8 DEF l

\* What stays the same with the call.
LEMMA SameMessage ==
  ASSUME job' = job
  PROVE  /\ size' = size /\ counts' = counts /\ entries' = entries /\ questionEnd' = questionEnd
         /\ wellFormed' <=> wellFormed
PROOF
  <1>1. size' = size /\ counts' = counts /\ questionEnd' = questionEnd
    BY DEF size, counts, uint16, questionEnd, HeaderLen
  <1>2. entries' = entries
    BY <1>1 DEF entries
  <1>. QED BY <1>1, <1>2 DEF wellFormed

\* Where an entry is missing the message is not well formed.
LEMMA EntryMissing ==
  ASSUME Locals, NEW n \in Nat, Done(n),
         n = 0 => ~nameOK(job.msg, HeaderLen) \/ ~(questionEnd <= size),
         n > 0 => ~recordOK(job.msg, start)
  PROVE  ~wellFormed
PROOF
  <1>1. job.msg \in Seq(Octet) /\ start \in Nat
    BY Message DEF Locals
  <1>2. entries \in Nat /\ toCome \in Nat /\ toCome = entries - n /\ toCome > 0
    BY Counts DEF Done, toCome
  <1>3. CASE n = 0
    BY <1>3 DEF wellFormed
  <1>4. CASE n > 0
    <2>1. fits(job.msg)[entries - 1][questionEnd] <=> fits(job.msg)[entries - n][start]
      BY <1>4 DEF Done, Agreed
    <2>2. (entries - n) - 1 \in Nat /\ ((entries - n) - 1) + 1 = entries - n
      BY <1>2
    <2>3. fits(job.msg)[((entries - n) - 1) + 1][start] =>  recordOK(job.msg, start)
      BY <1>1, <2>2, Fits
    <2>4. ~fits(job.msg)[entries - n][start]
      BY <1>4, <2>2, <2>3
    <2>. QED BY <2>1, <2>4 DEF wellFormed
  <1>. QED BY <1>3, <1>4

\* The fields against the record they belong to.
LEMMA FieldsHere ==
  ASSUME Decoding, Records, at = "fields"
  PROVE  /\ job.call = "ParseMessage" /\ Len(out) \in Nat /\ Len(out) >= 1 /\ Done(Len(out) - 1)
         /\ start \in Nat /\ endOf(job.msg, start) \in Nat /\ pos = endOf(job.msg, start)
         /\ size = Len(job.msg) /\ size \in Nat
         /\ Len(out) = 1 => start = HeaderLen /\ pos + fieldsLen = questionEnd /\ rdlen = 0 /\ fieldsLen = 4
         /\ Len(out) # 1 => /\ pos + fieldsLen = rdataAt(job.msg, start) /\ fieldsLen = 10
                            /\ rdlen = rdlenAt(job.msg, start)
PROOF
  <1>1. Locals /\ job.call = "ParseMessage"
    BY DEF Decoding, Locals
  <1>2. out \in Seq(Entry) /\ Len(out) \in Nat /\ Len(out) >= 1 /\ Done(Len(out) - 1) /\ pos = endOf(job.msg, start)
    BY <1>1 DEF Locals, Records
  <1>3. start \in Nat /\ endOf(job.msg, start) \in Nat /\ size = Len(job.msg) /\ size \in Nat
    BY <1>1, Message, NameEnds DEF Locals
  <1>4. ASSUME Len(out) = 1
        PROVE  start = HeaderLen /\ pos + fieldsLen = questionEnd /\ rdlen = 0 /\ fieldsLen = 4
    <2>1. Len(out) - 1 = 0
      BY <1>4
    <2>2. start = HeaderLen
      BY <1>2, <2>1 DEF Done, Agreed
    <2>. QED BY <1>2, <1>4, <2>2 DEF fieldsLen, rdlen, inQuestion, questionEnd
  <1>5. ASSUME Len(out) # 1
        PROVE  pos + fieldsLen = rdataAt(job.msg, start) /\ fieldsLen = 10 /\ rdlen = rdlenAt(job.msg, start)
    <2>1. fieldsLen = 10 /\ rdlen = u16(job.msg, pos + 8)
      BY <1>5 DEF fieldsLen, rdlen, inQuestion, uint16
    <2>2. rdataAt(job.msg, start) = pos + 10 /\ rdataAt(job.msg, start) - 2 = pos + 8
      BY <1>2, <1>3 DEF rdataAt
    <2>. QED BY <2>1, <2>2 DEF rdlenAt
  <1>. QED BY <1>1, <1>2, <1>3, <1>4, <1>5

\* The call ends with an error.
LEMMA MessageFails ==
  ASSUME Decoding, Cursor, Records, job.call = "ParseMessage",
         \/ NameTruncated \/ (Pointer /\ pointerError # "nil")
         \/ HeaderMalformed \/ FieldsTruncated
  PROVE  Records' /\ MessageIsReference'
PROOF
  <1>1. Locals /\ job' = job /\ at' = "done" /\ err' # "nil"
    BY DEF Decoding, NameTruncated, Pointer, HeaderMalformed, FieldsTruncated, Fail, nameError, pointerError
  <1>2. ~wellFormed
    <2>1. CASE NameTruncated \/ (Pointer /\ pointerError # "nil")
      <3>1. at = "name" /\ ~nameOK(job.msg, start) /\ start \in Nat /\ Len(out) \in Nat
        BY <1>1, <2>1, NameFailed DEF NameTruncated, Pointer, Locals
      <3>2. Done(Len(out))
        BY <3>1 DEF Records
      <3>3. Len(out) = 0 => start = HeaderLen
        BY <3>2 DEF Done, Agreed
      <3>. QED BY <1>1, <3>1, <3>2, <3>3, EntryMissing DEF recordOK
    <2>2. CASE HeaderMalformed
      <3>1. size \in Nat /\ HeaderLen \in Nat
        BY <1>1, Messages DEF HeaderLen
      <3>. QED BY <2>2, <3>1 DEF HeaderMalformed, wellFormed
    <2>3. CASE FieldsTruncated
      <3>1. at = "fields" /\ pos \in Nat
        BY <1>1, <2>3 DEF FieldsTruncated, Locals
      <3>2. pos + fieldsLen > size \/ pos + fieldsLen + rdlen > size
        BY <2>3 DEF FieldsTruncated
      <3>3. CASE Len(out) = 1
        <4>1. pos + fieldsLen = questionEnd /\ rdlen = 0 /\ size \in Nat /\ fieldsLen = 4 /\ Done(Len(out) - 1)
          BY <3>1, <3>3, FieldsHere
        <4>2. ~(questionEnd <= size)
          BY <3>1, <3>2, <4>1
        <4>3. PICK n \in Nat : n = Len(out) - 1
          BY <3>3
        <4>4. Done(n)
          BY <4>1, <4>3
        <4>5. ~(n > 0)
          BY <3>3, <4>3
        <4>. QED BY <1>1, <4>2, <4>4, <4>5, EntryMissing
      <3>4. CASE Len(out) # 1
        <4>1. /\ pos + fieldsLen = rdataAt(job.msg, start) /\ rdlen = rdlenAt(job.msg, start)
              /\ size = Len(job.msg) /\ Done(Len(out) - 1) /\ Len(out) \in Nat /\ Len(out) >= 1 /\ fieldsLen = 10 /\ size \in Nat
          BY <3>1, <3>4, FieldsHere
        <4>2. ~recordOK(job.msg, start)
          <5>1. CASE pos + fieldsLen > size
            <6>1. ~(pos + fieldsLen <= size)
              BY <3>1, <4>1, <5>1
            <6>. QED BY <4>1, <6>1 DEF recordOK
          <5>2. CASE ~(pos + fieldsLen > size)
            <6>1. pos + fieldsLen <= size
              BY <3>1, <4>1, <5>2
            <6>2. pos + fieldsLen + rdlen \in Nat
              BY <1>1, <3>1, <6>1, FieldsTyped
            <6>3. ~(pos + fieldsLen + rdlen <= size)
              BY <3>2, <4>1, <5>2, <6>2
            <6>. QED BY <4>1, <6>3 DEF recordOK, recordEnd
          <5>. QED BY <5>1, <5>2
        <4>3. PICK n \in Nat : n = Len(out) - 1 /\ n > 0
          <5>1. PICK k \in Nat : k = Len(out)
            BY <4>1
          <5>2. k - 1 \in Nat /\ k - 1 > 0
            BY <3>4, <4>1, <5>1
          <5>. QED BY <5>1, <5>2
        <4>4. Done(n) /\ n # 0
          BY <4>1, <4>3
        <4>. QED BY <1>1, <4>2, <4>3, <4>4, EntryMissing
      <3>. QED BY <3>3, <3>4
    <2>. QED BY <2>1, <2>2, <2>3
  <1>3. ~wellFormed'
    BY <1>1, <1>2, SameMessage
  <1>. QED BY <1>1, <1>3 DEF Records, MessageIsReference

\* Entries stay where they are.
LEMMA PlacedKeeps ==
  ASSUME NEW n \in Nat, job' = job, \A i \in 1..n : placed(i), \A i \in 1..n : out'[i] = out[i]
  PROVE  \A i \in 1..n : placed(i)'
PROOF
  <1> SUFFICES ASSUME NEW i \in 1..n PROVE placed(i)'
    OBVIOUS
  <1>1. placed(i) /\ out'[i] = out[i] /\ questionEnd' = questionEnd
    BY SameMessage
  <1>2. i # 1 => out'[i - 1] = out[i - 1]
    <2>1. i # 1 => i - 1 \in 1..n
      OBVIOUS
    <2>. QED BY <2>1
  <1>. QED BY <1>1, <1>2 DEF placed, HeaderLen

LEMMA DoneKeeps ==
  ASSUME NEW n \in Nat, Done(n), job' = job, left' = left, start' = start,
         \A i \in 1..n : out'[i] = out[i]
  PROVE  Done(n)'
PROOF
  <1>1. size' = size /\ counts' = counts /\ entries' = entries /\ questionEnd' = questionEnd
    BY SameMessage
  <1>2. \A i \in 1..n : placed(i)'
    BY PlacedKeeps DEF Done
  <1>3. n > 0 => out'[n] = out[n]
    <2>1. n > 0 => n \in 1..n
      OBVIOUS
    <2>. QED BY <2>1
  <1>4. Agreed(n, start)'
    BY <1>1, <1>3 DEF Done, Agreed, HeaderLen
  <1>5. (size >= HeaderLen /\ counts[1] = 1 /\ left \in [1..4 -> Nat] /\ toCome = entries - n /\ toCome > 0)'
    BY <1>1 DEF Done, toCome, HeaderLen
  <1>. QED BY <1>2, <1>4, <1>5 DEF Done

\* The rounds of a name leave the entries alone.
LEMMA MessageRound ==
  ASSUME Decoding, Records, job.call = "ParseMessage", at = "name", at' = at, job' = job, left' = left,
         start' = start, out' = out, err' = err
  PROVE  Records' /\ MessageIsReference'
PROOF
  <1>1. Done(Len(out)) /\ out \in Seq(Entry) /\ err = "nil"
    BY DEF Records, Decoding, Locals
  <1>2. PICK n \in Nat : n = Len(out)
    BY <1>1
  <1>3. Done(n)'
    BY <1>1, <1>2, DoneKeeps
  <1>4. Done(Len(out))'
    <2>1. n = Len(out')
      BY <1>2
    <2>. QED BY <1>3, <2>1
  <1>. QED BY <1>1, <1>4 DEF Records, MessageIsReference

\* The next name begins where an entry ends, after the header first.
LEMMA MessageHeader ==
  ASSUME Decoding, Cursor, Records, Header
  PROVE  Records' /\ MessageIsReference'
PROOF
  <1>1. Locals /\ Room /\ at = "header" /\ size >= HeaderLen /\ counts[1] = 1 /\ NextEntry(counts, HeaderLen)
        /\ job' = job /\ out' = out /\ err' = err
    BY DEF Decoding, Header
  <1>2. job.call = "ParseMessage" /\ out = << >> /\ err = "nil"
    BY <1>1 DEF Locals, Room, Records
  <1>3. counts \in [1..4 -> Nat] /\ entries \in Nat /\ entries = 1 + counts[2] + counts[3] + counts[4]
    BY <1>1, Counts
  <1>4. ~(\A s \in 1..4 : counts[s] = 0)
    BY <1>1
  <1>5. at' = "name" /\ left' = counts /\ start' = HeaderLen
    BY <1>1, <1>4 DEF NextEntry
  <1>6. toCome' = entries /\ entries > 0
    <2>1. counts[2] \in Nat /\ counts[3] \in Nat /\ counts[4] \in Nat
      BY <1>3
    <2>2. toCome' = counts[1] + counts[2] + counts[3] + counts[4]
      BY <1>5 DEF toCome
    <2>. QED BY <1>1, <1>3, <2>1, <2>2
  <1>7. size' = size /\ counts' = counts /\ entries' = entries
    BY <1>1, SameMessage
  <1>8. Len(out') = 0
    BY <1>1, <1>2
  <1>9. Done(0)'
    <2>1. (toCome = entries - 0)' /\ (toCome > 0)'
      BY <1>3, <1>6, <1>7
    <2>2. Agreed(0, start)'
      BY <1>5 DEF Agreed
    <2>3. (size >= HeaderLen /\ counts[1] = 1 /\ left \in [1..4 -> Nat])'
      BY <1>1, <1>3, <1>5, <1>7 DEF HeaderLen
    <2>. QED BY <2>1, <2>2, <2>3 DEF Done
  <1>10. Done(Len(out))'
    BY <1>8, <1>9
  <1>. QED BY <1>1, <1>2, <1>5, <1>10 DEF Records, MessageIsReference

\* A name is decoded in a message.
LEMMA MessageName ==
  ASSUME Decoding, Cursor, Records, NameEnd, job.call = "ParseMessage"
  PROVE  Records' /\ MessageIsReference'
PROOF
  <1> DEFINE e == [at |-> start, name |-> labels, next |-> after(pos + 1), rdata |-> << >>]
  <1>1. /\ Locals /\ at = "name" /\ at' = "fields" /\ out' = Append(out, e) /\ pos' = after(pos + 1)
        /\ job' = job /\ start' = start /\ left' = left /\ err' = err
    BY DEF Decoding, NameEnd
  <1>2. /\ nameOK(job.msg, start) /\ labels = nameAt(job.msg, start).labels
        /\ after(pos + 1) = endOf(job.msg, start)
    BY NameDecoded
  <1>3. out \in Seq(Entry) /\ Done(Len(out)) /\ err = "nil"
    BY <1>1 DEF Records, Locals
  <1>4. e \in Entry
    <2>1. after(pos + 1) \in Nat
      BY <1>1 DEF after, Locals
    <2>. QED BY <1>1, <2>1 DEF Entry, Locals
  <1>5. e.at = start /\ e.name = labels
    OBVIOUS
  <1> HIDE DEF e
  <1>6. PICK n \in Nat : n = Len(out)
    BY <1>3
  <1>7. Len(out') = n + 1 /\ out'[n + 1] = e /\ \A i \in 1..n : out'[i] = out[i]
    BY <1>1, <1>3, <1>4, <1>6
  <1>8. Done(n)'
    BY <1>1, <1>3, <1>6, <1>7, DoneKeeps
  <1>9. Len(out') >= 1 /\ Len(out') - 1 = n /\ out'[Len(out')] = e
    BY <1>7
  <1>10. Done(Len(out) - 1)'
    BY <1>8, <1>9
  <1>11. /\ nameOK(job.msg, start)' /\ (pos = endOf(job.msg, start))'
         /\ (out[Len(out)].at = start)' /\ (out[Len(out)].name = nameAt(job.msg, start).labels)'
    BY <1>1, <1>2, <1>5, <1>9
  <1>. QED BY <1>1, <1>3, <1>9, <1>10, <1>11 DEF Records, MessageIsReference

\* With the fields an entry is decoded, and the call may be over.
LEMMA MessageFields ==
  ASSUME Decoding, Cursor, Records, Fields
  PROVE  Records' /\ MessageIsReference'
PROOF
  <1> DEFINE from == pos + fieldsLen + rdlen
             rd == <<pos + fieldsLen, rdlen>>
             todo == [left EXCEPT ![section] = @ - 1]
  <1>1. /\ Locals /\ at = "fields" /\ pos + fieldsLen <= size /\ from <= size
        /\ out' = [out EXCEPT ![Len(out)].rdata = rd] /\ NextEntry(todo, from)
        /\ job' = job /\ err' = err
    BY DEF Decoding, Fields
  <1>2. /\ fieldsLen \in Nat /\ rdlen \in Nat /\ from \in Nat /\ pos \in Nat
    BY <1>1, FieldsTyped DEF Locals
  <1>3. /\ job.call = "ParseMessage" /\ Len(out) >= 1 /\ Done(Len(out) - 1) /\ start \in Nat /\ err = "nil"
        /\ out \in Seq(Entry)
        /\ nameOK(job.msg, start)
        /\ out[Len(out)].at = start /\ out[Len(out)].name = nameAt(job.msg, start).labels
    BY <1>1, FieldsHere DEF Records, Locals
  <1>4. PICK n \in Nat : n = Len(out) - 1
    BY <1>3
  <1>5. n + 1 = Len(out) /\ n + 1 \in 1..(n + 1) /\ n + 1 \in Nat
    BY <1>3, <1>4
  <1>6. Done(n) /\ out[n + 1].at = start /\ out[n + 1].name = nameAt(job.msg, start).labels
    BY <1>3, <1>4, <1>5
  <1>7. /\ Len(out') = n + 1 /\ \A i \in 1..n : out'[i] = out[i]
        /\ out'[n + 1].at = start /\ out'[n + 1].name = nameAt(job.msg, start).labels /\ out'[n + 1].rdata = rd
    <2>1. out[n + 1] \in Entry
      BY <1>3, <1>5
    <2>2. out' = [out EXCEPT ![n + 1] = [out[n + 1] EXCEPT !.rdata = rd]]
      BY <1>1, <1>5
    <2> DEFINE new == [out[n + 1] EXCEPT !.rdata = rd]
    <2>3. new.at = start /\ new.name = nameAt(job.msg, start).labels /\ new.rdata = rd
      <3> HIDE DEF rd
      <3>. QED BY <1>6, <2>1 DEF Entry
    <2> HIDE DEF new
    <2>4. out' = [out EXCEPT ![n + 1] = new]
      BY <2>2 DEF new
    <2>5. Len(out') = n + 1 /\ out'[n + 1] = new /\ \A i \in 1..n : out'[i] = out[i]
      BY <1>3, <1>5, <2>4
    <2>. QED BY <2>3, <2>5
  <1>8. rd[1] + rd[2] = from
    BY <1>2
  <1>9. /\ size' = size /\ counts' = counts /\ entries' = entries /\ questionEnd' = questionEnd
        /\ wellFormed' <=> wellFormed
    BY <1>1, SameMessage
  <1>10. \A i \in 1..(n + 1) : placed(i)'
    <2>1. \A i \in 1..n : placed(i)'
      BY <1>1, <1>6, <1>7, PlacedKeeps DEF Done
    <2>2. placed(n + 1)'
      <3>1. out'[n + 1].at = IF n + 1 = 1 THEN HeaderLen ELSE out'[(n + 1) - 1].rdata[1] + out'[(n + 1) - 1].rdata[2]
        <4>1. n = 0 => start = HeaderLen
          BY <1>6 DEF Done, Agreed
        <4>2. n > 0 => start = out[n].rdata[1] + out[n].rdata[2] /\ out'[n] = out[n]
          <5>1. n > 0 => n \in 1..n
            OBVIOUS
          <5>. QED BY <1>6, <1>7, <5>1 DEF Done, Agreed
        <4>3. (n + 1) - 1 = n /\ (n + 1 = 1 <=> n = 0) /\ (n = 0 \/ n > 0)
          OBVIOUS
        <4>. QED BY <1>7, <4>1, <4>2, <4>3
      <3>2. rd = IF n + 1 = 1 THEN <<questionEnd, 0>> ELSE <<rdataAt(job.msg, start), rdlenAt(job.msg, start)>>
        BY <1>1, <1>5, FieldsHere
      <3> DEFINE j == n + 1
      <3> HIDE DEF j, rd
      <3>3. /\ out'[j].at = IF j = 1 THEN HeaderLen ELSE out'[j - 1].rdata[1] + out'[j - 1].rdata[2]
            /\ out'[j].at = start /\ out'[j].name = nameAt(job.msg, start).labels
            /\ out'[j].rdata = IF j = 1 THEN <<questionEnd, 0>> ELSE <<rdataAt(job.msg, start), rdlenAt(job.msg, start)>>
        BY <1>7, <3>1, <3>2 DEF j
      <3>4. job'.msg = job.msg
        BY <1>1
      <3>5. placed(j)'
        BY <1>9, <3>3, <3>4 DEF placed, HeaderLen
      <3>. QED BY <3>5 DEF j
    <2>3. \A i \in 1..(n + 1) : i \in 1..n \/ i = n + 1
      OBVIOUS
    <2>. QED BY <2>1, <2>2, <2>3
  <1>11. /\ entries \in Nat /\ toCome \in Nat /\ toCome = entries - n /\ toCome > 0
         /\ size >= HeaderLen /\ counts[1] = 1
    <2>1. /\ left \in [1..4 -> Nat] /\ toCome = entries - n /\ toCome > 0
          /\ size >= HeaderLen /\ counts[1] = 1
      <3> HIDE DEF toCome
      <3>. QED BY <1>6 DEF Done
    <2>2. toCome \in Nat
      BY <2>1
    <2>3. entries \in Nat
      BY <1>1, <2>1, Counts
    <2>. QED BY <2>1, <2>2, <2>3
  <1>12. /\ left' = todo /\ start' = from /\ at' = IF \A s \in 1..4 : todo[s] = 0 THEN "done" ELSE "name"
         /\ todo \in [1..4 -> Nat] /\ todo[1] + todo[2] + todo[3] + todo[4] = toCome - 1
         /\ (\A s \in 1..4 : todo[s] = 0) <=> toCome = 1
    BY <1>1, <1>6, OneLess DEF NextEntry, Done
  <1> HIDE DEF todo, from, rd
  <1>13. /\ nameOK(job.msg, HeaderLen) /\ questionEnd <= size
         /\ fits(job.msg)[entries - 1][questionEnd] <=> fits(job.msg)[entries - (n + 1)][from]
    <2>1. CASE n = 0
      <3>1. start = HeaderLen /\ pos + fieldsLen = questionEnd /\ rdlen = 0 /\ n + 1 = 1
        BY <1>1, <1>5, <2>1, FieldsHere
      <3>2. from = questionEnd
        BY <1>2, <3>1 DEF from
      <3>. QED BY <1>1, <1>3, <3>1, <3>2
    <2>2. CASE n > 0
      <3>1. pos + fieldsLen = rdataAt(job.msg, start) /\ rdlen = rdlenAt(job.msg, start) /\ size = Len(job.msg)
        BY <1>1, <1>5, <2>2, FieldsHere
      <3>2. recordOK(job.msg, start) /\ recordEnd(job.msg, start) = from
        BY <1>1, <1>3, <3>1 DEF recordOK, recordEnd, from
      <3>3. /\ nameOK(job.msg, HeaderLen) /\ questionEnd <= size
            /\ fits(job.msg)[entries - 1][questionEnd] <=> fits(job.msg)[entries - n][start]
        BY <1>6, <2>2 DEF Done, Agreed
      <3>4. entries - (n + 1) \in Nat /\ (entries - (n + 1)) + 1 = entries - n
        BY <1>11
      <3>5. job.msg \in Seq(Octet)
        BY <1>1, Message
      <3>6. fits(job.msg)[(entries - (n + 1)) + 1][start] <=> fits(job.msg)[entries - (n + 1)][from]
        BY <1>3, <3>2, <3>4, <3>5, Fits
      <3>. QED BY <3>3, <3>4, <3>6
    <2>. QED BY <2>1, <2>2
  <1>14. CASE toCome = 1
    <2>1. at' = "done" /\ entries = n + 1
      BY <1>11, <1>12, <1>14
    <2>2. fits(job.msg)[entries - (n + 1)][from]
      <3>1. entries - (n + 1) = 0 /\ job.msg \in Seq(Octet)
        BY <1>1, <2>1, <1>11, Message
      <3>2. \A z \in Nat : z = 0 => fits(job.msg)[z][from]
        BY <1>2, <3>1, Fits
      <3>. QED BY <3>1, <3>2
    <2>3. wellFormed'
      BY <1>9, <1>11, <1>13, <2>2 DEF wellFormed
    <2>4. err' = "nil" /\ Len(out') = entries' /\ \A i \in 1..entries' : placed(i)'
      BY <1>1, <1>3, <1>7, <1>9, <1>10, <2>1
    <2>. QED BY <2>1, <2>3, <2>4 DEF Records, MessageIsReference
  <1>15. CASE toCome # 1
    <2>1. at' = "name"
      BY <1>12, <1>15
    <2>2. Agreed(n + 1, start)'
      <3>1. ~(n + 1 = 0) /\ out'[n + 1].rdata[1] + out'[n + 1].rdata[2] = from
        BY <1>7, <1>8
      <3>2. job'.msg = job.msg /\ start' = from
        BY <1>1, <1>12
      <3> DEFINE j == n + 1
      <3>3. ~(j = 0) /\ out'[j].rdata[1] + out'[j].rdata[2] = from
            /\ (fits(job.msg)[entries - 1][questionEnd] <=> fits(job.msg)[entries - j][from])
        BY <1>13, <3>1
      <3> HIDE DEF j
      <3>4. Agreed(j, start)'
        BY <1>9, <1>13, <3>2, <3>3 DEF Agreed, HeaderLen
      <3>. QED BY <3>4 DEF j
    <2>3. (size >= HeaderLen /\ counts[1] = 1 /\ left \in [1..4 -> Nat])'
      BY <1>9, <1>11, <1>12 DEF HeaderLen
    <2>4. (toCome = entries - (n + 1) /\ toCome > 0)'
      <3>1. toCome' = toCome - 1
        BY <1>12 DEF toCome
      <3>. QED BY <1>9, <1>11, <1>15, <3>1
    <2>5. Done(n + 1)'
      BY <1>10, <2>2, <2>3, <2>4 DEF Done
    <2>6. Done(Len(out))'
      BY <1>7, <2>5
    <2>. QED BY <1>1, <1>3, <2>1, <2>6 DEF Records, MessageIsReference
  <1>. QED BY <1>14, <1>15

LEMMA RecordsKeep ==
  Decoding /\ Cursor /\ Records /\ MessageIsReference /\ [Next]_vars => Records' /\ MessageIsReference'
PROOF
  <1> SUFFICES ASSUME Decoding, Cursor, Records, MessageIsReference, [Next]_vars, job.call = "ParseMessage"
               PROVE  Records' /\ MessageIsReference'
    BY SameJob DEF Records, MessageIsReference
  <1>1. at # "bitmap"
    BY DEF Records
  <1>2. CASE NameTruncated \/ HeaderMalformed \/ FieldsTruncated
    BY <1>2, MessageFails
  <1>3. CASE Pointer
    <2>1. CASE pointerError # "nil"
      BY <1>3, <2>1, MessageFails
    <2>2. CASE pointerError = "nil"
      BY <1>3, <2>2, MessageRound DEF Pointer
    <2>. QED BY <2>1, <2>2
  <1>4. CASE Label
    BY <1>4, MessageRound DEF Label
  <1>5. CASE DecodeWindow \/ WindowMalformed \/ BitmapEnd
    BY <1>1, <1>5 DEF DecodeWindow, WindowMalformed, BitmapEnd
  <1>6. CASE UNCHANGED vars
    <2>1. job' = job /\ at' = at /\ pos' = pos /\ start' = start /\ left' = left /\ out' = out /\ err' = err
      BY <1>6 DEF vars
    <2>2. size' = size /\ counts' = counts /\ entries' = entries /\ questionEnd' = questionEnd
          /\ (wellFormed' <=> wellFormed)
      BY <2>1, SameMessage
    <2>3. toCome' = toCome /\ \A i : placed(i)' <=> placed(i)
      BY <2>1, <2>2 DEF toCome, placed, HeaderLen
    <2>4. \A n : Done(n)' <=> Done(n)
      BY <2>1, <2>2, <2>3 DEF Done, Agreed, HeaderLen
    <2>. QED BY <2>1, <2>2, <2>3, <2>4 DEF Records, MessageIsReference
  <1>. QED BY <1>2, <1>3, <1>4, <1>5, <1>6, MessageHeader, MessageName, MessageFields DEF Next, Step, Finished

(***************************************************************************)
(* Whatever a server sends, ParseMessage returns exactly the entries that  *)
(* the counts of the header and the lengths in the records announce, each  *)
(* with the name its octets stand for, or an error when one of them is not *)
(* all there: no count, length or pointer makes it lose its place.         *)
(***************************************************************************)
THEOREM MessagesDecoded == Spec => []MessageIsReference
PROOF
  <1>1. Init => Records /\ MessageIsReference
    <2> SUFFICES ASSUME Init, job.call = "ParseMessage" PROVE Records /\ MessageIsReference
      BY DEF Records, MessageIsReference
    <2>1. at = "header" /\ err = "nil"
      BY DEF Init
    <2>. QED BY <2>1 DEF Records, MessageIsReference
  <1>. QED BY <1>1, InitDecoding, DecodingKeeps, CursorInit, CursorKeeps, RecordsKeep, PTL DEF Spec
=============================================================================
