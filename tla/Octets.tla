------------------------------- MODULE Octets -------------------------------
(***************************************************************************)
(* The conversions of the wire package on whole octet sequences: numbers,  *)
(* domain names and type bitmaps.  Octets are numbers below 256, offsets   *)
(* count from 0 as in the code, and a text is the sequence of its          *)
(* characters' codes.  A conversion that can fail returns the set of its   *)
(* results: empty when it returns an error, a singleton otherwise.         *)
(*                                                                         *)
(* Module Wire decodes names and bitmaps round by round; here are their    *)
(* results, for the modules that only need those.                          *)
(***************************************************************************)
EXTENDS Naturals, Sequences, FiniteSetsExt, SequencesExt

CONSTANTS
  MaxPointerHops,  \* compression pointers followed in one name
  MaxLabel,        \* octets of a label that is written
  MaxName          \* octets of a name that is written

u8(m, i) == m[i + 1]
u16(m, i) == m[i + 1] * 256 + m[i + 2]
u32(m, i) == u16(m, i) * 65536 + u16(m, i + 2)

\* m[from:to]
slice(m, from, to) == SubSeq(m, from + 1, to)

\* Big-endian, as wide as the field.
AppendUint8(n) == <<n % 256>>
AppendUint16(n) == <<(n \div 256) % 256, n % 256>>
AppendUint32(n) == AppendUint16(n \div 65536) \o AppendUint16(n)

-----------------------------------------------------------------------------
\* Domain names.

Dot == 46

NoName == [ok |-> FALSE, labels |-> << >>, hops |-> 0, end |-> 0]

\* What stands at q, when rest[p] is what stands at every other p: its
\* labels, the pointers to get at them, and the offset after it in place.
expandAt(m, rest, q) ==
  IF q >= Len(m) THEN NoName
  ELSE IF u8(m, q) = 0 THEN [ok |-> TRUE, labels |-> << >>, hops |-> 0, end |-> q + 1]
  ELSE IF u8(m, q) <= 63 /\ q + 1 + u8(m, q) <= Len(m)
  THEN [rest[q + 1 + u8(m, q)] EXCEPT !.labels = <<slice(m, q + 1, q + 1 + u8(m, q))>> \o @]
  ELSE IF u8(m, q) >= 192 /\ q + 1 < Len(m) /\ u16(m, q) - 49152 < q
  THEN [rest[u16(m, q) - 49152] EXCEPT !.hops = @ + 1, !.end = q + 2]
  ELSE NoName

\* The names of up to k - 1 labels and pointers, by where they begin.
expansions(m) ==
  LET expand[k \in Nat] ==
        IF k = 0 THEN [q \in Nat |-> NoName]
        ELSE [q \in Nat |-> expandAt(m, expand[k - 1], q)]
  IN  expand

\* The name at p.  A name that ends passes no octet twice.
nameAt(m, p) == expansions(m)[Len(m) + 1][p]

endOf(m, p) == nameAt(m, p).end

\* Every label is followed by a dot; nothing in a label is escaped.
assembleName(labels) ==
  IF labels = << >> THEN <<Dot>>
  ELSE FlattenSeq([i \in DOMAIN labels |-> Append(labels[i], Dot)])

ParseDomainName(m, p) ==
  {[name |-> assembleName(n.labels), next |-> endOf(m, p)] :
     n \in {n \in {nameAt(m, p)} : n.ok /\ n.hops <= MaxPointerHops}}

asciiToLower(b) == IF b \in 65..90 THEN b + 32 ELSE b

\* The pieces of a text between its dots.
pieces(t) ==
  LET cuts == SetToSortSeq({i \in DOMAIN t : t[i] = Dot} \cup {0, Len(t) + 1}, <)
  IN  [i \in 1..(Len(cuts) - 1) |-> SubSeq(t, cuts[i] + 1, cuts[i + 1] - 1)]

\* Empty pieces are dropped; a dot at the end makes the name absolute.
DomainNameToWirePreserveCase(t) ==
  LET labels == SelectSeq(pieces(t), LAMBDA l : l # << >>)
      out == FlattenSeq([i \in DOMAIN labels |-> <<Len(labels[i])>> \o labels[i]])
             \o (IF t # << >> /\ Last(t) = Dot THEN <<0>> ELSE << >>)
  IN  IF Len(out) > MaxName \/ \E i \in DOMAIN labels : Len(labels[i]) > MaxLabel THEN {} ELSE {out}

DomainNameToWire(t) ==
  DomainNameToWirePreserveCase([i \in DOMAIN t |-> asciiToLower(t[i])])

-----------------------------------------------------------------------------
\* Type bitmaps.

\* Mutant: a window is as long as its last type, without the octet it is in.
bmLenShort(offsets) == (Max(offsets) + 7) \div 8

bmLen(offsets) == Max(offsets) \div 8 + 1

\* The octets of a window: number, length, and a bit per type.
window(w, offsets) ==
  <<w, bmLen(offsets)>> \o
    [i \in 1..bmLen(offsets) |->
       SumSet({2^(7 - (o % 8)) : o \in {o \in offsets : o \div 8 = i - 1}})]

\* rrtypes in any order, with repetitions; windows come out in order.
EncodeTypeBitmap(rrtypes) ==
  LET types == ToSet(rrtypes)
      windows == SetToSortSeq({t \div 256 : t \in types}, <)
  IN  FlattenSeq([i \in DOMAIN windows |->
        window(windows[i], {t % 256 : t \in {t \in types : t \div 256 = windows[i]}})])

bit(b, k) == (b \div 2^(7 - k)) % 2

\* The types of the window at p, in order.
typesAt(m, p) ==
  LET offsets == {o \in 0..(8 * u8(m, p + 1) - 1) : bit(u8(m, p + 2 + o \div 8), o % 8) = 1}
  IN  SetToSortSeq({u8(m, p) * 256 + o : o \in offsets}, <)

windowWhole(m, p) ==
  /\ p + 2 <= Len(m)
  /\ u8(m, p + 1) \in 1..32
  /\ p + 2 + u8(m, p + 1) <= Len(m)

\* decodeBitmap: the types of all windows, in the order they come in.
decodeBitmap(m) ==
  LET from[p \in Nat] ==
        IF p >= Len(m) THEN {<< >>}
        ELSE IF ~windowWhole(m, p) THEN {}
        ELSE {typesAt(m, p) \o rest : rest \in from[p + 2 + u8(m, p + 1)]}
  IN  from[0]
=============================================================================
