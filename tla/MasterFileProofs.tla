-------------------------- MODULE MasterFileProofs --------------------------
(***************************************************************************)
(* The master-file readers, for every text: a strict read is all or        *)
(* nothing, and what either reader puts into the zone is well kept.        *)
(***************************************************************************)
EXTENDS MasterFile, FiniteSetTheorems, WellFoundedInduction, TLAPS

TTL == 0..MaxUint32

\* s is a sequence, of whatever it holds.
IsSeq(s) == s \in Seq(ToSet(s))

\* The logical line under construction.
CurOK ==
  cur = {} \/ \E c \in cur : /\ cur = {c} /\ c.num \in 1..Len(text)
                             /\ c = [num |-> c.num, toks |-> c.toks, inherits |-> c.inherits]

CarriedOK(st) ==
  /\ st = [origin |-> st.origin, defaultTTL |-> st.defaultTTL, hasTTL |-> st.hasTTL,
           prevOwner |-> st.prevOwner]
  /\ st.defaultTTL \in TTL

\* The variables of both readers.
Kinds ==
  /\ text \in Texts /\ reader \in {"strict", "lenient"} /\ at \in {"lines", "parse", "done"}
  /\ n \in 0..Len(text) /\ depth \in Nat /\ CurOK
  /\ IsSeq(lines) /\ \A l \in ToSet(lines) : l.num \in 1..Len(text)
  /\ k \in 0..Len(lines) /\ CarriedOK(carried)
  /\ IsSeq(parsed) /\ \A r \in ToSet(parsed) : r.TTL \in TTL
  /\ added \in 0..Len(parsed)
  /\ err \in 0..Len(text)
  /\ WellKept(zone)

\* Records enter the zone when there is no line left that could be wrong.
Untouched ==
  /\ err # 0 => at = "done"
  /\ reader = "strict" =>
       /\ at = "lines" \/ err # 0 => zone = Before
       /\ at = "lines" \/ (at = "parse" /\ k < Len(lines)) => added = 0
       /\ at = "parse" /\ added = 0 => zone = Before

Reading == Kinds /\ Untouched

-----------------------------------------------------------------------------
\* Sequences of anything, and the zone.

LEMMA SeqAppend ==
  ASSUME NEW s, IsSeq(s), NEW e
  PROVE  /\ IsSeq(Append(s, e)) /\ ToSet(Append(s, e)) = ToSet(s) \cup {e}
         /\ Len(s) \in Nat /\ Len(Append(s, e)) = Len(s) + 1
         /\ Append(s, e) # << >> /\ IsPrefix(s, Append(s, e))
PROOF
  <1> DEFINE X == ToSet(s) \cup {e}
             t == Append(s, e)
  <1>1. s \in Seq(X)
    BY DEF IsSeq
  <1>2. t \in Seq(X) /\ Len(t) = Len(s) + 1 /\ Len(s) \in Nat
        /\ \A i \in 1..Len(s) : t[i] = s[i]
    BY <1>1
  <1>3. t[Len(s) + 1] = e
    BY <1>1
  <1>4. DOMAIN t = 1..(Len(s) + 1) /\ DOMAIN s = 1..Len(s)
    BY <1>1, <1>2
  <1> HIDE DEF X, t
  <1>5. ToSet(t) = ToSet(s) \cup {e}
    BY <1>2, <1>3, <1>4 DEF ToSet
  <1>6. IsSeq(t)
    BY <1>2, <1>5 DEF IsSeq, X
  <1>7. t # << >>
    BY <1>2
  <1>8. IsPrefix(s, t)
    <2>1. SubSeq(s, 1, Len(s)) = SubSeq(t, 1, Len(s))
      BY <1>1, <1>2
    <2>. QED BY <1>2, <2>1 DEF IsPrefix
  <1>. QED BY <1>2, <1>5, <1>6, <1>7, <1>8 DEF t

LEMMA SeqEmpty == IsSeq(<< >>) /\ ToSet(<< >>) = {}
PROOF
  <1>1. ToSet(<< >>) = {}
    BY DEF ToSet
  <1>. QED BY <1>1 DEF IsSeq

LEMMA PrefixSelf ==
  ASSUME NEW s, IsSeq(s)
  PROVE  IsPrefix(s, s)
PROOF
  BY DEF IsSeq, IsPrefix

LEMMA SeqAt ==
  ASSUME NEW s, IsSeq(s), NEW i \in 1..Len(s)
  PROVE  s[i] \in ToSet(s) /\ Len(s) \in Nat
PROOF
  BY DEF IsSeq, ToSet

\* AddRR keeps a zone well, and appends.
LEMMA AddRRKeeps ==
  ASSUME NEW z, WellKept(z), NEW r, r.TTL \in TTL
  PROVE  /\ WellKept(AddRR(z, r))
         /\ \A key \in DOMAIN z : key \in DOMAIN AddRR(z, r) /\ IsPrefix(z[key], AddRR(z, r)[key])
PROOF
  <1> DEFINE rk == <<r.Label, r.Type>>
             set == IF rk \in DOMAIN z THEN z[rk] ELSE << >>
             a == AddRR(z, r)
  <1>1. a = [y \in DOMAIN z \cup {rk} |-> IF y = rk THEN Append(set, r) ELSE z[y]]
    BY DEF AddRR
  <1>2. IsSeq(set) /\ \A q \in ToSet(set) : rk = <<q.Label, q.Type>> /\ q.TTL \in TTL
    <2>1. CASE rk \in DOMAIN z
      BY <2>1 DEF WellKept, IsSeq, TTL
    <2>2. CASE rk \notin DOMAIN z
      BY <2>2, SeqEmpty
    <2>. QED BY <2>1, <2>2
  <1>3. rk \in DOMAIN z => set = z[rk]
    OBVIOUS
  <1> HIDE DEF set
  <1>4. /\ IsSeq(Append(set, r)) /\ ToSet(Append(set, r)) = ToSet(set) \cup {r}
        /\ Append(set, r) # << >> /\ IsPrefix(set, Append(set, r))
    BY <1>2, SeqAppend
  <1>5. DOMAIN a = DOMAIN z \cup {rk} /\ a[rk] = Append(set, r)
        /\ \A y \in DOMAIN z : y # rk => a[y] = z[y]
    BY <1>1
  <1>6. \A q \in ToSet(a[rk]) : rk = <<q.Label, q.Type>> /\ q.TTL \in TTL
    BY <1>2, <1>4, <1>5
  <1> HIDE DEF a, rk
  <1>7. ASSUME NEW y \in DOMAIN z, y # rk
        PROVE  IsSeq(a[y]) /\ a[y] # << >> /\ (\A q \in ToSet(a[y]) : y = <<q.Label, q.Type>> /\ q.TTL \in TTL)
               /\ IsPrefix(z[y], a[y])
    <2>1. a[y] = z[y]
      BY <1>5, <1>7
    <2>2. IsSeq(z[y]) /\ z[y] # << >> /\ \A q \in ToSet(z[y]) : y = <<q.Label, q.Type>> /\ q.TTL \in TTL
      BY DEF WellKept, IsSeq, TTL
    <2>. QED BY <2>1, <2>2, PrefixSelf
  <1>8. WellKept(a)
    <2> SUFFICES ASSUME NEW y \in DOMAIN a
                 PROVE  IsSeq(a[y]) /\ a[y] # << >>
                        /\ \A q \in ToSet(a[y]) : y = <<q.Label, q.Type>> /\ q.TTL \in TTL
      BY DEF WellKept, IsSeq, TTL
    <2>1. CASE y = rk
      BY <1>4, <1>5, <1>6, <2>1
    <2>2. CASE y # rk
      BY <1>5, <1>7, <2>2
    <2>. QED BY <2>1, <2>2
  <1>9. \A key \in DOMAIN z : key \in DOMAIN a /\ IsPrefix(z[key], a[key])
    BY <1>3, <1>4, <1>5, <1>7
  <1>. QED BY <1>8, <1>9 DEF a


-----------------------------------------------------------------------------
\* The helpers of the readers.

\* A set of numbers has a least one.
LEMMA LeastOne ==
  ASSUME NEW S, S \subseteq Nat, S # {}
  PROVE  Min(S) \in S
PROOF
  <1>1. PICK least \in S : \A y \in S : ~(<<y, least>> \in OpToRel(<, Nat))
    BY WFMin, NatLessThanWellFounded
  <1>2. ASSUME NEW y \in S PROVE least =< y
    <2>1. <<y, least>> \in Nat \X Nat /\ <<y, least>>[1] = y /\ <<y, least>>[2] = least
      OBVIOUS
    <2>2. ~(y < least)
      BY Zenon, <1>1, <2>1 DEF OpToRel
    <2>. QED BY <2>1, <2>2
  <1>. QED BY <1>2 DEF Min

LEMMA Uncommented ==
  ASSUME NEW toks \in Seq(Token)
  PROVE  uncommented(toks) \in Seq(Token)
PROOF
  <1> DEFINE I == {i \in 1..Len(toks) : toks[i] = comment}
             c == SelectInSeq(toks, LAMBDA f : f = comment)
  <1>1. c = IF I # {} THEN Min(I) ELSE 0
    BY DEF SelectInSeq
  <1>2. I # {} => Min(I) \in I
    <2>1. I \subseteq Nat
      OBVIOUS
    <2> HIDE DEF I
    <2>. QED BY <2>1, LeastOne
  <1>3. c \in 0..Len(toks)
    BY <1>1, <1>2
  <1> HIDE DEF c, I
  <1>4. c # 0 => SubSeq(toks, 1, c - 1) \in Seq(Token)
    BY <1>3
  <1>. QED BY <1>4 DEF uncommented, c

\* Parentheses are counted from 0 up.
LEMMA DepthCounts ==
  ASSUME NEW u \in Seq(Token), NEW d \in Nat, NEW i \in 0..Len(u)
  PROVE  depthAfter(u, i, d) \in Int /\ (i = 0 => depthAfter(u, i, d) = d)
PROOF
  <1> DEFINE opens == {j \in 1..i : u[j] = open}
             closes == {j \in 1..i : u[j] = close}
  <1>1. IsFiniteSet(1..i)
    BY FS_Interval
  <1>2. opens \subseteq 1..i /\ closes \subseteq 1..i
    OBVIOUS
  <1>3. IsFiniteSet(opens) /\ IsFiniteSet(closes)
    BY <1>1, <1>2, FS_Subset
  <1>4. Cardinality(opens) \in Nat /\ Cardinality(closes) \in Nat
    BY <1>3, FS_CardinalityType
  <1>5. i = 0 => opens = {} /\ closes = {}
    OBVIOUS
  <1>6. i = 0 => Cardinality(opens) = 0 /\ Cardinality(closes) = 0
    BY <1>5, FS_EmptySet
  <1>7. depthAfter(u, i, d) = d + Cardinality(opens) - Cardinality(closes)
    BY DEF depthAfter
  <1> HIDE DEF opens, closes
  <1>. QED BY <1>4, <1>6, <1>7

LEMMA StripDepth ==
  ASSUME NEW toks \in Seq(Token), NEW d \in Nat, NEW b \in stripStrictLine(toks, d)
  PROVE  b.depth \in Nat
PROOF
  <1> DEFINE u == uncommented(toks)
  <1>1. u \in Seq(Token)
    BY Uncommented
  <1> HIDE DEF u
  <1>2. Len(u) \in Nat /\ DOMAIN u = 1..Len(u)
    BY <1>1
  <1>3. ~(\E i \in DOMAIN u : depthAfter(u, i, d) < 0) /\ b.depth = depthAfter(u, Len(u), d)
    BY DEF stripStrictLine, u
  <1>4. depthAfter(u, Len(u), d) \in Int /\ (Len(u) = 0 => depthAfter(u, Len(u), d) = d)
    BY <1>1, <1>2, DepthCounts
  <1>5. Len(u) # 0 => ~(depthAfter(u, Len(u), d) < 0)
    BY <1>2, <1>3
  <1>. QED BY <1>3, <1>4, <1>5

\* Numbers of 32 bits.
LEMMA Uints ==
  ASSUME NEW f
  PROVE  ParseUint(f, 32) \subseteq TTL /\ saturated(f, 32) \in TTL
PROOF
  <1>1. limit(32) = MaxUint32 /\ MaxUint32 \in Nat
    BY TextsAssumption DEF limit
  <1>2. ParseUint(f, 32) \subseteq TTL
    BY <1>1 DEF ParseUint, TTL
  <1>3. saturated(f, 32) \in TTL
    BY <1>1 DEF saturated, TTL
  <1>. QED BY <1>2, <1>3

\* The TTL of a record that the strict reader accepts.
LEMMA RecordTTL ==
  ASSUME NEW st, CarriedOK(st), NEW owner, NEW toks, NEW r \in record(st, owner, toks)
  PROVE  r.TTL \in TTL
PROOF
  <1> DEFINE i == leading(toks)
             nums == {j \in 1..i : toks[j].k = "num"}
             isOne(j) == j \in DOMAIN toks /\ (ParseUint(toks[j], 32) # {} \/ StringToRRClass(toks[j]) # {})
  <1>1. i \in {0, 1, 2} /\ (i >= 1 => isOne(1)) /\ (i = 2 => isOne(2))
    BY DEF leading
  <1>2. r.TTL = IF nums # {} THEN toks[Max(nums)].v ELSE st.defaultTTL
    <2> DEFINE ttl == IF nums # {} THEN toks[Max(nums)].v ELSE st.defaultTTL
               classes == {j \in 1..i : toks[j].k = "class"}
               cls == IF classes # {} THEN toks[Max(classes)].v ELSE "IN"
               value == rest(toks, i + 2)
               types == {type \in StringToRRType(toks[i + 1]) : checkEncodes(type, value)}
    <2>1. r \in {rr(owner, ttl, cls, type, value) : type \in types}
      BY DEF record
    <2> HIDE DEF ttl, cls, value, types
    <2>2. PICK type \in types : r = rr(owner, ttl, cls, type, value)
      BY <2>1
    <2>3. r.TTL = ttl
      BY <2>2 DEF rr
    <2>. QED BY <2>3 DEF ttl
  <1>3. CASE nums = {}
    BY <1>2, <1>3 DEF CarriedOK
  <1>4. CASE nums # {}
    <2>1. \E x \in nums : \A y \in nums : x >= y
      <3>1. nums \subseteq {1, 2}
        BY <1>1
      <3>2. CASE 2 \in nums
        BY <3>1, <3>2
      <3>3. CASE 2 \notin nums
        BY <1>4, <3>1, <3>3
      <3>. QED BY <3>2, <3>3
    <2>2. Max(nums) \in nums
      BY <2>1 DEF Max
    <2> DEFINE m == Max(nums)
    <2>3. m \in 1..i /\ toks[m].k = "num"
      BY <2>2
    <2> HIDE DEF m
    <2>4. m \in {1, 2} /\ isOne(m)
      BY <1>1, <2>3
    <2>5. ParseUint(toks[m], 32) # {}
      BY <2>3, <2>4 DEF StringToRRClass
    <2>6. ParseUint(toks[m], 32) = {toks[m].v}
      BY <2>5 DEF ParseUint
    <2>7. r.TTL = toks[m].v
      BY <1>2, <1>4 DEF m
    <2>. QED BY <2>6, <2>7, Uints
  <1>. QED BY <1>3, <1>4


\* What a line read leniently may leave behind.
Left(r, z) ==
  CarriedOK(r.st) /\ (r.zone = z \/ \E q : q.TTL \in TTL /\ r.zone = AddRR(z, q))

LEMMA UpdateLeaves ==
  ASSUME NEW st, CarriedOK(st), NEW z, NEW owner, NEW ttl \in TTL, NEW types, NEW value
  PROVE  Left(updateOnSuccess(st, z, owner, ttl, types, value), z)
PROOF
  <1> DEFINE q == rr(lenientQualify(st, owner), ttl, "IN", CHOOSE t \in types : TRUE, value)
  <1>1. CASE types = {}
    BY <1>1 DEF updateOnSuccess, Left
  <1>2. CASE types # {}
    <2>1. updateOnSuccess(st, z, owner, ttl, types, value)
            = [st |-> [st EXCEPT !.prevOwner = owner], zone |-> AddRR(z, q)]
      BY <1>2 DEF updateOnSuccess
    <2>2. q.TTL \in TTL
      BY DEF rr
    <2> HIDE DEF q
    <2>3. CarriedOK([st EXCEPT !.prevOwner = owner])
      BY DEF CarriedOK
    <2>. QED BY <2>1, <2>2, <2>3 DEF Left
  <1>. QED BY <1>1, <1>2

LEMMA ReadOneLeaves ==
  ASSUME NEW st, CarriedOK(st), NEW z, NEW l
  PROVE  Left(readOne(st, z, l), z)
PROOF
  <1> DEFINE toks == IF l.blank /\ st.prevOwner # << >> THEN <<name(st.prevOwner)>> \o l.toks ELSE l.toks
             fields(m) == Len(toks) >= m \/ (Len(toks) = m - 1 /\ l.trail)
             owner == characters(toks[1])
             add(ttl, i) == updateOnSuccess(st, z, owner, ttl, StringToRRType(toks[i]), rest(toks, i + 1))
             isNum(i) == toks[i].k = "num"
             isIN(i) == toks[i] = class("IN")
             same == [st |-> st, zone |-> z]
             origin == [same EXCEPT !.st.origin = characters(l.toks[2])]
             newTTL == [same EXCEPT !.st.defaultTTL = saturated(l.toks[2], 32)]
  <1>1. Left(same, z)
    BY DEF Left
  <1>2. Left(origin, z)
    BY DEF Left, CarriedOK
  <1>3. Left(newTTL, z)
    BY Uints DEF Left, CarriedOK
  <1>4. \A i : Left(add(saturated(toks[2], 32), i), z)
    BY UpdateLeaves, Uints
  <1>5. \A i : Left(add(st.defaultTTL, i), z)
    BY UpdateLeaves DEF CarriedOK
  <1>6. readOne(st, z, l) =
          IF ~l.blank /\ l.toks[1] = directive("$ORIGIN") /\ Len(l.toks) >= 2 THEN origin
          ELSE IF ~l.blank /\ l.toks[1] = directive("$TTL") /\ Len(l.toks) >= 2 /\ l.toks[2].k \in {"num", "duration"}
          THEN newTTL
          ELSE IF l.blank /\ st.prevOwner = << >> THEN same
          ELSE IF fields(5) /\ isNum(2) /\ isIN(3) THEN add(saturated(toks[2], 32), 4)
          ELSE IF fields(4) /\ isNum(2) THEN add(saturated(toks[2], 32), 3)
          ELSE IF st.defaultTTL = 0 THEN same
          ELSE IF fields(4) /\ isIN(2) THEN add(st.defaultTTL, 3)
          ELSE IF fields(3) THEN add(st.defaultTTL, 2)
          ELSE same
    BY Zenon DEF readOne
  <1> HIDE DEF toks, fields, owner, add, isNum, isIN, same, origin, newTTL
  <1>7. \/ readOne(st, z, l) \in {same, origin, newTTL}
        \/ \E i : readOne(st, z, l) = add(saturated(toks[2], 32), i)
        \/ \E i : readOne(st, z, l) = add(st.defaultTTL, i)
    BY <1>6
  <1>. QED BY <1>1, <1>2, <1>3, <1>4, <1>5, <1>7

-----------------------------------------------------------------------------
\* The invariant holds initially and every step keeps it.

LEMMA Texts0 ==
  ASSUME text \in Texts
  PROVE  /\ Len(text) \in Nat
         /\ \A i \in 1..Len(text) : text[i].toks \in Seq(Token)
PROOF
  <1> DEFINE Physical == [blank : BOOLEAN, toks : Seq(Token)]
  <1>1. text \in Seq(Physical)
    BY TextsAssumption
  <1>2. \A l \in Physical : l.toks \in Seq(Token)
    OBVIOUS
  <1> HIDE DEF Physical
  <1>3. Len(text) \in Nat /\ \A i \in 1..Len(text) : text[i] \in Physical
    BY <1>1
  <1>. QED BY <1>2, <1>3

LEMMA InitReading == Init => Reading
PROOF
  <1> SUFFICES ASSUME Init PROVE Reading
    OBVIOUS
  <1>1. Len(text) \in Nat
    BY Texts0 DEF Init
  <1>2. Len(<< >>) = 0
    OBVIOUS
  <1>3. CarriedOK(carried)
    BY TextsAssumption DEF Init, CarriedOK, TTL
  <1>4. Kinds
    BY <1>1, <1>2, <1>3, SeqEmpty, TextsAssumption DEF Init, Kinds, CurOK
  <1>5. Untouched
    BY DEF Init, Untouched
  <1>. QED BY <1>4, <1>5 DEF Reading

LEMMA JoinFailsKeeps ==
  ASSUME Reading, joinFails
  PROVE  Reading'
PROOF
  <1>1. Kinds /\ Untouched /\ reader = "strict" /\ at = "lines" /\ n < Len(text)
    BY DEF Reading, joinFails
  <1>2. /\ at' = "done" /\ err' = n + 1 /\ reader' = reader /\ text' = text /\ n' = n /\ depth' = depth
        /\ cur' = cur /\ lines' = lines /\ k' = k /\ carried' = carried /\ parsed' = parsed
        /\ added' = added /\ zone' = zone
    BY DEF joinFails, parseError
  <1>3. Len(text) \in Nat
    BY <1>1, Texts0 DEF Kinds
  <1>4. Kinds'
    BY <1>1, <1>2, <1>3 DEF Kinds, CurOK
  <1>5. Untouched'
    BY <1>1, <1>2 DEF Untouched
  <1>. QED BY <1>4, <1>5 DEF Reading

\* A logical line is numbered as the physical line it starts on.
LEMMA JoinKeeps ==
  ASSUME Reading, join
  PROVE  Reading'
PROOF
  <1>1. Kinds /\ Untouched /\ reader = "strict" /\ at = "lines" /\ n < Len(text)
    BY DEF Reading, join
  <1>2. /\ n' = n + 1 /\ reader' = reader /\ text' = text /\ at' = at /\ k' = k /\ carried' = carried
        /\ parsed' = parsed /\ added' = added /\ zone' = zone /\ err' = err
    BY DEF join
  <1>3. Len(text) \in Nat /\ n \in Nat /\ n + 1 \in 1..Len(text) /\ text[n + 1].toks \in Seq(Token)
    <2>1. Len(text) \in Nat /\ \A i \in 1..Len(text) : text[i].toks \in Seq(Token)
      BY <1>1, Texts0 DEF Kinds
    <2>2. n \in Nat /\ n + 1 \in 1..Len(text)
      BY <1>1, <2>1 DEF Kinds
    <2>. QED BY <2>1, <2>2
  <1>4. PICK b \in stripStrictLine(text[n + 1].toks, depth) :
          /\ depth' = b.depth
          /\ IF cur = {} /\ b.toks = << >> THEN cur' = cur /\ lines' = lines
             ELSE LET c == IF cur = {} THEN [num |-> n + 1, toks |-> b.toks, inherits |-> text[n + 1].blank]
                           ELSE LET old == CHOOSE old \in cur : TRUE IN [old EXCEPT !.toks = @ \o b.toks]
                  IN  IF b.depth = 0 THEN cur' = {} /\ lines' = Append(lines, c)
                      ELSE cur' = {c} /\ lines' = lines
    BY DEF join
  <1>5. depth' \in Nat
    BY <1>1, <1>3, <1>4, StripDepth DEF Kinds
  <1>6. CurOK' /\ IsSeq(lines') /\ (\A l \in ToSet(lines') : l.num \in 1..Len(text))
        /\ Len(lines') \in Nat /\ Len(lines) \in Nat /\ Len(lines') >= Len(lines)
    <2>1. IsSeq(lines) /\ Len(lines) \in Nat /\ \A l \in ToSet(lines) : l.num \in 1..Len(text)
      BY <1>1, SeqAppend DEF Kinds
    <2>2. CASE cur = {} /\ b.toks = << >>
      BY <1>1, <1>4, <2>1, <2>2 DEF CurOK
    <2>3. CASE ~(cur = {} /\ b.toks = << >>)
      <3> DEFINE old == CHOOSE old \in cur : TRUE
                 c == IF cur = {} THEN [num |-> n + 1, toks |-> b.toks, inherits |-> text[n + 1].blank]
                      ELSE [old EXCEPT !.toks = @ \o b.toks]
      <3>1. c.num \in 1..Len(text) /\ c = [num |-> c.num, toks |-> c.toks, inherits |-> c.inherits]
        <4>1. CASE cur = {}
          BY <1>3, <4>1
        <4>2. CASE cur # {}
          <5>1. PICK d \in cur : /\ cur = {d} /\ d.num \in 1..Len(text)
                                 /\ d = [num |-> d.num, toks |-> d.toks, inherits |-> d.inherits]
            BY <1>1, <4>2 DEF Kinds, CurOK
          <5>2. old = d
            BY <5>1
          <5>3. c = [d EXCEPT !.toks = @ \o b.toks]
            BY <4>2, <5>2
          <5> HIDE DEF old, c
          <5>4. c = [num |-> d.num, toks |-> d.toks \o b.toks, inherits |-> d.inherits]
            BY <5>1, <5>3
          <5>. QED BY <5>1, <5>4
        <4>. QED BY <4>1, <4>2
      <3>2. IF b.depth = 0 THEN cur' = {} /\ lines' = Append(lines, c) ELSE cur' = {c} /\ lines' = lines
        BY Zenon, <1>4, <2>3
      <3> HIDE DEF c, old
      <3>3. CASE b.depth = 0
        <4>1. IsSeq(lines') /\ ToSet(lines') = ToSet(lines) \cup {c} /\ Len(lines') = Len(lines) + 1
          BY <2>1, <3>2, <3>3, SeqAppend
        <4>. QED BY <1>2, <2>1, <3>1, <3>2, <3>3, <4>1 DEF CurOK
      <3>4. CASE b.depth # 0
        <4>1. cur' = {c} /\ lines' = lines
          BY <3>2, <3>4
        <4>. QED BY <1>2, <2>1, <3>1, <4>1 DEF CurOK
      <3>. QED BY <3>3, <3>4
    <2>. QED BY <1>2, <2>2, <2>3
  <1>7. Kinds'
    BY <1>1, <1>2, <1>3, <1>5, <1>6 DEF Kinds
  <1>8. Untouched'
    BY <1>1, <1>2 DEF Untouched
  <1>. QED BY <1>7, <1>8 DEF Reading

LEMMA JoinEndsKeeps ==
  ASSUME Reading, joinEnds
  PROVE  Reading'
PROOF
  <1>1. Kinds /\ Untouched /\ reader = "strict" /\ at = "lines"
    BY DEF Reading, joinEnds
  <1>2. /\ reader' = reader /\ text' = text /\ n' = n /\ depth' = depth
        /\ cur' = cur /\ lines' = lines /\ k' = k /\ carried' = carried /\ parsed' = parsed
        /\ added' = added /\ zone' = zone
    BY DEF joinEnds
  <1>3. Len(text) \in Nat
    BY <1>1, Texts0 DEF Kinds
  <1>4. CASE cur = {}
    <2>1. at' = "parse" /\ err' = err
      BY <1>4 DEF joinEnds
    <2>2. Kinds'
      BY <1>1, <1>2, <2>1 DEF Kinds, CurOK
    <2>. QED BY <1>1, <1>2, <2>1, <2>2 DEF Reading, Untouched
  <1>5. CASE cur # {}
    <2>1. PICK c \in cur : at' = "done" /\ err' = c.num
      BY <1>5 DEF joinEnds, parseError
    <2>2. c.num \in 1..Len(text)
      BY <1>1, <1>5 DEF Kinds, CurOK
    <2>3. Kinds'
      BY <1>1, <1>2, <1>3, <2>1, <2>2 DEF Kinds, CurOK
    <2>. QED BY <1>1, <1>2, <2>1, <2>3 DEF Reading, Untouched
  <1>. QED BY <1>4, <1>5


LEMMA ParseDirectiveKeeps ==
  ASSUME Reading, parseDirective
  PROVE  Reading'
PROOF
  <1>1. Kinds /\ Untouched /\ reader = "strict" /\ at = "parse" /\ k < Len(lines)
    BY DEF Reading, parseDirective, parsing
  <1>2. /\ k' = k + 1 /\ reader' = reader /\ text' = text /\ at' = at /\ n' = n /\ depth' = depth
        /\ cur' = cur /\ lines' = lines /\ parsed' = parsed /\ added' = added /\ zone' = zone /\ err' = err
    BY DEF parseDirective
  <1>3. CarriedOK(carried')
    <2> DEFINE toks == lines[k + 1].toks
               arg == toks[2]
    <2>1. carried' \in strictDirective(carried, toks)
      BY DEF parseDirective
    <2>2. \/ carried' = [carried EXCEPT !.origin = characters(arg)]
          \/ \E ttl \in ParseUint(arg, 32) : carried' = [carried EXCEPT !.defaultTTL = ttl, !.hasTTL = TRUE]
      <3>1. CASE toks[1] = directive("$ORIGIN")
        BY <2>1, <3>1 DEF strictDirective
      <3>2. CASE toks[1] # directive("$ORIGIN") /\ toks[1] = directive("$TTL")
        BY <2>1, <3>2 DEF strictDirective
      <3>3. CASE toks[1] # directive("$ORIGIN") /\ toks[1] # directive("$TTL")
        BY <2>1, <3>3 DEF strictDirective
      <3>. QED BY <3>1, <3>2, <3>3
    <2> HIDE DEF toks, arg
    <2>3. CASE carried' = [carried EXCEPT !.origin = characters(arg)]
      BY <1>1, <2>3 DEF Kinds, CarriedOK
    <2>4. ASSUME NEW ttl \in ParseUint(arg, 32), carried' = [carried EXCEPT !.defaultTTL = ttl, !.hasTTL = TRUE]
          PROVE  CarriedOK(carried')
      <3>1. ttl \in TTL
        BY Uints
      <3>. QED BY <1>1, <2>4, <3>1 DEF Kinds, CarriedOK
    <2>. QED BY <2>2, <2>3, <2>4
  <1>4. Len(lines) \in Nat /\ k \in Nat
    BY <1>1, SeqAppend DEF Kinds
  <1>5. Kinds'
    BY <1>1, <1>2, <1>3, <1>4 DEF Kinds, CurOK
  <1>6. Untouched'
    BY <1>1, <1>2, <1>4 DEF Untouched
  <1>. QED BY <1>5, <1>6 DEF Reading

\* A line in error is a line of the text.
LEMMA ParseErrorKeeps ==
  ASSUME Reading, reader = "strict", at = "parse", k < Len(lines), parseError(lines[k + 1].num),
         UNCHANGED <<reader, text, n, depth, cur, lines, k, carried, parsed, added, continuation, zone>>
  PROVE  Reading'
PROOF
  <1>1. Kinds /\ Untouched
    BY DEF Reading
  <1>2. Len(lines) \in Nat /\ k \in Nat /\ k + 1 \in 1..Len(lines)
    BY <1>1, SeqAppend DEF Kinds
  <1>3. lines[k + 1].num \in 1..Len(text) /\ Len(text) \in Nat
    BY <1>1, <1>2, SeqAt, Texts0 DEF Kinds
  <1>4. at' = "done" /\ err' \in 1..Len(text)
    BY <1>3 DEF parseError
  <1>5. Kinds'
    BY <1>1, <1>3, <1>4 DEF Kinds, CurOK
  <1>6. Untouched'
    BY <1>1, <1>4 DEF Untouched
  <1>. QED BY <1>5, <1>6 DEF Reading

LEMMA ParseRecordKeeps ==
  ASSUME Reading, parseRecord
  PROVE  Reading'
PROOF
  <1>1. Kinds /\ Untouched /\ reader = "strict" /\ at = "parse" /\ k < Len(lines)
    BY DEF Reading, parseRecord, parsing
  <1>2. /\ reader' = reader /\ text' = text /\ n' = n /\ depth' = depth
        /\ cur' = cur /\ lines' = lines /\ added' = added /\ continuation' = continuation
    BY DEF parseRecord
  <1>3. CASE records(carried, lines[k + 1]) = {}
    <2>1. parseError(lines[k + 1].num) /\ k' = k /\ carried' = carried /\ parsed' = parsed /\ zone' = zone
      BY <1>3 DEF parseRecord
    <2>. QED BY <1>1, <1>2, <2>1, ParseErrorKeeps
  <1>4. CASE records(carried, lines[k + 1]) # {}
    <2>1. PICK r \in records(carried, lines[k + 1]) :
            /\ k' = k + 1 /\ carried' = [carried EXCEPT !.prevOwner = r.Label]
            /\ parsed' = Append(parsed, r) /\ zone' = zone /\ at' = at /\ err' = err
      BY <1>4 DEF parseRecord, keepParsed
    <2>2. r.TTL \in TTL
      <3> DEFINE toks == IF lines[k + 1].inherits THEN lines[k + 1].toks ELSE Tail(lines[k + 1].toks)
      <3>1. \E owner : r \in record(carried, owner, toks)
        BY <2>1 DEF records
      <3> HIDE DEF toks
      <3>. QED BY <1>1, <3>1, RecordTTL DEF Kinds
    <2>3. CarriedOK(carried')
      BY <1>1, <2>1 DEF Kinds, CarriedOK
    <2>4. IsSeq(parsed') /\ ToSet(parsed') = ToSet(parsed) \cup {r} /\ Len(parsed') = Len(parsed) + 1
          /\ Len(parsed) \in Nat
      BY <1>1, <2>1, SeqAppend DEF Kinds
    <2>5. Len(lines) \in Nat /\ k \in Nat
      BY <1>1, SeqAppend DEF Kinds
    <2>6. Kinds'
      BY <1>1, <1>2, <2>1, <2>2, <2>3, <2>4, <2>5 DEF Kinds, CurOK
    <2>7. Untouched'
      BY <1>1, <1>2, <2>1, <2>5 DEF Untouched
    <2>. QED BY <2>6, <2>7 DEF Reading
  <1>. QED BY <1>3, <1>4

\* All lines are good: from here on nothing can fail.
LEMMA AddParsedKeeps ==
  ASSUME Reading, addParsed
  PROVE  /\ Reading'
         /\ \E r : r.TTL \in TTL /\ zone' = AddRR(zone, r)
PROOF
  <1>1. Kinds /\ Untouched /\ reader = "strict" /\ at = "parse" /\ k = Len(lines) /\ added < Len(parsed)
    BY DEF Reading, addParsed
  <1>2. /\ zone' = AddRR(zone, parsed[added + 1]) /\ added' = added + 1
        /\ reader' = reader /\ text' = text /\ at' = at /\ n' = n /\ depth' = depth /\ cur' = cur
        /\ lines' = lines /\ k' = k /\ carried' = carried /\ parsed' = parsed /\ err' = err
    BY DEF addParsed
  <1>3. Len(parsed) \in Nat /\ added \in Nat /\ added + 1 \in 1..Len(parsed) /\ Len(lines) \in Nat
    BY <1>1, SeqAppend DEF Kinds
  <1>4. parsed[added + 1].TTL \in TTL
    BY <1>1, <1>3, SeqAt DEF Kinds
  <1>5. WellKept(zone')
    BY <1>1, <1>2, <1>4, AddRRKeeps DEF Kinds
  <1>6. Kinds'
    BY <1>1, <1>2, <1>3, <1>5 DEF Kinds, CurOK
  <1>7. Untouched'
    BY <1>1, <1>2, <1>3 DEF Untouched
  <1>. QED BY <1>2, <1>4, <1>6, <1>7 DEF Reading

LEMMA AddedAllKeeps ==
  ASSUME Reading, addedAll
  PROVE  Reading'
PROOF
  <1>1. Kinds /\ Untouched /\ at = "parse"
    BY DEF Reading, addedAll
  <1>2. /\ at' = "done" /\ added' = added /\ zone' = zone
        /\ reader' = reader /\ text' = text /\ n' = n /\ depth' = depth /\ cur' = cur
        /\ lines' = lines /\ k' = k /\ carried' = carried /\ parsed' = parsed /\ err' = err
    BY DEF addedAll
  <1>3. Kinds'
    BY <1>1, <1>2 DEF Kinds, CurOK
  <1>4. Untouched'
    BY <1>1, <1>2 DEF Untouched
  <1>. QED BY <1>3, <1>4 DEF Reading

LEMMA ReadLineKeeps ==
  ASSUME Reading, readLine
  PROVE  /\ Reading'
         /\ zone' = zone \/ \E r : r.TTL \in TTL /\ zone' = AddRR(zone, r)
PROOF
  <1>1. Kinds /\ Untouched /\ reader = "lenient" /\ n < Len(text)
    BY DEF Reading, readLine
  <1>2. /\ n' = n + 1 /\ reader' = reader /\ text' = text /\ at' = at /\ depth' = depth /\ cur' = cur
        /\ lines' = lines /\ k' = k /\ parsed' = parsed /\ added' = added /\ err' = err
    BY DEF readLine
  <1>3. \/ carried' = carried /\ zone' = zone
        \/ \E l : carried' = readOne(carried, zone, l).st /\ zone' = readOne(carried, zone, l).zone
    BY DEF readLine
  <1>4. CarriedOK(carried') /\ (zone' = zone \/ \E r : r.TTL \in TTL /\ zone' = AddRR(zone, r))
    BY <1>1, <1>3, ReadOneLeaves DEF Kinds, Left
  <1>5. WellKept(zone')
    BY <1>1, <1>4, AddRRKeeps DEF Kinds
  <1>6. Len(text) \in Nat
    BY <1>1, Texts0 DEF Kinds
  <1>7. Kinds'
    BY <1>1, <1>2, <1>4, <1>5, <1>6 DEF Kinds, CurOK
  <1>8. Untouched'
    BY <1>1, <1>2 DEF Untouched
  <1>. QED BY <1>4, <1>7, <1>8 DEF Reading

LEMMA EndKeeps ==
  ASSUME Reading, readLastLine \/ UNCHANGED vars
  PROVE  Reading' /\ zone' = zone
PROOF
  <1>1. Kinds /\ Untouched
    BY DEF Reading
  <1>2. /\ reader' = reader /\ text' = text /\ n' = n /\ depth' = depth /\ cur' = cur
        /\ lines' = lines /\ k' = k /\ carried' = carried /\ parsed' = parsed /\ added' = added
        /\ zone' = zone /\ err' = err
    BY DEF readLastLine, vars
  <1>3. at' = at \/ (at' = "done" /\ reader = "lenient")
    BY DEF readLastLine, vars
  <1>4. Kinds'
    BY <1>1, <1>2, <1>3 DEF Kinds, CurOK
  <1>5. Untouched'
    BY <1>1, <1>2, <1>3 DEF Untouched
  <1>. QED BY <1>2, <1>4, <1>5 DEF Reading

\* Every step keeps the invariant, and the zone, or adds one record.
LEMMA ReadingKeeps ==
  ASSUME Reading, [Next]_vars
  PROVE  /\ Reading'
         /\ zone' = zone \/ \E r : r.TTL \in TTL /\ zone' = AddRR(zone, r)
PROOF
  <1>1. CASE joinFails \/ join \/ joinEnds \/ parseDirective
    <2>1. zone' = zone
      BY <1>1 DEF joinFails, join, joinEnds, parseDirective
    <2>. QED BY <1>1, <2>1, JoinFailsKeeps, JoinKeeps, JoinEndsKeeps, ParseDirectiveKeeps
  <1>2. CASE parseDirectiveFails
    <2>1. zone' = zone
      BY <1>2 DEF parseDirectiveFails
    <2>2. Reading'
      BY <1>2, ParseErrorKeeps DEF parseDirectiveFails, parsing
    <2>. QED BY <2>1, <2>2
  <1>3. CASE parseRecord
    <2>1. zone' = zone
      BY <1>3 DEF parseRecord, keepParsed
    <2>. QED BY <1>3, <2>1, ParseRecordKeeps
  <1>4. CASE addedAll
    <2>1. zone' = zone
      BY <1>4 DEF addedAll
    <2>. QED BY <1>4, <2>1, AddedAllKeeps
  <1>. QED BY <1>1, <1>2, <1>3, <1>4, AddParsedKeeps, ReadLineKeeps, EndKeeps DEF Next, Step, Finished

LEMMA ReadingSafe == Spec => []Reading
PROOF
  <1>1. Reading /\ [Next]_vars => Reading'
    BY ReadingKeeps
  <1>. QED BY <1>1, InitReading, PTL DEF Spec

-----------------------------------------------------------------------------
(***************************************************************************)
(* Whatever the text: errors name one of its lines, parentheses never      *)
(* count below zero, and every record either reader puts into the zone is  *)
(* under its key with a TTL of 32 bits.                                    *)
(***************************************************************************)
THEOREM ReadersTyped == Spec => []MasterFileTypeOK
PROOF
  <1>1. Reading => MasterFileTypeOK
    <2> SUFFICES ASSUME Reading PROVE MasterFileTypeOK
      OBVIOUS
    <2>1. Cardinality(cur) <= 1
      <3>1. CASE cur = {}
        BY <3>1, FS_EmptySet
      <3>2. CASE cur # {}
        <4>1. PICK c : cur = {c}
          BY <3>2 DEF Reading, Kinds, CurOK
        <4>. QED BY <4>1, FS_Singleton
      <3>. QED BY <3>1, <3>2
    <2>. QED BY <2>1 DEF Reading, Kinds, CarriedOK, TTL, MasterFileTypeOK
  <1>. QED BY <1>1, ReadingSafe, PTL

(***************************************************************************)
(* ReadStringStrict is all or nothing for every text: an error on any line *)
(* leaves the zone as it was; and no reader ever takes a record away.      *)
(***************************************************************************)
THEOREM StrictAllOrNothing == Spec => ZoneAllOrNothing
PROOF
  <1>1. ASSUME Reading, [Next]_vars
        PROVE  [/\ reader = "strict" /\ err' # 0 => zone' = Before
                /\ \A key \in DOMAIN zone : key \in DOMAIN zone' /\ IsPrefix(zone[key], zone'[key])]_vars
    <2>1. Reading' /\ (zone' = zone \/ \E r : r.TTL \in TTL /\ zone' = AddRR(zone, r))
      BY <1>1, ReadingKeeps
    <2>2. reader' = reader
      BY <1>1 DEF Next, Step, Finished, vars, joinFails, join, joinEnds, parseDirective,
                  parseDirectiveFails, parseRecord, addParsed, addedAll, readLine, readLastLine
    <2>3. reader = "strict" /\ err' # 0 => zone' = Before
      BY <2>1, <2>2 DEF Reading, Untouched
    <2>4. ASSUME NEW key \in DOMAIN zone PROVE key \in DOMAIN zone' /\ IsPrefix(zone[key], zone'[key])
      <3>1. WellKept(zone) /\ IsSeq(zone[key])
        BY <1>1 DEF Reading, Kinds, WellKept, IsSeq
      <3>2. CASE zone' = zone
        BY <3>1, <3>2, PrefixSelf
      <3>3. CASE \E r : r.TTL \in TTL /\ zone' = AddRR(zone, r)
        BY <3>1, <3>3, AddRRKeeps
      <3>. QED BY <2>1, <3>2, <3>3
    <2>. QED BY <2>3, <2>4
  <1>. QED BY <1>1, ReadingSafe, PTL DEF Spec, ZoneAllOrNothing
=============================================================================
