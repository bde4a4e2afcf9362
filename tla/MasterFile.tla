----------------------------- MODULE MasterFile -----------------------------
(***************************************************************************)
(* The two master-file readers of the zone package.  ReadStringStrict      *)
(* joins parentheses first, then parses line by line, and adds the records *)
(* to the zone when every line is one.  ReadString does all of it line by  *)
(* line with regular expressions, and skips what it cannot read.           *)
(*                                                                         *)
(* A physical line is its tokens and whether a blank comes first.  Tokens  *)
(* are the fields of module Presentation, here with parentheses, comments, *)
(* directives, types and classes; a number has one digit as a name.        *)
(***************************************************************************)
EXTENDS Encoders

CONSTANTS
  Token,      \* the tokens of the texts
  Texts,      \* the texts: sequences of physical lines
  Before,     \* the zone before the text is read
  Factories   \* the types the default registry has factories for

\* Every record of a zone is under its key.
WellKept(z) ==
  \A key \in DOMAIN z :
    /\ z[key] \in Seq(ToSet(z[key])) /\ z[key] # << >>
    /\ \A r \in ToSet(z[key]) : key = <<r.Label, r.Type>> /\ r.TTL \in 0..MaxUint32

ASSUME TextsAssumption ==
  /\ Texts \subseteq Seq([blank : BOOLEAN, toks : Seq(Token)])
  /\ MaxUint32 \in Nat /\ WellKept(Before)

VARIABLES
  reader,        \* "strict" or "lenient"
  text,
  at,            \* "lines", "parse", "done"
  n,             \* physical lines read
  depth, cur, lines,  \* of strictLogicalLines: cur is {} for nil
  k,             \* logical lines parsed
  carried,       \* strictState, or the locals of ReadString
  parsed,
  added,         \* how many of those are in the zone
  continuation,  \* of ReadString
  zone,          \* the records by owner and type
  err            \* the line of the ParseError, 0 for none

vars == <<reader, text, at, n, depth, cur, lines, k, carried, parsed, added, continuation, zone, err>>

open == fld("(", << >>)
close == fld(")", << >>)
comment == fld(";", << >>)
directive(d) == fld("directive", d)
mnemonic(t) == fld("mnemonic", t)
class(c) == fld("class", c)
duration(s) == fld("duration", s)   \* a number with a unit

line(blank, toks, trail) == [blank |-> blank, toks |-> toks, trail |-> trail]

\* A token as an owner: the digit of a number, a name's characters.
characters(f) ==
  CASE f.k = "num" -> <<48 + f.v>> [] f.k = "directive" -> <<36>> [] OTHER -> f.v

StringToRRType(f) == IF f.k = "mnemonic" THEN {f.v} ELSE {}
StringToRRClass(f) == IF f.k = "class" THEN {f.v} ELSE {}

rr(owner, ttl, cls, type, value) ==
  [Label |-> owner, TTL |-> ttl, Class |-> cls, Type |-> type, Value |-> value]

\* z.records: the RRset of a key grows at its end.
AddRR(z, r) ==
  LET key == <<r.Label, r.Type>>
      set == IF key \in DOMAIN z THEN z[key] ELSE << >>
  IN  [x \in DOMAIN z \cup {key} |-> IF x = key THEN Append(set, r) ELSE z[x]]

Init ==
  /\ reader \in {"strict", "lenient"} /\ text \in Texts
  /\ at = "lines" /\ n = 0 /\ depth = 0 /\ cur = {} /\ lines = << >> /\ k = 0
  /\ carried = [origin |-> << >>, defaultTTL |-> 0, hasTTL |-> FALSE, prevOwner |-> << >>]
  /\ parsed = << >> /\ added = 0 /\ continuation = line(FALSE, << >>, FALSE)
  /\ zone = Before /\ err = 0

-----------------------------------------------------------------------------
\* strictLogicalLines

isParen(f) == f \in {open, close}

\* Quoted strings are tokens: what is in them is neither.
uncommented(toks) == LET c == SelectInSeq(toks, LAMBDA f : f = comment) IN IF c = 0 THEN toks ELSE SubSeq(toks, 1, c - 1)

depthAfter(toks, i, d) == d + Cardinality({j \in 1..i : toks[j] = open}) - Cardinality({j \in 1..i : toks[j] = close})

\* The tokens left and the new depth; no result for an unbalanced parenthesis.
stripStrictLine(toks, d) ==
  LET u == uncommented(toks)
  IN  IF \E i \in DOMAIN u : depthAfter(u, i, d) < 0 THEN {}
      ELSE {[toks |-> SelectSeq(u, LAMBDA f : ~isParen(f)), depth |-> depthAfter(u, Len(u), d)]}

parseError(l) == at' = "done" /\ err' = l

joinFails ==
  /\ reader = "strict" /\ at = "lines" /\ n < Len(text)
  /\ stripStrictLine(text[n + 1].toks, depth) = {}
  /\ parseError(n + 1)
  /\ UNCHANGED <<reader, text, n, depth, cur, lines, k, carried, parsed, added, continuation, zone>>

\* A line of nothing but blanks and parentheses starts no record, but counts.
join ==
  /\ reader = "strict" /\ at = "lines" /\ n < Len(text)
  /\ \E b \in stripStrictLine(text[n + 1].toks, depth) :
       /\ depth' = b.depth /\ n' = n + 1
       /\ IF cur = {} /\ b.toks = << >> THEN UNCHANGED <<cur, lines>>
          ELSE LET c == IF cur = {} THEN [num |-> n + 1, toks |-> b.toks, inherits |-> text[n + 1].blank]
                        ELSE LET old == CHOOSE old \in cur : TRUE IN [old EXCEPT !.toks = @ \o b.toks]
               IN  IF b.depth = 0 THEN cur' = {} /\ lines' = Append(lines, c)
                   ELSE cur' = {c} /\ UNCHANGED lines
  /\ UNCHANGED <<reader, text, at, k, carried, parsed, added, continuation, zone, err>>

joinEnds ==
  /\ reader = "strict" /\ at = "lines" /\ n = Len(text)
  /\ IF cur = {} THEN at' = "parse" /\ UNCHANGED err
     ELSE \E c \in cur : parseError(c.num)
  /\ UNCHANGED <<reader, text, n, depth, cur, lines, k, carried, parsed, added, continuation, zone>>

-----------------------------------------------------------------------------
\* strictState.parse

isAbsolute(t) == t # << >> /\ Last(t) = Dot

\* Mutant: an owner is made absolute under the root.
qualifyRoot(st, t) ==
  IF t = <<64>> THEN {st.origin} \ {<< >>} ELSE IF isAbsolute(t) THEN {t} ELSE {Append(t, Dot)}

qualify(st, t) ==
  LET absolute ==
        CASE t = <<64>> -> {st.origin} \ {<< >>}
          [] t # <<64>> /\ isAbsolute(t) -> {t}
          [] OTHER -> IF st.origin = << >> THEN {}
                      ELSE IF st.origin = <<Dot>> THEN {Append(t, Dot)}
                      ELSE {Append(t, Dot) \o st.origin}
  IN  {a \in absolute : /\ a = <<Dot>> \/ << >> \notin ToSet(pieces(Front(a)))
                        /\ DomainNameToWire(a) # {}}

\* The state after a directive.
strictDirective(st, toks) ==
  LET arg == toks[2]
  IN  CASE toks[1] = directive("$ORIGIN") ->
             IF Len(toks) # 2 \/ ~isAbsolute(characters(arg)) THEN {} ELSE {[st EXCEPT !.origin = characters(arg)]}
        [] toks[1] = directive("$TTL") ->
             IF Len(toks) # 2 THEN {}
             ELSE {[st EXCEPT !.defaultTTL = ttl, !.hasTTL = TRUE] : ttl \in ParseUint(arg, 32)}
        [] OTHER -> {}

\* The tokens before the type: at most two, each a TTL or a class.
leading(toks) ==
  LET isOne(i) == i \in DOMAIN toks /\ (ParseUint(toks[i], 32) # {} \/ StringToRRClass(toks[i]) # {})
  IN  IF ~isOne(1) THEN 0 ELSE IF ~isOne(2) THEN 1 ELSE 2

checkEncodes(type, value) == \E o \in WireBodyWith(type, value, {}, Factories) : o # << >>

\* The last TTL and the last class before the type count.
record(st, owner, toks) ==
  LET i == leading(toks)
      nums == {j \in 1..i : toks[j].k = "num"}
      classes == {j \in 1..i : toks[j].k = "class"}
      hasTTL == nums # {} \/ st.hasTTL
      ttl == IF nums # {} THEN toks[Max(nums)].v ELSE st.defaultTTL
      cls == IF classes # {} THEN toks[Max(classes)].v ELSE "IN"
      value == rest(toks, i + 2)
  IN  IF i >= Len(toks) \/ ~hasTTL \/ value = << >> THEN {}
      ELSE {rr(owner, ttl, cls, type, value) :
              type \in {type \in StringToRRType(toks[i + 1]) : checkEncodes(type, value)}}

\* A directive only at the start of a line: what inherits an owner is a record.
isDirective(ll) == ~ll.inherits /\ ll.toks[1].k = "directive"

owners(st, ll) ==
  IF ll.inherits THEN {st.prevOwner} \ {<< >>} ELSE qualify(st, characters(ll.toks[1]))

records(st, ll) ==
  UNION {record(st, owner, IF ll.inherits THEN ll.toks ELSE Tail(ll.toks)) : owner \in owners(st, ll)}

parsing == reader = "strict" /\ at = "parse" /\ k < Len(lines)

parseDirective ==
  /\ parsing /\ isDirective(lines[k + 1])
  /\ \E st \in strictDirective(carried, lines[k + 1].toks) : carried' = st
  /\ k' = k + 1
  /\ UNCHANGED <<reader, text, at, n, depth, cur, lines, parsed, added, continuation, zone, err>>

parseDirectiveFails ==
  /\ parsing /\ isDirective(lines[k + 1])
  /\ strictDirective(carried, lines[k + 1].toks) = {}
  /\ parseError(lines[k + 1].num)
  /\ UNCHANGED <<reader, text, n, depth, cur, lines, k, carried, parsed, added, continuation, zone>>

\* Mutant: a record goes into the zone as soon as it is parsed.
keepParsedEarly(r) == zone' = AddRR(zone, r) /\ UNCHANGED parsed

keepParsed(r) == parsed' = Append(parsed, r) /\ UNCHANGED zone

parseRecord ==
  /\ parsing /\ ~isDirective(lines[k + 1])
  /\ LET rs == records(carried, lines[k + 1])
     IN  \/ /\ rs = {} /\ parseError(lines[k + 1].num)
            /\ UNCHANGED <<k, carried, parsed, zone>>
         \/ \E r \in rs :
              /\ k' = k + 1 /\ carried' = [carried EXCEPT !.prevOwner = r.Label]
              /\ keepParsed(r)
              /\ UNCHANGED <<at, err>>
  /\ UNCHANGED <<reader, text, n, depth, cur, lines, added, continuation>>

\* The loop at the end of ReadStringStrict.
addParsed ==
  /\ reader = "strict" /\ at = "parse" /\ k = Len(lines) /\ added < Len(parsed)
  /\ zone' = AddRR(zone, parsed[added + 1]) /\ added' = added + 1
  /\ UNCHANGED <<reader, text, at, n, depth, cur, lines, k, carried, parsed, continuation, err>>

addedAll ==
  /\ reader = "strict" /\ at = "parse" /\ k = Len(lines) /\ added = Len(parsed)
  /\ at' = "done"
  /\ UNCHANGED <<reader, text, n, depth, cur, lines, k, carried, parsed, added, continuation, zone, err>>

-----------------------------------------------------------------------------
\* ReadString.  It knows no quotes: a special character in a string is one.

half(t) == fld("half", t)

special(c) == CASE c = 40 -> open [] c = 41 -> close [] c = 59 -> comment

unquoted(f) ==
  IF f.k # "str" THEN <<f>>
  ELSE LET i == SelectInSeq(f.v, LAMBDA c : c \in {40, 41, 59})
       IN  IF i = 0 THEN <<f>> ELSE <<half(SubSeq(f.v, 1, i - 1)), special(f.v[i]), half(SubSeq(f.v, i + 1, Len(f.v)))>>

withoutComment(toks) == uncommented(FlattenSeq([i \in DOMAIN toks |-> unquoted(toks[i])]))

\* Mutant: an absolute owner gets the origin, too.
lenientQualifyAll(st, t) ==
  IF st.origin = << >> THEN t ELSE IF t = <<64>> THEN st.origin ELSE Append(t, Dot) \o st.origin

lenientQualify(st, t) ==
  IF st.origin = << >> \/ isAbsolute(t) THEN t
  ELSE IF t = <<64>> THEN st.origin ELSE Append(t, Dot) \o st.origin

\* Where prevOwner is prevLabel, a token as it was written.
updateOnSuccess(st, z, owner, ttl, types, value) ==
  IF types = {} THEN [st |-> st, zone |-> z]
  ELSE [st |-> [st EXCEPT !.prevOwner = owner],
        zone |-> AddRR(z, rr(lenientQualify(st, owner), ttl, "IN", CHOOSE t \in types : TRUE, value))]

\* A line after joining.  The patterns want a blank before the value, which
\* may be empty.
readOne(st, z, l) ==
  LET toks == IF l.blank /\ st.prevOwner # << >> THEN <<name(st.prevOwner)>> \o l.toks ELSE l.toks
      fields(m) == Len(toks) >= m \/ (Len(toks) = m - 1 /\ l.trail)
      owner == characters(toks[1])
      add(ttl, i) == updateOnSuccess(st, z, owner, ttl, StringToRRType(toks[i]), rest(toks, i + 1))
      isNum(i) == toks[i].k = "num"
      isIN(i) == toks[i] = class("IN")
      same == [st |-> st, zone |-> z]
  IN  IF ~l.blank /\ l.toks[1] = directive("$ORIGIN") /\ Len(l.toks) >= 2
      THEN [same EXCEPT !.st.origin = characters(l.toks[2])]
      ELSE IF ~l.blank /\ l.toks[1] = directive("$TTL") /\ Len(l.toks) >= 2 /\ l.toks[2].k \in {"num", "duration"}
      THEN [same EXCEPT !.st.defaultTTL = saturated(l.toks[2], 32)]
      ELSE IF l.blank /\ st.prevOwner = << >> THEN same
      ELSE IF fields(5) /\ isNum(2) /\ isIN(3) THEN add(saturated(toks[2], 32), 4)
      ELSE IF fields(4) /\ isNum(2) THEN add(saturated(toks[2], 32), 3)
      ELSE IF st.defaultTTL = 0 THEN same
      ELSE IF fields(4) /\ isIN(2) THEN add(st.defaultTTL, 3)
      ELSE IF fields(3) THEN add(st.defaultTTL, 2)
      ELSE same

lastIndex(toks, f) == SelectLastInSeq(toks, LAMBDA x : x = f)

\* The continuation after a line that opens one.  A line that has only the
\* parenthesis opens none, and what follows it on its line comes after a blank.
opened(toks) ==
  LET i == lastIndex(toks, open)
      before == SubSeq(toks, 1, i - 1)
  IN  line(before = << >>, before \o rest(toks, i + 1), FALSE)

closed(c, toks) ==
  LET i == lastIndex(toks, close)
  IN  line(c.blank, c.toks \o SubSeq(toks, 1, i - 1) \o rest(toks, i + 1), i = 1 /\ Len(toks) = 1)

none == line(FALSE, << >>, FALSE)

readLine ==
  /\ reader = "lenient" /\ n < Len(text)
  /\ n' = n + 1
  /\ LET toks == withoutComment(text[n + 1].toks)
         read(l) == LET r == readOne(carried, zone, l) IN carried' = r.st /\ zone' = r.zone
     IN  \/ toks = << >> /\ UNCHANGED <<continuation, carried, zone>>
         \/ /\ toks # << >> /\ continuation.toks # << >> /\ lastIndex(toks, close) # 0
            /\ read(closed(continuation, toks)) /\ continuation' = none
         \/ /\ toks # << >> /\ continuation.toks # << >> /\ lastIndex(toks, close) = 0
            /\ continuation' = [continuation EXCEPT !.toks = @ \o toks]
            /\ UNCHANGED <<carried, zone>>
         \/ /\ toks # << >> /\ continuation.toks = << >> /\ lastIndex(toks, open) # 0
            /\ LET c == opened(toks) IN continuation' = IF c.toks = << >> THEN none ELSE c
            /\ UNCHANGED <<carried, zone>>
         \/ /\ toks # << >> /\ continuation.toks = << >> /\ lastIndex(toks, open) = 0
            /\ read(line(text[n + 1].blank, toks, FALSE)) /\ UNCHANGED continuation
  /\ UNCHANGED <<reader, text, at, depth, cur, lines, k, parsed, added, err>>

\* A continuation that is still open is lost.
readLastLine ==
  /\ reader = "lenient" /\ at = "lines" /\ n = Len(text)
  /\ at' = "done"
  /\ UNCHANGED <<reader, text, n, depth, cur, lines, k, carried, parsed, added, continuation, zone, err>>

-----------------------------------------------------------------------------
Step ==
  \/ joinFails \/ join \/ joinEnds \/ parseDirective \/ parseDirectiveFails \/ parseRecord
  \/ addParsed \/ addedAll \/ readLine \/ readLastLine

Finished == at = "done" /\ UNCHANGED vars

Next == Step \/ Finished

Spec == Init /\ [][Next]_vars

-----------------------------------------------------------------------------
(***************************************************************************)
(* A strict read that fails leaves the zone as it was, wherever in the     *)
(* text the error is and however many records came before it; and RRsets   *)
(* only ever grow at their end.  (Zone.ReadStringStrict, and AddRR)        *)
(***************************************************************************)
ZoneAllOrNothing ==
  [][/\ reader = "strict" /\ err' # 0 => zone' = Before
     /\ \A key \in DOMAIN zone : key \in DOMAIN zone' /\ IsPrefix(zone[key], zone'[key])]_vars

(***************************************************************************)
(* Both readers' variables hold values of their kind, errors name a line   *)
(* of the text, and every record of the zone lies under its own key, with  *)
(* a TTL that fits its field however large the number in the text is.      *)
(* (Zone.AddRR, and both readers' TTLs)                                    *)
(***************************************************************************)
MasterFileTypeOK ==
  /\ n \in 0..Len(text) /\ k \in 0..Len(lines) /\ depth \in Nat /\ Cardinality(cur) <= 1
  /\ at \in {"lines", "parse", "done"} /\ err \in 0..Len(text) /\ added \in 0..Len(parsed)
  /\ carried.defaultTTL \in 0..MaxUint32
  /\ WellKept(zone)
=============================================================================
