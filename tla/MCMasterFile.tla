---------------------------- MODULE MCMasterFile ----------------------------
(***************************************************************************)
(* Texts of two lines out of those below, and of three and four mostly out *)
(* of the ones that carry something over: directives, owners given and     *)
(* inherited, parentheses open, closed and neither.  A TTL is at most 8.   *)
(***************************************************************************)
EXTENDS MasterFile

a == name(<<97>>)
bAbs == name(<<98, Dot>>)
at_ == name(<<64>>)
x == name(<<120, Dot>>)
TypeA == mnemonic("A")
ip == fld("ip4", <<192, 0, 2, 1>>)
IN_ == class("IN")
CHAOS == class("CHAOS")

from0(toks) == [blank |-> FALSE, toks |-> toks]
indented(toks) == [blank |-> TRUE, toks |-> toks]

\* What carries over to later lines, and what it is carried to.
Carrying ==
  {from0(<<directive("$ORIGIN"), x>>), from0(<<directive("$ORIGIN"), name(<<Dot>>)>>),
   from0(<<directive("$TTL"), num(5)>>),
   from0(<<a, num(3), IN_, TypeA, ip>>), from0(<<bAbs, TypeA, ip>>),
   indented(<<TypeA, ip>>), indented(<<num(4), TypeA, ip, comment, open>>),
   from0(<<a, TypeA, open>>), from0(<<open>>), indented(<<ip, close>>), from0(<<close>>)}

Others ==
  {from0(<<directive("$ORIGIN"), name(<<120>>)>>), from0(<<directive("$ORIGIN")>>), from0(<<directive("$INCLUDE"), a>>),
   from0(<<directive("$TTL"), num(0)>>), from0(<<directive("$TTL"), num(9)>>), from0(<<directive("$TTL"), duration(5)>>),
   from0(<<at_, IN_, num(2), TypeA, ip>>), from0(<<name(<<97, Dot, Dot, 98>>), num(1), TypeA, ip>>),
   from0(<<num(7), num(6), num(5), TypeA, ip>>), from0(<<bAbs, num(9), TypeA, ip>>), from0(<<bAbs, num(1), CHAOS, TypeA, ip>>),
   from0(<<bAbs, num(1), IN_, TypeA>>), from0(<<bAbs, num(1), word(<<70>>), ip>>), from0(<<bAbs, num(1), TypeA, a>>),
   from0(<<bAbs, num(1), mnemonic("TXT"), str(<<97, 59, 98>>)>>), from0(<<bAbs, num(1), mnemonic("TXT"), str(<<97, 40>>)>>),
   from0(<<bAbs, IN_, mnemonic("TYPE999"), marker, num(0)>>), from0(<<bAbs, num(1), mnemonic("TYPE999"), a>>),
   from0(<<bAbs, num(1), mnemonic("OPENPGPKEY")>> \o base64(<<1, 2, 3>>)),
   from0(<<bAbs, num(1), mnemonic("SSHFP"), num(1), num(1)>> \o hex(<<1>>)),
   from0(<<bAbs, num(1), IN_, TypeA, open>>), from0(<<open, bAbs, num(1), TypeA, ip, close>>),
   from0(<<bAbs, num(2), TypeA, open, ip, close>>), from0(<<bAbs, open, num(2), TypeA, open, close>>),
   from0(<<close, ip>>), from0(<< >>), indented(<<comment, a>>), indented(<<directive("$TTL"), num(5)>>)}

Lines == Carrying \cup Others

MCTexts ==
  {<<l>> : l \in Lines} \cup (Lines \X Lines) \cup (Carrying \X Carrying \X Carrying \X Carrying)
  \cup (Carrying \X Carrying \X Lines) \cup (Carrying \X Lines \X Carrying) \cup (Lines \X Carrying \X Carrying)

MCFactories == {"OPENPGPKEY"}

MCToken == UNION {ToSet(l.toks) : l \in Lines}

\* One record that a text may add to.
MCBefore == AddRR(<< >>, rr(<<98, Dot>>, 1, "IN", "A", <<ip>>))

addAll(z, rs) == FoldLeft(AddRR, z, rs)

-----------------------------------------------------------------------------
\* What the text says, taken as a whole.

plain(i) == uncommented(text[i].toks)
opens(i, j) == Cardinality({t \in 1..j : plain(i)[t].k = "("}) - Cardinality({t \in 1..j : plain(i)[t].k = ")"})

\* The depth at the end of every line.
depths ==
  LET d[i \in 0..Len(text)] == IF i = 0 THEN 0 ELSE d[i - 1] + opens(i, Len(plain(i))) IN d

unbalanced(d) == {i \in 1..Len(text) : \E j \in 1..Len(plain(i)) : d[i - 1] + opens(i, j) < 0}

contents(i) == SelectSeq(plain(i), LAMBDA f : f.k \notin {"(", ")"})

\* The ranges of lines that parentheses hold together, with what is in them.
\* They are numbered, and indented, as the first line with something in it.
entriesOf(d) ==
  LET ends == {i \in 1..Len(text) : d[i] = 0}
      entry(e) ==
        LET s == 1 + Max({0} \cup {i \in ends : i < e})
            num0 == {i \in s..e : contents(i) # << >>}
        IN  [num |-> IF num0 = {} THEN 0 ELSE Min(num0),
             toks |-> FlattenSeq([i \in 1..(e - s + 1) |-> contents(s + i - 1)]),
             inherits |-> num0 # {} /\ text[Min(num0)].blank]
      all0 == [i \in 1..Cardinality(ends) |-> entry(SetToSortSeq(ends, <)[i])]
  IN  SelectSeq(all0, LAMBDA e : e.toks # << >>)

\* A parenthesis left open: the first line with something in it.
unclosed(d) ==
  LET s == 1 + Max({i \in 0..Len(text) : d[i] = 0})
  IN  {i \in s..Len(text) : contents(i) # << >>}

isDir(e, name0) == ~e.inherits /\ e.toks[1].k = "directive" /\ e.toks[1].v = name0

isTTL(f) == f.k = "num" /\ f.v <= MaxUint32

goodDirective(e) ==
  /\ Len(e.toks) = 2
  /\ \/ isDir(e, "$ORIGIN") /\ Last(characters(e.toks[2])) = Dot
     \/ isDir(e, "$TTL") /\ isTTL(e.toks[2])

\* The last entry before i that says something of the kind.
lastBefore(es, i, Test(_)) == {Max(J) : J \in {{j \in 1..(i - 1) : Test(es[j])}} \ {{}}}

originAt(es, i) == {characters(es[j].toks[2]) : j \in lastBefore(es, i, LAMBDA e : isDir(e, "$ORIGIN") /\ goodDirective(e))}
ttlAt(es, i) == {es[j].toks[2].v : j \in lastBefore(es, i, LAMBDA e : isDir(e, "$TTL") /\ goodDirective(e))}

\* Labels of the name a token stands for at i, none where it stands for none.
fullName(es, i, t) ==
  IF Last(t) = Dot THEN {t}
  ELSE {IF t = <<64>> THEN o ELSE IF o = <<Dot>> THEN Append(t, Dot) ELSE Append(t, Dot) \o o : o \in originAt(es, i)}

namesWell(nm) == nm = <<Dot>> \/ (nm[1] # Dot /\ \A j \in 1..(Len(nm) - 1) : nm[j] = Dot => nm[j + 1] # Dot)

\* The owner at i: given there, or where one was last given.
ownerAt(es, i) ==
  UNION {{nm \in fullName(es, j, characters(es[j].toks[1])) : namesWell(nm)} :
           j \in IF es[i].inherits THEN lastBefore(es, i, LAMBDA e : ~e.inherits /\ e.toks[1].k # "directive") ELSE {i}}

\* Of the types and values that the lines give, those that can be written.
encodable(type, value) ==
  \/ type = "TXT"
  \/ <<type, value>> \in {<<"A", <<ip>>>>, <<"TYPE999", <<marker, num(0)>>>>, <<"OPENPGPKEY", base64(<<1, 2, 3>>)>>}

\* The records entry i may be read as: none or one.
meant(es, i) ==
  LET toks == IF es[i].inherits THEN es[i].toks ELSE Tail(es[i].toks)
      heads == {h \in 0..2 : /\ h < Len(toks) /\ toks[h + 1].k = "mnemonic"
                             /\ \A j \in 1..h : isTTL(toks[j]) \/ toks[j].k = "class"}
  IN  {rr(o, t, c, toks[h + 1].v, SubSeq(toks, h + 2, Len(toks))) :
         o \in ownerAt(es, i),
         h \in {h \in heads : Len(toks) > h + 1 /\ encodable(toks[h + 1].v, SubSeq(toks, h + 2, Len(toks)))},
         t \in UNION {IF \E j \in 1..h : isTTL(toks[j])
                      THEN {toks[Max({j \in 1..h : isTTL(toks[j])})].v} ELSE ttlAt(es, i) : h \in heads},
         c \in UNION {IF \E j \in 1..h : toks[j].k = "class"
                      THEN {toks[Max({j \in 1..h : toks[j].k = "class"})].v} ELSE {"IN"} : h \in heads}}

isDirectiveEntry(e) == ~e.inherits /\ e.toks[1].k = "directive"

bad(es) == {i \in DOMAIN es : IF isDirectiveEntry(es[i]) THEN ~goodDirective(es[i]) ELSE meant(es, i) = {}}

\* The line in error, 0 for none, and the records there are then.
reference ==
  LET d == depths
  IN  IF unbalanced(d) # {} THEN [err |-> Min(unbalanced(d)), add |-> << >>]
      ELSE IF unclosed(d) # {} THEN [err |-> Min(unclosed(d)), add |-> << >>]
      ELSE LET es == entriesOf(d)
               wrong == bad(es)
               rrs == SelectSeq([i \in DOMAIN es |-> i], LAMBDA i : ~isDirectiveEntry(es[i]))
           IN  IF wrong # {} THEN [err |-> es[Min(wrong)].num, add |-> << >>]
               ELSE [err |-> 0, add |-> [i \in DOMAIN rrs |-> CHOOSE r \in meant(es, rrs[i]) : TRUE]]

-----------------------------------------------------------------------------
(***************************************************************************)
(* A text read strictly adds to the zone exactly the records it says: each *)
(* under the owner it gives or, indented, the one last given, completed    *)
(* with the origin in force where that owner stands; with its own TTL or   *)
(* the last $TTL; joined over the lines that parentheses hold together.    *)
(* If anything in it is no record, the zone is as before and the error is  *)
(* at the first line of the first such entry, parentheses first.           *)
(* (Zone.ReadStringStrict)                                                 *)
(***************************************************************************)
StrictIsReference ==
  reader = "strict" /\ at = "done" => LET r == reference IN err = r.err /\ zone = addAll(Before, r.add)

\* What the two readers understand alike: parentheses after an owner and alone
\* on their line's end, strings with nothing special in them, one TTL above 0
\* before one class IN, and no origin changed between an owner and its heirs.
sameInBoth ==
  LET d == depths
      es == entriesOf(d)
  IN  /\ \A i \in 1..Len(text) :
           /\ \A j \in DOMAIN text[i].toks : LET f == text[i].toks[j] IN
                f.k = "str" => ToSet(f.v) \cap {40, 41, 59} = {}
           /\ \A j \in DOMAIN plain(i) :
                /\ plain(i)[j].k = "(" => j > 1 /\ ~text[i].blank /\ d[i - 1] = 0 /\ opens(i, Len(plain(i))) = 1
                /\ plain(i)[j].k = ")" => opens(i, Len(plain(i))) = 0 - 1
      /\ \A i \in DOMAIN es :
           IF isDirectiveEntry(es[i]) THEN isDir(es[i], "$ORIGIN") => es[i].toks[2].v # <<Dot>>
           ELSE LET toks == IF es[i].inherits THEN es[i].toks ELSE Tail(es[i].toks)
                    h == leading(toks)
                IN  /\ SubSeq([j \in DOMAIN toks |-> toks[j].k], 1, h) \in {<< >>, <<"num">>, <<"class">>, <<"num", "class">>}
                    /\ \A j \in 1..h : toks[j].k = "class" => toks[j].v = "IN"
                    /\ (\A j \in 1..h : toks[j].k # "num") => ttlAt(es, i) # {0}
                    /\ es[i].inherits =>
                         \A j \in lastBefore(es, i, LAMBDA e : ~e.inherits /\ e.toks[1].k # "directive") :
                           originAt(es, i) = originAt(es, j) \/ isAbsolute(characters(es[j].toks[1]))

(***************************************************************************)
(* Where the strict reader accepts a text and both understand it alike,    *)
(* the lenient one adds the same records.  (Zone.ReadString; "parses       *)
(* RFC 1035 master-file text like [Zone.ReadString]")                      *)
(***************************************************************************)
LenientAgrees ==
  reader = "lenient" /\ at = "done" =>
    LET r == reference IN r.err = 0 /\ sameInBoth => zone = addAll(Before, r.add)
=============================================================================
