------------------------------- MODULE Names -------------------------------
(***************************************************************************)
(* Domain names and the operations the validator, the signer and the       *)
(* in-memory authority do on them.                                         *)
(*                                                                         *)
(* A name is the sequence of its labels, the one next to the root first:   *)
(* "www.example.com." is <<com, example, www>> and the root is <<>>.  A    *)
(* label is a number, ordered as the octet strings are; 0 is the wildcard  *)
(* label "*", which sorts before letters and digits.  Case folding and the *)
(* trailing dot (normalizeQName, EqualCanonicalNames) are thereby left     *)
(* out: two spellings of a name are one value.                             *)
(***************************************************************************)
EXTENDS Naturals, Sequences, FiniteSets

Name == Seq(Nat)

Root == << >>

\* The wildcard label.
Star == 0

\* The first n labels of a name, counted from the root (LastNLabels of the
\* presentation form).
LastNLabels(name, n) == SubSeq(name, 1, n)

\* name equals ancestor or descends from it.
isAtOrBelow(name, ancestor) ==
  /\ Len(ancestor) <= Len(name)
  /\ LastNLabels(name, Len(ancestor)) = ancestor

isStrictSubdomain(name, parent) == name # parent /\ isAtOrBelow(name, parent)

\* Every name the given one is at or below, the root and itself included.
ancestorsOf(name) == {LastNLabels(name, n) : n \in 0..Len(name)}

properAncestors(name) == ancestorsOf(name) \ {name}

\* The member with the most labels of a set of ancestors of one name.
Longest(names) == CHOOSE n \in names : \A m \in names : Len(m) <= Len(n)

longestCommonAncestor(a, b) == Longest(ancestorsOf(a) \cap ancestorsOf(b))

nextCloserName(name, ce) == LastNLabels(name, Len(ce) + 1)

wildcardAt(ce) == Append(ce, Star)

IsWildcard(name) == name # Root /\ name[Len(name)] = Star

\* DNSSEC canonical name order (RFC 4034 section 6.1): label by label from
\* the root, an ancestor before its descendants.
CanonicalLess(a, b) ==
  \/ isStrictSubdomain(b, a)
  \/ \E i \in 1..Len(a) :
       /\ i <= Len(b)
       /\ a[i] < b[i]
       /\ \A j \in 1..(i - 1) : a[j] = b[j]

\* The labels of name below owner, moved below target (RFC 6672).
synthesiseDNAMETarget(name, owner, target) ==
  target \o SubSeq(name, Len(owner) + 1, Len(name))
=============================================================================
