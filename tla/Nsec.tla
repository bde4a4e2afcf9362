-------------------------------- MODULE Nsec --------------------------------
(***************************************************************************)
(* The denial records: what one NSEC or NSEC3 says about a name.           *)
(*                                                                         *)
(* A resource record is [type, name, val].  The value of an NSEC is        *)
(* [next |-> the next owner, types |-> its bitmap]; that of an NSEC3 is    *)
(* [next |-> the next hash, optout, types], and its owner is the hash, as  *)
(* one label, below the zone apex.  Salt and iteration count are folded    *)
(* into the operator Hash: the signer uses one set per zone.               *)
(***************************************************************************)
EXTENDS Names

CONSTANT Hash(_)

RR(name, type, val) == [type |-> type, name |-> name, val |-> val]

\* The denial bitmap of a record.
CoversType(nsec, type) == type \in nsec.val.types

\* Mutant: the last NSEC of a chain, whose next owner is the apex, covers
\* nothing.
CoversNameNoWrap(nsec, name) ==
  CanonicalLess(nsec.name, name) /\ CanonicalLess(name, nsec.val.next)

CoversName(nsec, name) ==
  LET next       == nsec.val.next
      afterOwner == CanonicalLess(nsec.name, name)
      beforeNext == CanonicalLess(name, next)
  IN  /\ name \notin {nsec.name, next}
      /\ IF CanonicalLess(nsec.name, next)
         THEN afterOwner /\ beforeNext
         ELSE afterOwner \/ beforeNext

OwnerHashFromName(nsec3) == nsec3.name[Len(nsec3.name)]

CoversHash(nsec3, hash) ==
  LET owner == OwnerHashFromName(nsec3)
      next  == nsec3.val.next
  IN  /\ hash \notin {owner, next}
      /\ IF owner < next
         THEN owner < hash /\ hash < next
         ELSE owner < hash \/ hash < next

\* Neither the type nor a CNAME is at the owner (NSEC and NSEC3 alike).
ProvesNoData(nsec, type) ==
  ~CoversType(nsec, type) /\ ~CoversType(nsec, "CNAME")

\* Mutant: any name without DS passes for a delegation.
ProvesNoDSAnywhere(nsec) == ~CoversType(nsec, "DS") /\ ~CoversType(nsec, "SOA")

\* The bitmap of an unsigned delegation, seen from the parent.
ProvesNoDS(nsec) ==
  CoversType(nsec, "NS") /\ ~CoversType(nsec, "DS") /\ ~CoversType(nsec, "SOA")

HasOptOut(nsec3) == nsec3.val.optout
=============================================================================
