------------------------------- MODULE Denial -------------------------------
(***************************************************************************)
(* The walker's proofs of absence, made from the NSEC and NSEC3 records    *)
(* the answers deposited in a zone's store.  A candidate takes part only   *)
(* when its rrset verifies under the store's keys.                         *)
(*                                                                         *)
(* The store lists its records in no particular order, so "the first NSEC  *)
(* covering qname" may be any of them.  A proof that hangs on that choice  *)
(* is the set of the outcomes it can have.                                 *)
(***************************************************************************)
EXTENDS SigCheck

nsecHandlers(z)  == {r \in z.rrs : r.type = "NSEC"}

nsec3Handlers(z) == {r \in z.rrs : r.type = "NSEC3"}

\* Mutant: a candidate is returned whether its rrset verifies or not.
findNSECUnverified(z, candidates) == candidates

\* The candidates whose rrset verifies: the ones findNSEC may return.
findNSEC(z, candidates) ==
  {c \in candidates : VerifyRRSet(z, c.name, "NSEC", "None")}

\* The verified NSECs matching and covering a name.
matchingNSEC(z, name) == findNSEC(z, {c \in nsecHandlers(z) : c.name = name})

coveringNSEC(z, name) ==
  findNSEC(z, {c \in nsecHandlers(z) : CoversName(c, name)})

\* The longest ancestor qname shares with an end of the range.  The code
\* returns the empty string, "no encloser", when that is the root.
closestEncloserNSEC(qname, nsec) ==
  Longest({longestCommonAncestor(qname, nsec.name),
           longestCommonAncestor(qname, nsec.val.next)})

hasEncloserNSEC(qname, nsec) == closestEncloserNSEC(qname, nsec) # Root

noDataNSEC(z, name, type) ==
  \E c \in matchingNSEC(z, name) : ProvesNoData(c, type)

\* NODATA by NSEC: at the name, at an empty non-terminal, or at the
\* wildcard that would have answered.
proveNoDataWithNSEC(z, qname, qtype) ==
  IF noDataNSEC(z, qname, qtype) THEN {TRUE}
  ELSE IF coveringNSEC(z, qname) = {} THEN {FALSE}
  ELSE {\/ isStrictSubdomain(c.val.next, qname)
        \/ /\ hasEncloserNSEC(qname, c)
           /\ noDataNSEC(z, wildcardAt(closestEncloserNSEC(qname, c)), qtype) :
          c \in coveringNSEC(z, qname)}

\* NXDOMAIN by NSEC: one range covers the name, another the wildcard.
proveNXDomainWithNSEC(z, qname) ==
  IF coveringNSEC(z, qname) = {} THEN {FALSE}
  ELSE {/\ ~isStrictSubdomain(c.val.next, qname)
        /\ hasEncloserNSEC(qname, c)
        /\ closestEncloserNSEC(qname, c) # qname
        /\ coveringNSEC(z, wildcardAt(closestEncloserNSEC(qname, c))) # {} :
          c \in coveringNSEC(z, qname)}

\* The verified NSEC3s matching and covering the hash of a name.
nsec3Matches(z, name) ==
  {c \in nsec3Handlers(z) : /\ OwnerHashFromName(c) = Hash(name)
                            /\ VerifyRRSet(z, c.name, "NSEC3", "None")}

findCoveringNSEC3(z, name) ==
  {c \in nsec3Handlers(z) : /\ CoversHash(c, Hash(name))
                            /\ VerifyRRSet(z, c.name, "NSEC3", "None")}

noDataNSEC3(z, name, type) ==
  \E c \in nsec3Matches(z, name) : ProvesNoData(c, type)

\* The ancestors of qname, itself included, with a matching NSEC3.
provenAncestors(z, qname) == {a \in ancestorsOf(qname) : nsec3Matches(z, a) # {}}

\* RFC 5155 8.3: the longest of them is a proper ancestor, and the next
\* closer name is covered.
closestEncloserProofNSEC3(z, qname) ==
  LET proven == provenAncestors(z, qname)
  IN  /\ proven # {}
      /\ qname \notin proven
      /\ findCoveringNSEC3(z, nextCloserName(qname, Longest(proven))) # {}

closestEncloserNSEC3(z, qname) == Longest(provenAncestors(z, qname))

proveNoDataWithNSEC3(z, qname, qtype) ==
  \/ noDataNSEC3(z, qname, qtype)
  \/ /\ closestEncloserProofNSEC3(z, qname)
     /\ noDataNSEC3(z, wildcardAt(closestEncloserNSEC3(z, qname)), qtype)

proveNXDomainWithNSEC3(z, qname) ==
  /\ closestEncloserProofNSEC3(z, qname)
  /\ findCoveringNSEC3(z, wildcardAt(closestEncloserNSEC3(z, qname))) # {}

proveNoData(z, qname, qtype) ==
  {b \/ proveNoDataWithNSEC3(z, qname, qtype) : b \in proveNoDataWithNSEC(z, qname, qtype)}

proveNXDomain(z, qname) ==
  {b \/ proveNXDomainWithNSEC3(z, qname) : b \in proveNXDomainWithNSEC(z, qname)}

\* The parent proves that child is a delegation without DS, or that an
\* opt-out range leaves that open.
proveNoDSWithNSEC(z, child) == \E c \in matchingNSEC(z, child) : ProvesNoDS(c)

proveNoDSWithNSEC3(z, child) ==
  \/ \E c \in nsec3Matches(z, child) : ProvesNoDS(c)
  \/ \E c \in findCoveringNSEC3(z, child) : HasOptOut(c)

proveNoDS(z, child) == proveNoDSWithNSEC(z, child) \/ proveNoDSWithNSEC3(z, child)

\* What a wildcard answer needs: its next closer name does not exist.
proveQnameNonExistence(z, nextCloser) ==
  coveringNSEC(z, nextCloser) # {} \/ findCoveringNSEC3(z, nextCloser) # {}

\* The label counts of the RRSIGs over (qname, qtype) that tell of wildcard
\* expansion; the first in the store names the source.
detectWildcard(z, qname, qtype) ==
  {s.labels : s \in {s \in FindRRSIGs(z, qname, qtype) : s.labels < Len(qname)}}
=============================================================================
