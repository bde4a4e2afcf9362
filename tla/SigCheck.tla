------------------------------ MODULE SigCheck ------------------------------
(***************************************************************************)
(* The record store of one zone during validation (dnssec.Zone), and the   *)
(* check of the RRSIGs over one of its rrsets.                             *)
(*                                                                         *)
(* A store is [rrs, sigs, trusted, parent]: the records and RRSIGs         *)
(* deposited by the answers, the DNSKEY records authenticated as KSKs      *)
(* (AddTrustedKey), and the parent's records ({} for a store without       *)
(* parent).  Records are a set: CreateDigestTarget drops duplicates before *)
(* it checks a signature, and every other reader asks for presence.        *)
(*                                                                         *)
(* Signatures are symbolic.  An RRSIG holds the fields of its RDATA        *)
(* (type covered, signer, key tag, labels, inception, expiration) and what *)
(* its signature was computed over: the key (by), the owner and the values *)
(* of the rrset.  It verifies under a key iff that is the key that made it *)
(* and the rrset rebuilt from the store is the one it was made over.  Key  *)
(* tag and algorithm are one field: keys are always looked up by both.     *)
(* The value of a DNSKEY is the key, the value of a DS the key it digests. *)
(***************************************************************************)
EXTENDS Nsec

CONSTANTS Key,          \* the key pairs there are
          KeyTag(_),    \* the tag and algorithm of a key; not unique
          Unsupported   \* the keys of an algorithm this build cannot verify

\* Keys found by one tag share its algorithm.
ASSUME TagsDecideAlgorithm ==
  \A j \in Key, k \in Key :
    KeyTag(j) = KeyTag(k) => (j \in Unsupported <=> k \in Unsupported)

\* The clock RRSIG windows are checked against (SetClock).
VARIABLE now

RRSIG(name, type, signer, by, labels, owner, vals, inc, exp) ==
  [type |-> type, name |-> name, signer |-> signer, tag |-> KeyTag(by),
   by |-> by, labels |-> labels, owner |-> owner, vals |-> vals,
   inc |-> inc, exp |-> exp]

EmptyZone == [rrs |-> {}, sigs |-> {}, trusted |-> {}, parent |-> {}]

AddTrustedKeys(z, dnskeys) == [z EXCEPT !.trusted = @ \cup dnskeys]

FindRRSet(z, name, type) == {r \in z.rrs : r.type = type /\ r.name = name}

FindRRSIGs(z, name, type) == {s \in z.sigs : s.type = type /\ s.name = name}

Vals(rrset) == {r.val : r \in rrset}

FindDNSKeys(z, signer, tag) ==
  {r \in FindRRSet(z, signer, "DNSKEY") : KeyTag(r.val) = tag}

verifyKSK(z, dnskey) ==
  \/ dnskey \in z.trusted
  \/ RR(dnskey.name, "DS", dnskey.val) \in z.parent

\* KeyModeNone accepts every key at the signer, KeyModeKSK the
\* authenticated ones; the walker uses no other mode.
keysForMode(z, dnskeys, mode) ==
  IF mode = "KSK" THEN {k \in dnskeys : verifyKSK(z, k)} ELSE dnskeys

validityStatus(sig) ==
  IF now < sig.inc THEN "not-yet-valid"
  ELSE IF now > sig.exp THEN "expired"
  ELSE "verified"

\* The owner the signature is taken to cover: the name, or the wildcard it
\* was expanded from when the RRSIG counts fewer labels (RFC 4035 5.3.2).
digestOwner(name, sig) ==
  IF sig.labels < Len(name) THEN wildcardAt(LastNLabels(name, sig.labels))
                            ELSE name

\* Mutant: records missing from the rrset go unnoticed.
signedOverAtLeast(sig, name, rrset) ==
  sig.owner = digestOwner(name, sig) /\ Vals(rrset) \subseteq sig.vals

\* The rrset rebuilt from the store is what the signature was made over.
signedOver(sig, name, rrset) ==
  sig.owner = digestOwner(name, sig) /\ sig.vals = Vals(rrset)

\* The outcome of one RRSIG over (name, type).
CheckRRSIG(z, name, type, sig, mode) ==
  LET keys  == Vals(keysForMode(z, FindDNSKeys(z, sig.signer, sig.tag), mode))
      rrset == FindRRSet(z, name, type)
  IN  IF validityStatus(sig) # "verified" THEN validityStatus(sig)
      ELSE IF keys = {} THEN "no-matching-key"
      ELSE IF rrset = {} THEN "invalid"
      ELSE IF keys \cap Unsupported # {} THEN "unsupported-algorithm"
      ELSE IF sig.by \in keys /\ signedOver(sig, name, rrset) THEN "verified"
      ELSE "invalid"

SigStatus == {"verified", "expired", "not-yet-valid", "invalid",
              "no-matching-key", "unsupported-algorithm"}

\* One result per RRSIG over the rrset.
CheckRRSet(z, name, type, mode) ==
  {[name |-> name, type |-> type, tag |-> s.tag, signer |-> s.signer,
    inc |-> s.inc, exp |-> s.exp, result |-> CheckRRSIG(z, name, type, s, mode)] :
     s \in FindRRSIGs(z, name, type)}

\* Any valid signature is enough (RFC 4035 5.3.3).
VerifyRRSet(z, name, type, mode) ==
  \E c \in CheckRRSet(z, name, type, mode) : c.result = "verified"

\* The failure that names a failed rrset, the most specific one first.
sigFailureOrder == <<"expired", "not-yet-valid", "invalid",
                     "no-matching-key", "unsupported-algorithm">>

sigFailureCode(results) ==
  IF results = {} THEN "no-rrsig"
  ELSE LET met  == {c.result : c \in results}
           rank == CHOOSE i \in 1..5 : /\ sigFailureOrder[i] \in met
                                       /\ \A j \in 1..(i - 1) : sigFailureOrder[j] \notin met
       IN  sigFailureOrder[rank]

\* checkRRSet of the verifier: ok, the code of a failure, whether the check
\* could not be carried out (ErrVerifier), and the outcomes for the chain.
checkRRSet(z, name, type, mode) ==
  LET results == CheckRRSet(z, name, type, mode)
      ok      == \E c \in results : c.result = "verified"
  IN  [ok   |-> ok,
       err  |-> ~ok /\ \E c \in results : c.result = "unsupported-algorithm",
       code |-> IF ok THEN "none" ELSE sigFailureCode(results),
       sigs |-> results]
=============================================================================
