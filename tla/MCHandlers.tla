----------------------------- MODULE MCHandlers -----------------------------
(***************************************************************************)
(* Two goroutines, the default registry, which is registered into at any   *)
(* time, and the registry of a Verifier, filled once.  The records: a DS   *)
(* that a factory of either registry builds, a TLSA kept with its octets,  *)
(* which only the default registry knows, an SVCB in generic form, an MX,  *)
(* which has a built-in encoder, and a malformed generic value.            *)
(***************************************************************************)
EXTENDS Handlers

CONSTANTS ds, tlsa, svcb, mx, bad

MCTypeOf   == [x \in {ds, tlsa, svcb, mx, bad} |->
                 IF x = ds THEN "DS" ELSE IF x = svcb THEN "SVCB"
                 ELSE IF x = mx THEN "MX" ELSE "TLSA"]
MCForm     == [x \in {ds, tlsa, svcb, mx, bad} |->
                 IF x = svcb THEN "generic" ELSE IF x = bad THEN "malformed" ELSE "text"]
MCHasRData == [x \in {ds, tlsa, svcb, mx, bad} |-> x = tlsa]
MCAccepts  == [x \in {ds, tlsa, svcb, mx, bad} |->
                 IF x \in {mx, bad} THEN {} ELSE IF x = tlsa THEN {"tlsaFactory"}
                 ELSE IF x = ds THEN {"dsFactory", "ownFactory"} ELSE {"svcbFactory"}]

MCOffered ==
  [default  |-> [DS   |-> {"dsFactory", None}, TLSA |-> {"tlsaFactory", "ownFactory"},
                 SVCB |-> {"svcbFactory", None}, MX |-> {None}],
   verifier |-> [DS   |-> {"ownFactory"}, TLSA |-> {None}, SVCB |-> {"svcbFactory"},
                 MX |-> {None}]]

MCRegisterOrder == <<"DS", "TLSA">>
=============================================================================
