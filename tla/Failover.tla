------------------------------ MODULE Failover ------------------------------
(***************************************************************************)
(* What the network clients of Transport promise: which server's answer a  *)
(* call returns or what its error says, how long it takes, and that this   *)
(* is all a Resolver owes the verifier.                                    *)
(***************************************************************************)
EXTENDS Transport

Sentinel == {"ErrNoServers", "ErrAllServersFailed", "ErrAuth", "ErrDoT", "ErrDoH",
             "ErrResponseTooShort", "ErrIDMismatch", "ErrUnexpectedStatus",
             "ErrUnexpectedContentType", "ErrResolverResponse"}

(***************************************************************************)
(* The variables hold values of their kind; a leg belongs to its client,   *)
(* and TCP is met only after a truncated datagram of the same server.      *)
(***************************************************************************)
TransportTypeOK ==
  /\ now \in Nat /\ since \in 0..now /\ cancelledAt \in 0..now \cup {Never}
  /\ at \in {"start", "dial", "exchange", "returned"}
  /\ server \in 1..(NumServers + 1)
  /\ leg \in {firstLeg[client]} \cup {"tcp"}
  /\ leg = "tcp" => client = "auth" /\ behaviour[server]["udp"] = "truncated"
  /\ firstErr.server \in 0..server /\ firstErr.err \subseteq Sentinel
  /\ err \subseteq Sentinel
  /\ (reply.server # 0 \/ err # {}) <=> at = "returned"

-----------------------------------------------------------------------------
\* What the list of servers should give, whatever the timing.

\* The leg a client's attempt at a server ends on.
lastLeg(s) ==
  IF client = "auth" /\ behaviour[s]["udp"] = "truncated" THEN "tcp" ELSE firstLeg[client]

ending(s) == behaviour[s][lastLeg(s)]

\* An answer in time, whatever it is worth; over HTTP the ID is not looked at.
mustAnswer(s) ==
  ending(s) \in {"good", "garbled", "truncated"} \cup (IF client = "doh" THEN {"otherid", "short"} ELSE {})

mayAnswer(s) == mustAnswer(s) \/ ending(s) = "late"

\* What the error of a server that fails says beyond the umbrella.
says(s) ==
  {e \in {"ErrResponseTooShort", "ErrIDMismatch", "ErrUnexpectedStatus", "ErrUnexpectedContentType"} :
     \/ ending(s) = "short" /\ e = "ErrResponseTooShort"
     \/ ending(s) = "otherid" /\ e = "ErrIDMismatch"
     \/ ending(s) = "status" /\ e = "ErrUnexpectedStatus"
     \/ ending(s) = "ctype" /\ e = "ErrUnexpectedContentType"}

(***************************************************************************)
(* While the context lasts, the answer is the first one a server gives in  *)
(* time, over TCP when its datagram was truncated; a list that gives none  *)
(* is reported as such, with what was wrong with the first server and with *)
(* no other.  (QueryRaw, queryOne, sendOne)                                *)
(***************************************************************************)
FailoverIsReference ==
  at = "returned" /\ ~CtxEnded =>
    IF reply.server # 0
    THEN /\ reply.leg = lastLeg(reply.server) /\ mayAnswer(reply.server)
         /\ \A s \in 1..(reply.server - 1) : ~mustAnswer(s)
         /\ (err = {}) <=> \/ ending(reply.server) \in {"good", "truncated", "late"}
                           \/ client = "doh" /\ ending(reply.server) = "otherid"
    ELSE /\ \A s \in 1..NumServers : ~mustAnswer(s)
         /\ IF NumServers = 0 THEN err = {"ErrNoServers"}
            ELSE "ErrAllServersFailed" \in err
                 /\ err \ {"ErrAllServersFailed", "ErrAuth", "ErrDoT", "ErrDoH"} = says(1)

(***************************************************************************)
(* A call does not outlive its context's deadline, and after the context   *)
(* is cancelled it is over within the timeout of the attempt under way: no *)
(* further server is waited for.  An attempt is over within its timeout,   *)
(* but for a connection over TCP that is not made: resolver/auth waits for *)
(* it until the system gives up.  So every server has its share of the     *)
(* time the call may take.  (queryUDP, queryTCP, queryOne, sendOne)        *)
(***************************************************************************)
BoundedInTime ==
  /\ at # "returned" =>
       /\ now <= ctxDeadline
       /\ now <= cancelledAt + Timeout
       /\ at \in {"dial", "exchange"} /\ now > since + Timeout =>
            leg = "tcp" /\ at = "dial" /\ now <= since + OSDialLimit
  /\ now <= NumServers * (2 * Timeout + OSDialLimit)

\* The call as the verifier sees it.
Must == {s \in 1..NumServers : mustAnswer(s)}
May == {s \in 1..NumServers : mayAnswer(s)}
Outcome ==
  [at |-> IF at # "returned" THEN "pending" ELSE IF reply.server = 0 THEN "failed" ELSE "answered",
   server |-> reply.server]

Promise == INSTANCE Resolver WITH must <- Must, may <- May, ended <- CtxEnded, outcome <- Outcome

(***************************************************************************)
(* The clients implement what the verifier counts on: a call returns once; *)
(* with the first answer there is, even when the context ends while it is  *)
(* on the way; and with an error only if there is a reason.                *)
(* (Client.Resolve of resolver/auth, resolver/dot and resolver/doh)        *)
(***************************************************************************)
ImplementsResolver == Promise!Spec

(***************************************************************************)
(* The call returns, even if every server is silent and the context has no *)
(* deadline.  (the timeout per attempt of the three clients)               *)
(***************************************************************************)
ResolveReturns == Promise!Returns
=============================================================================
