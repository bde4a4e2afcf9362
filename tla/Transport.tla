----------------------------- MODULE Transport -----------------------------
(***************************************************************************)
(* Client.Resolve of resolver/auth (UDP, TCP on truncation), resolver/dot  *)
(* (TLS) and resolver/doh (HTTPS): one query over a list of servers tried  *)
(* in order, with a timeout per attempt and the caller's context.          *)
(*                                                                         *)
(* The clients are immutable and every attempt has a connection of its     *)
(* own, so calls do not meet: one call is modelled.  An error is the set   *)
(* of sentinels errors.Is finds in it (doh calls its servers providers:    *)
(* ErrNoProviders is ErrNoServers here).  What a server does on a leg (a   *)
(* transport) is fixed for the call:                                       *)
(*   good, garbled      a reply, one that does not parse                   *)
(*   truncated          a reply with TC set                                *)
(*   short, otherid     fewer than 12 octets, another transaction ID       *)
(*   status, ctype      HTTP status not 2xx, another content type          *)
(*   refused            the connection is refused or reset                 *)
(*   blackhole          nothing comes back, not even a connection          *)
(*   silent, late       a connection but no reply, or one as time runs out *)
(***************************************************************************)
EXTENDS Naturals, Sequences

CONSTANTS
  Client,       \* the clients: a subset of {"auth", "dot", "doh"}
  Behaviours,   \* what the servers, in order, may do: sequences of functions of the leg
  Timeout,      \* ticks an attempt may take (WithTimeout, http.Client.Timeout)
  OSDialLimit,  \* ticks after which the system gives up a TCP dial
  CtxDeadlines, \* the deadlines a context may have; Never for none
  Never         \* no deadline, no time; later than every tick

Leg == {"udp", "tcp", "tls", "http"}

Doing == {"good", "garbled", "truncated", "short", "otherid", "status", "ctype", "refused",
          "blackhole", "silent", "late"}

\* Only HTTP has a status and a content type.
ASSUME ServersAssumption ==
  /\ Client \subseteq {"auth", "dot", "doh"}
  /\ \A b \in Behaviours :
       /\ b \in Seq([Leg -> Doing])
       /\ \A s \in DOMAIN b, l \in Leg \ {"http"} : b[s][l] \notin {"status", "ctype"}

ASSUME TimesAssumption ==
  /\ Timeout \in Nat \ {0} /\ OSDialLimit \in Nat \ {0} /\ Never \in Nat
  /\ CtxDeadlines \subseteq 0..Never

VARIABLES
  client, behaviour, ctxDeadline, \* fixed when the call starts
  now,         \* the clock
  cancelledAt, \* when the context was cancelled
  at,          \* "start", "dial", "exchange" or "returned"
  server, leg, \* the attempt
  since,       \* when it started
  firstErr,    \* the first failure, with its server
  reply,       \* the message returned: [server, leg], server 0 for none
  err          \* the error returned

fixed == <<client, behaviour, ctxDeadline>>
vars == <<client, behaviour, ctxDeadline, now, cancelledAt, at, server, leg,
          since, firstErr, reply, err>>

NumServers == Len(behaviour)

firstLeg == [auth |-> "udp", dot |-> "tls", doh |-> "http"]

Init ==
  /\ client \in Client /\ behaviour \in Behaviours /\ ctxDeadline \in CtxDeadlines
  /\ now = 0 /\ cancelledAt = Never
  /\ at = "start" /\ server = 1 /\ leg = firstLeg[client] /\ since = 0
  /\ firstErr = [server |-> 0, err |-> {}]
  /\ reply = [server |-> 0, leg |-> "none"] /\ err = {}

CtxEnded == cancelledAt # Never \/ now >= ctxDeadline

Earlier(s, t) == IF s <= t THEN s ELSE t

\* Mutant: the context's deadline is forgotten.
deadlineOwn == since + Timeout

\* The deadline of the attempt: its timeout or the context's deadline.
deadline == Earlier(since + Timeout, ctxDeadline)

\* What the server does on this leg.
doing == behaviour[server][leg]

\* The umbrella sentinel of the package.  Causes are formatted with %v:
\* errors.Is does not find them.
umbrella == [auth |-> "ErrAuth", dot |-> "ErrDoT", doh |-> "ErrDoH"]

wrap(cause) == {umbrella[client]}

-----------------------------------------------------------------------------
\* QueryRaw: the loop over the servers.

NoServers ==
  /\ at = "start" /\ NumServers = 0
  /\ at' = "returned" /\ err' = {"ErrNoServers"}
  /\ UNCHANGED <<fixed, now, cancelledAt, server, leg, since, firstErr, reply>>

\* An attempt starts: its clock runs from here.
Begin ==
  /\ at = "start" /\ server <= NumServers
  /\ at' = "dial" /\ since' = now
  /\ UNCHANGED <<fixed, now, cancelledAt, server, leg, firstErr, reply, err>>

\* Mutants: the next server is asked over the last one's leg; the last
\* failure is reported.
FailKeepsLeg(e) ==
  LET first == IF firstErr.server = 0 THEN [server |-> server, err |-> e] ELSE firstErr
  IN  /\ firstErr' = first
      /\ IF server < NumServers
         THEN at' = "start" /\ server' = server + 1 /\ UNCHANGED <<leg, err>>
         ELSE at' = "returned" /\ err' = {"ErrAllServersFailed"} \cup first.err /\ UNCHANGED <<server, leg>>
      /\ UNCHANGED <<fixed, now, cancelledAt, since, reply>>

FailNamesLast(e) ==
  /\ firstErr' = [server |-> server, err |-> e]
  /\ IF server < NumServers
     THEN at' = "start" /\ server' = server + 1 /\ leg' = firstLeg[client] /\ UNCHANGED err
     ELSE at' = "returned" /\ err' = {"ErrAllServersFailed"} \cup e /\ UNCHANGED <<server, leg>>
  /\ UNCHANGED <<fixed, now, cancelledAt, since, reply>>

\* The attempt failed with e: the next server, or the end of the list.
Fail(e) ==
  LET first == IF firstErr.server = 0 THEN [server |-> server, err |-> e] ELSE firstErr
  IN  /\ firstErr' = first
      /\ IF server < NumServers
         THEN at' = "start" /\ server' = server + 1 /\ leg' = firstLeg[client] /\ UNCHANGED err
         ELSE at' = "returned" /\ err' = {"ErrAllServersFailed"} \cup first.err /\ UNCHANGED <<server, leg>>
      /\ UNCHANGED <<fixed, now, cancelledAt, since, reply>>

\* The message is returned; Resolve then parses it (message.ToResponse).
Return(parses) ==
  /\ at' = "returned" /\ reply' = [server |-> server, leg |-> leg]
  /\ err' = IF parses THEN {} ELSE {"ErrResolverResponse"}
  /\ UNCHANGED <<fixed, now, cancelledAt, server, leg, since, firstErr>>

-----------------------------------------------------------------------------
\* One attempt.

\* A UDP socket connects without the network.
connects == leg = "udp" \/ doing \notin {"refused", "blackhole"}

\* Mutant: the dial does not look at the context.
DialAnyway ==
  /\ at = "dial" /\ connects
  /\ at' = "exchange"
  /\ UNCHANGED <<fixed, now, cancelledAt, server, leg, since, firstErr, reply, err>>

Dial ==
  /\ at = "dial" /\ connects /\ ~CtxEnded
  /\ at' = "exchange"
  /\ UNCHANGED <<fixed, now, cancelledAt, server, leg, since, firstErr, reply, err>>

\* A dial ends with the context.  The timeout ends it too, except for auth,
\* which sets the deadline on the connection only.
dialExpired ==
  \/ CtxEnded
  \/ client # "auth" /\ now >= deadline
  \/ now >= since + OSDialLimit

DialFailed ==
  /\ at = "dial"
  /\ dialExpired \/ (~connects /\ doing = "refused")
  /\ Fail(wrap("dial"))

\* The read ends at the deadline; only HTTP notices a cancelled context.
readExpired == now >= deadline \/ (client = "doh" /\ CtxEnded)

ExchangeFailed ==
  /\ at = "exchange"
  /\ readExpired \/ doing = "refused"
  /\ Fail(wrap("read"))

\* The reply is there.
arrived ==
  /\ doing \notin {"refused", "blackhole", "silent"}
  /\ doing = "late" => now >= deadline

\* validateResponse and checkReply: auth does not wrap its sentinels.
badReply(e) == IF client = "auth" THEN {e} ELSE wrap(e) \cup {e}

\* sendOne: no umbrella around these either.
httpErrors == [status |-> "ErrUnexpectedStatus", ctype |-> "ErrUnexpectedContentType"]

\* A message over HTTP is returned as it is.
ReceiveHTTP ==
  /\ at = "exchange" /\ arrived /\ leg = "http"
  /\ IF doing \in DOMAIN httpErrors THEN Fail({httpErrors[doing]})
                                    ELSE Return(doing \notin {"garbled", "short"})

\* A datagram or a framed message must have a header and the query's ID.
ReceiveMessage ==
  /\ at = "exchange" /\ arrived /\ leg # "http"
  /\ \/ doing = "short" /\ Fail(badReply("ErrResponseTooShort"))
     \/ doing = "otherid" /\ Fail(badReply("ErrIDMismatch"))
     \/ /\ doing \in {"good", "late", "garbled"} \/ (doing = "truncated" /\ leg # "udp")
        /\ Return(doing # "garbled")

\* Mutant: the query is sent again over UDP.
TruncatedAgain ==
  /\ at = "exchange" /\ arrived /\ leg = "udp" /\ doing = "truncated"
  /\ at' = "start"
  /\ UNCHANGED <<fixed, now, cancelledAt, server, leg, since, firstErr, reply, err>>

\* TC over UDP: the same query, the same server, over TCP.
Truncated ==
  /\ at = "exchange" /\ arrived /\ leg = "udp" /\ doing = "truncated"
  /\ at' = "start" /\ leg' = "tcp"
  /\ UNCHANGED <<fixed, now, cancelledAt, server, since, firstErr, reply, err>>

-----------------------------------------------------------------------------
\* The environment.

Cancel ==
  /\ at # "returned" /\ cancelledAt = Never
  /\ cancelledAt' = now
  /\ UNCHANGED <<fixed, now, at, server, leg, since, firstErr, reply, err>>

\* Time passes only while the call waits on the network, and a timer that
\* has run out fires first.
Tick ==
  /\ \/ at = "dial" /\ ~connects /\ doing # "refused" /\ ~dialExpired
     \/ at = "exchange" /\ ~arrived /\ doing # "refused" /\ ~readExpired
  /\ now' = now + 1
  /\ UNCHANGED <<fixed, cancelledAt, at, server, leg, since, firstErr, reply, err>>

Resolve ==
  NoServers \/ Begin \/ Dial \/ DialFailed \/ ExchangeFailed \/ ReceiveHTTP \/ ReceiveMessage
    \/ Truncated \/ Tick

Returned == at = "returned" /\ UNCHANGED vars

Next == Resolve \/ Cancel \/ Returned

Spec == Init /\ [][Next]_vars

\* The call is scheduled and time goes on.
FairSpec == Spec /\ WF_vars(Resolve)
=============================================================================
