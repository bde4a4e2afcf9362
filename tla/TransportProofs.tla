-------------------------- MODULE TransportProofs --------------------------
(***************************************************************************)
(* For any list of servers, any timeout and any context: what the clients  *)
(* of Transport return, how long they take, and that they keep the promise *)
(* of a Resolver.                                                          *)
(***************************************************************************)
EXTENDS Failover, TLAPS

Umbrellas == {"ErrAllServersFailed", "ErrAuth", "ErrDoT", "ErrDoH"}

\* What every server may take of the call's time.
Share == 2 * Timeout + OSDialLimit

\* When the attempts at server s have begun.
StartBy(s) == (s - 1) * Share

\* The call's inputs, where it is in the list, and what it has kept.
Kinds ==
  /\ client \in Client /\ behaviour \in Behaviours /\ ctxDeadline \in CtxDeadlines
  /\ now \in Nat /\ since \in Nat /\ since <= now
  /\ cancelledAt \in Nat /\ (cancelledAt <= now \/ cancelledAt = Never)
  /\ at \in {"start", "dial", "exchange", "returned"}
  /\ server \in Nat /\ server >= 1
  /\ NumServers = 0 => server = 1 /\ at \in {"start", "returned"}
  /\ NumServers # 0 => server <= NumServers
  /\ leg \in {firstLeg[client], "tcp"}
  /\ leg = "tcp" => client = "auth" /\ behaviour[server]["udp"] = "truncated"
  /\ firstErr \in [server : {0, 1}, err : SUBSET Sentinel]
  /\ reply \in [server : Nat, leg : Leg \cup {"none"}]
  /\ err \subseteq Sentinel
  /\ at # "returned" => reply.server = 0 /\ err = {}
  /\ at = "returned" => reply.server # 0 \/ err # {}

\* Time passes only where the network is waited for, and no longer than the
\* timer of the attempt, or of the system, allows.
Clock ==
  /\ now <= ctxDeadline
  /\ now <= cancelledAt + Timeout
  /\ at = "dial" =>
       IF connects THEN now = since
       ELSE now <= since + (IF client = "auth" THEN OSDialLimit ELSE Timeout)
  /\ at = "exchange" =>
       /\ now <= since + Timeout /\ since <= cancelledAt
       /\ doing \notin {"blackhole", "silent", "late"} => now = since
  /\ at = "start" => now <= StartBy(server)
  /\ at \in {"dial", "exchange"} => since <= StartBy(server)
  /\ at = "returned" => now <= StartBy(NumServers + 1)

\* While the context lasts, a server is passed over only if it gives no
\* answer in time; the first error is the first server's.
Tried ==
  /\ CtxEnded \/ \A s \in 1..(server - 1) : ~mustAnswer(s)
  /\ at = "exchange" => \A s \in 1..(server - 1) : ~mustAnswer(s)
  /\ at # "returned" => (firstErr.server = 0 <=> server = 1)
  /\ firstErr.server = 1 => CtxEnded \/ firstErr.err \ Umbrellas = says(1)

\* What is returned: an answer of the first server to give one, or the error.
Result ==
  at = "returned" =>
    IF reply.server # 0
    THEN /\ reply.server <= NumServers
         /\ reply.leg = lastLeg(reply.server) /\ mayAnswer(reply.server)
         /\ \A s \in 1..(reply.server - 1) : ~mustAnswer(s)
         /\ (err = {}) <=> \/ ending(reply.server) \in {"good", "truncated", "late"}
                           \/ client = "doh" /\ ending(reply.server) = "otherid"
    ELSE /\ CtxEnded \/ \A s \in 1..NumServers : ~mustAnswer(s)
         /\ IF NumServers = 0 THEN err = {"ErrNoServers"}
            ELSE firstErr.server = 1 /\ err = {"ErrAllServersFailed"} \cup firstErr.err

CallInvariant == Kinds /\ Clock /\ Tried /\ Result

-----------------------------------------------------------------------------
\* The constants and the servers.

LEMMA Times ==
  /\ Timeout \in Nat /\ Timeout >= 1 /\ OSDialLimit \in Nat /\ OSDialLimit >= 1 /\ Never \in Nat
  /\ Share \in Nat /\ Share >= Timeout /\ Share >= OSDialLimit
PROOF
  BY TimesAssumption DEF Share

\* The servers' shares follow each other.
LEMMA Shares ==
  ASSUME NEW s \in Nat, s >= 1
  PROVE  StartBy(s) \in Nat /\ StartBy(s + 1) = StartBy(s) + Share
PROOF
  <1>1. Share \in Nat
    BY Times
  <1>2. (s + 1 - 1) * Share = (s - 1) * Share + Share /\ (s - 1) * Share \in Nat
    BY <1>1
  <1>. QED BY <1>2 DEF StartBy

LEMMA SharesGrow ==
  ASSUME NEW s \in Nat, s >= 1, NEW t \in Nat, s <= t
  PROVE  StartBy(s) <= StartBy(t)
PROOF
  <1>1. Share \in Nat
    BY Times
  <1>2. (t - 1) * Share = (s - 1) * Share + (t - s) * Share /\ (t - s) * Share \in Nat
    BY <1>1
  <1>3. (s - 1) * Share \in Nat
    BY <1>1
  <1>. QED BY <1>2, <1>3 DEF StartBy

LEMMA AllShares ==
  ASSUME NEW n \in Nat
  PROVE  StartBy(n + 1) = n * Share
PROOF
  <1>1. Share \in Nat
    BY Times
  <1>2. n + 1 - 1 = n
    OBVIOUS
  <1>3. (n + 1 - 1) * Share = n * Share
    BY <1>1, <1>2
  <1>. QED BY <1>3 DEF StartBy

\* The legs and what the servers do on them.
LEMMA Servers ==
  ASSUME Kinds
  PROVE  /\ client \in {"auth", "dot", "doh"}
         /\ firstLeg[client] = (IF client = "auth" THEN "udp" ELSE IF client = "dot" THEN "tls" ELSE "http")
         /\ NumServers \in Nat
         /\ leg \in Leg
         /\ \A s \in 1..NumServers, l \in Leg :
              behaviour[s][l] \in Doing /\ (l # "http" => behaviour[s][l] \notin {"status", "ctype"})
PROOF
  <1>1. client \in {"auth", "dot", "doh"}
    BY ServersAssumption DEF Kinds
  <1>2. behaviour \in Seq([Leg -> Doing])
        /\ \A s \in DOMAIN behaviour, l \in Leg \ {"http"} : behaviour[s][l] \notin {"status", "ctype"}
    BY ServersAssumption DEF Kinds
  <1>3. NumServers \in Nat /\ DOMAIN behaviour = 1..NumServers
    BY <1>2 DEF NumServers
  <1>4. \A s \in 1..NumServers : behaviour[s] \in [Leg -> Doing]
    BY <1>2, <1>3 DEF NumServers
  <1>5. firstLeg[client] = (IF client = "auth" THEN "udp" ELSE IF client = "dot" THEN "tls" ELSE "http")
    BY <1>1 DEF firstLeg
  <1>6. leg \in Leg
    BY <1>1, <1>5 DEF Kinds, Leg
  <1>7. \A s \in 1..NumServers, l \in Leg :
              behaviour[s][l] \in Doing /\ (l # "http" => behaviour[s][l] \notin {"status", "ctype"})
    BY <1>2, <1>3, <1>4
  <1>. QED BY <1>1, <1>3, <1>5, <1>6, <1>7

\* Unless a truncated datagram has just come, the attempt is on the leg the
\* server's behaviour ends with.
LEMMA OnLastLeg ==
  ASSUME Kinds, doing # "truncated" \/ leg # "udp"
  PROVE  leg = lastLeg(server) /\ doing = ending(server)
PROOF
  <1>1. leg = "tcp" => lastLeg(server) = "tcp"
    BY DEF Kinds, lastLeg
  <1>2. leg # "tcp" => leg = firstLeg[client]
    BY DEF Kinds
  <1>3. leg # "tcp" /\ client = "auth" => leg = "udp" /\ behaviour[server]["udp"] # "truncated"
    BY <1>2, Servers DEF doing
  <1>4. leg # "tcp" => lastLeg(server) = leg
    BY <1>2, <1>3 DEF lastLeg
  <1>. QED BY <1>1, <1>4 DEF doing, ending

\* A leg that is not connected is the last one.
LEMMA NotConnected ==
  ASSUME Kinds, ~connects
  PROVE  leg = lastLeg(server) /\ doing = ending(server) /\ doing \in {"refused", "blackhole"}
         /\ (client = "auth" => leg = "tcp")
PROOF
  BY OnLastLeg, Servers DEF connects, Kinds

-----------------------------------------------------------------------------
\* The invariant holds initially and every step keeps it.

LEMMA InitCall == Init => CallInvariant
PROOF
  <1> SUFFICES ASSUME Init PROVE CallInvariant
    OBVIOUS
  <1>1. ctxDeadline \in Nat /\ ctxDeadline <= Never
    BY TimesAssumption DEF Init
  <1>2. behaviour \in Seq([Leg -> Doing])
    BY ServersAssumption DEF Init
  <1>3. NumServers \in Nat
    BY <1>2 DEF NumServers
  <1>4. firstLeg[client] # "tcp"
    BY ServersAssumption DEF Init, firstLeg
  <1>5. Kinds
    BY <1>3, <1>4, Times DEF Init, Kinds
  <1>6. StartBy(1) \in Nat
    BY Shares
  <1>7. Clock
    BY <1>1, <1>6, Times DEF Init, Clock
  <1>8. Tried
    BY DEF Init, Tried
  <1>9. Result
    BY DEF Init, Result
  <1>. QED BY <1>5, <1>7, <1>8, <1>9 DEF CallInvariant

\* A call never changes what it was given.
LEMMA SameServers ==
  ASSUME UNCHANGED fixed
  PROVE  /\ client' = client /\ behaviour' = behaviour /\ ctxDeadline' = ctxDeadline
         /\ NumServers' = NumServers
         /\ \A s : /\ lastLeg(s)' = lastLeg(s) /\ ending(s)' = ending(s)
                   /\ mustAnswer(s)' = mustAnswer(s) /\ mayAnswer(s)' = mayAnswer(s)
                   /\ says(s)' = says(s)
PROOF
  <1>1. client' = client /\ behaviour' = behaviour /\ ctxDeadline' = ctxDeadline
    BY DEF fixed
  <1>. QED BY <1>1 DEF NumServers, lastLeg, ending, mustAnswer, mayAnswer, says

\* Deadlines are not later than Never.
LEMMA Deadlines ==
  ASSUME Kinds
  PROVE  ctxDeadline \in Nat /\ ctxDeadline <= Never
PROOF
  BY TimesAssumption DEF Kinds

\* An attempt that fails for a reason leads to the next server, or to the
\* error of the first.
LEMMA FailKeeps ==
  ASSUME CallInvariant, NEW e \in SUBSET Sentinel, Fail(e), at \in {"dial", "exchange"},
         now <= StartBy(server + 1),
         CtxEnded \/ (~mustAnswer(server) /\ e \ Umbrellas = says(server))
  PROVE  CallInvariant'
PROOF
  <1> DEFINE first == IF firstErr.server = 0 THEN [server |-> server, err |-> e] ELSE firstErr
  <1>1. Kinds /\ Clock /\ Tried
    BY DEF CallInvariant
  <1>2. /\ UNCHANGED fixed /\ now' = now /\ cancelledAt' = cancelledAt
        /\ since' = since /\ reply' = reply /\ firstErr' = first
    BY DEF Fail
  <1>3. /\ client' = client /\ behaviour' = behaviour /\ ctxDeadline' = ctxDeadline
        /\ NumServers' = NumServers /\ CtxEnded' = CtxEnded
        /\ \A s : mustAnswer(s)' = mustAnswer(s) /\ says(s)' = says(s)
    BY <1>2, SameServers DEF CtxEnded
  <1>4. NumServers \in Nat /\ server \in 1..NumServers /\ firstLeg[client] # "tcp"
    BY <1>1, Servers DEF Kinds
  <1>5. first \in [server : {0, 1}, err : SUBSET Sentinel] /\ first.server = 1
        /\ (CtxEnded \/ first.err \ Umbrellas = says(1))
    <2>1. CASE firstErr.server = 0
      <3>1. server = 1
        BY <1>1, <2>1 DEF Tried
      <3>. QED BY <2>1, <3>1
    <2>2. CASE firstErr.server # 0
      <3>1. firstErr.server = 1
        BY <1>1, <2>2 DEF Kinds
      <3>. QED BY <1>1, <2>2, <3>1 DEF Kinds, Tried
    <2>. QED BY <2>1, <2>2
  <1>6. CtxEnded \/ \A s \in 1..server : ~mustAnswer(s)
    <2> SUFFICES ASSUME ~CtxEnded PROVE \A s \in 1..server : ~mustAnswer(s)
      OBVIOUS
    <2>1. \A s \in 1..(server - 1) : ~mustAnswer(s)
      BY <1>1 DEF Tried
    <2>2. \A s \in 1..server : s = server \/ s \in 1..(server - 1)
      BY <1>4
    <2>. QED BY <2>1, <2>2
  <1> HIDE DEF first
  <1>7. CASE server < NumServers
    <2>1. at' = "start" /\ server' = server + 1 /\ leg' = firstLeg[client] /\ err' = err
      BY <1>7 DEF Fail
    <2>2. Kinds'
      BY <1>1, <1>2, <1>3, <1>4, <1>5, <1>7, <2>1 DEF Kinds
    <2>3. Clock'
      BY <1>1, <1>2, <1>3, <2>1 DEF Clock
    <2>4. Tried'
      <3>1. server' - 1 = server /\ server' # 1
        BY <1>4, <2>1
      <3>. QED BY <1>2, <1>3, <1>5, <1>6, <2>1, <3>1 DEF Tried
    <2>5. Result'
      BY <2>1 DEF Result
    <2>. QED BY <2>2, <2>3, <2>4, <2>5 DEF CallInvariant
  <1>8. CASE ~(server < NumServers)
    <2>1. at' = "returned" /\ err' = {"ErrAllServersFailed"} \cup first.err
          /\ server' = server /\ leg' = leg
      BY <1>8 DEF Fail, first
    <2>2. server = NumServers
      BY <1>4, <1>8
    <2>3. err' \subseteq Sentinel /\ err' # {} /\ reply.server = 0
      BY <1>1, <1>5, <2>1 DEF Kinds, Sentinel
    <2>4. Kinds'
      BY <1>1, <1>2, <1>3, <1>4, <1>5, <2>1, <2>3 DEF Kinds
    <2>5. Clock'
      BY <1>1, <1>2, <1>3, <2>1, <2>2 DEF Clock
    <2>6. Tried'
      BY <1>1, <1>2, <1>3, <1>5, <2>1 DEF Tried
    <2>7. Result'
      BY <1>2, <1>3, <1>4, <1>5, <1>6, <2>1, <2>2, <2>3 DEF Result
    <2>. QED BY <2>4, <2>5, <2>6, <2>7 DEF CallInvariant
  <1>. QED BY <1>7, <1>8

\* An answer on the server's last leg is the one to return.
LEMMA ReturnKeeps ==
  ASSUME CallInvariant, NEW parses \in BOOLEAN, Return(parses), at = "exchange",
         leg = lastLeg(server), mayAnswer(server),
         parses <=> \/ ending(server) \in {"good", "truncated", "late"}
                    \/ client = "doh" /\ ending(server) = "otherid"
  PROVE  CallInvariant'
PROOF
  <1>1. Kinds /\ Clock /\ Tried
    BY DEF CallInvariant
  <1>2. /\ UNCHANGED fixed /\ now' = now /\ cancelledAt' = cancelledAt /\ server' = server
        /\ leg' = leg /\ since' = since /\ firstErr' = firstErr /\ at' = "returned"
        /\ reply' = [server |-> server, leg |-> leg]
        /\ err' = IF parses THEN {} ELSE {"ErrResolverResponse"}
    BY DEF Return
  <1>3. /\ client' = client /\ behaviour' = behaviour /\ ctxDeadline' = ctxDeadline
        /\ NumServers' = NumServers /\ CtxEnded' = CtxEnded
        /\ \A s : /\ lastLeg(s)' = lastLeg(s) /\ ending(s)' = ending(s)
                  /\ mustAnswer(s)' = mustAnswer(s) /\ mayAnswer(s)' = mayAnswer(s)
                  /\ says(s)' = says(s)
    BY <1>2, SameServers DEF CtxEnded
  <1>4. NumServers \in Nat /\ server \in 1..NumServers /\ leg \in Leg
    BY <1>1, Servers DEF Kinds
  <1>5. reply'.server = server /\ reply'.leg = leg
    BY <1>2
  <1>6. Kinds'
    <2>1. err' \subseteq Sentinel
      BY <1>2 DEF Sentinel
    <2>2. reply' \in [server : Nat, leg : Leg \cup {"none"}] /\ reply'.server # 0
      BY <1>2, <1>4
    <2>. QED BY <1>1, <1>2, <1>3, <1>4, <2>1, <2>2 DEF Kinds
  <1>7. now <= StartBy(NumServers + 1)
    <2>1. StartBy(server) \in Nat /\ StartBy(server + 1) = StartBy(server) + Share
      BY <1>4, Shares
    <2>2. now <= StartBy(server + 1)
      BY <1>1, <2>1, Times DEF Clock, Kinds
    <2>3. StartBy(server + 1) <= StartBy(NumServers + 1) /\ StartBy(NumServers + 1) \in Nat
      BY <1>4, SharesGrow, Shares
    <2>. QED BY <1>1, <2>1, <2>2, <2>3, Times DEF Kinds
  <1>8. Clock'
    BY <1>1, <1>2, <1>3, <1>7 DEF Clock
  <1>9. Tried'
    BY <1>1, <1>2, <1>3 DEF Tried
  <1>10. Result'
    <2>1. \A s \in 1..(server - 1) : ~mustAnswer(s)
      BY <1>1 DEF Tried
    <2>2. (err' = {}) <=> parses
      BY <1>2
    <2>. QED BY <1>2, <1>3, <1>4, <1>5, <2>1, <2>2 DEF Result
  <1>. QED BY <1>6, <1>8, <1>9, <1>10 DEF CallInvariant

-----------------------------------------------------------------------------
\* How an attempt ends: with a reason to fail, or with an answer to return.

FailsForAReason ==
  \E e \in SUBSET Sentinel :
    /\ at \in {"dial", "exchange"} /\ now <= StartBy(server + 1)
    /\ CtxEnded \/ (~mustAnswer(server) /\ e \ Umbrellas = says(server))
    /\ Fail(e)

Answers ==
  \E parses \in BOOLEAN :
    /\ at = "exchange" /\ leg = lastLeg(server) /\ mayAnswer(server)
    /\ parses <=> \/ ending(server) \in {"good", "truncated", "late"}
                  \/ client = "doh" /\ ending(server) = "otherid"
    /\ Return(parses)

\* The umbrella of a package alone says nothing of the server.
LEMMA Wrapped ==
  ASSUME Kinds, NEW cause
  PROVE  wrap(cause) \in SUBSET Sentinel /\ wrap(cause) \ Umbrellas = {}
PROOF
  BY Servers DEF wrap, umbrella, Sentinel, Umbrellas

\* Attempts end within the server's share of the time.
LEMMA AttemptInTime ==
  ASSUME Kinds, Clock, at \in {"dial", "exchange"}
  PROVE  now <= StartBy(server + 1)
PROOF
  <1>1. StartBy(server) \in Nat /\ StartBy(server + 1) = StartBy(server) + Share
    BY Shares DEF Kinds
  <1>2. now <= since + Share /\ since <= StartBy(server)
    BY Times DEF Clock, Kinds
  <1>. QED BY <1>1, <1>2, Times DEF Kinds

\* A timer that runs out before the context ends was waited for.
LEMMA DialFailedCase ==
  ASSUME CallInvariant, DialFailed
  PROVE  FailsForAReason
PROOF
  <1>1. Kinds /\ Clock /\ at = "dial" /\ Fail(wrap("dial"))
    BY DEF CallInvariant, DialFailed
  <1>2. now <= StartBy(server + 1)
    BY <1>1, AttemptInTime
  <1>3. CtxEnded \/ (~mustAnswer(server) /\ wrap("dial") \ Umbrellas = says(server))
    <2> SUFFICES ASSUME ~CtxEnded
                 PROVE  ~mustAnswer(server) /\ wrap("dial") \ Umbrellas = says(server)
      OBVIOUS
    <2>1. ~connects
      <3> SUFFICES ASSUME connects PROVE FALSE
        OBVIOUS
      <3>1. now = since /\ dialExpired
        BY <1>1 DEF Clock, DialFailed
      <3>2. deadline = since + Timeout \/ deadline = ctxDeadline
        BY DEF deadline, Earlier
      <3>3. ~(now >= ctxDeadline)
        BY DEF CtxEnded
      <3>. QED BY <1>1, <3>1, <3>2, <3>3, Times DEF dialExpired, Kinds
    <2>2. ending(server) \in {"refused", "blackhole"}
      BY <1>1, <2>1, NotConnected
    <2>3. ~mustAnswer(server)
      BY <2>2 DEF mustAnswer
    <2>4. says(server) = {}
      BY <2>2 DEF says
    <2>. QED BY <1>1, <2>3, <2>4, Wrapped
  <1>. QED BY <1>1, <1>2, <1>3, Wrapped DEF FailsForAReason

LEMMA ExchangeFailedCase ==
  ASSUME CallInvariant, ExchangeFailed
  PROVE  FailsForAReason
PROOF
  <1>1. Kinds /\ Clock /\ at = "exchange" /\ Fail(wrap("read"))
    BY DEF CallInvariant, ExchangeFailed
  <1>2. now <= StartBy(server + 1)
    BY <1>1, AttemptInTime
  <1>3. CtxEnded \/ (~mustAnswer(server) /\ wrap("read") \ Umbrellas = says(server))
    <2> SUFFICES ASSUME ~CtxEnded
                 PROVE  ~mustAnswer(server) /\ wrap("read") \ Umbrellas = says(server)
      OBVIOUS
    <2>1. doing \in {"refused", "blackhole", "silent", "late"}
      <3> SUFFICES ASSUME doing \notin {"refused", "blackhole", "silent", "late"} PROVE FALSE
        OBVIOUS
      <3>1. now = since /\ readExpired
        BY <1>1 DEF Clock, ExchangeFailed
      <3>2. deadline = since + Timeout \/ deadline = ctxDeadline
        BY DEF deadline, Earlier
      <3>3. ~(now >= ctxDeadline)
        BY DEF CtxEnded
      <3>. QED BY <1>1, <3>1, <3>2, <3>3, Times DEF readExpired, Kinds
    <2>2. ending(server) \in {"refused", "blackhole", "silent", "late"}
      BY <1>1, <2>1, OnLastLeg
    <2>3. ~mustAnswer(server)
      BY <2>2 DEF mustAnswer
    <2>4. says(server) = {}
      BY <2>2 DEF says
    <2>. QED BY <1>1, <2>3, <2>4, Wrapped
  <1>. QED BY <1>1, <1>2, <1>3, Wrapped DEF FailsForAReason

\* A message over HTTP: its status and its type are looked at, nothing else.
LEMMA ReceiveHTTPCase ==
  ASSUME CallInvariant, ReceiveHTTP
  PROVE  FailsForAReason \/ Answers
PROOF
  <1>1. Kinds /\ Clock /\ at = "exchange" /\ arrived /\ leg = "http"
    BY DEF CallInvariant, ReceiveHTTP
  <1>2. client = "doh"
    BY <1>1, Servers DEF Kinds
  <1>3. leg = lastLeg(server) /\ doing = ending(server)
    BY <1>1, OnLastLeg
  <1>4. NumServers \in Nat /\ server \in 1..NumServers
    BY <1>1, Servers DEF Kinds
  <1>5. doing \in Doing
    BY <1>1, <1>4, Servers DEF doing
  <1>6. now <= StartBy(server + 1)
    BY <1>1, AttemptInTime
  <1>7. CASE doing \in DOMAIN httpErrors
    <2>1. Fail({httpErrors[doing]}) /\ doing \in {"status", "ctype"}
      BY <1>7 DEF ReceiveHTTP, httpErrors
    <2>2. ~mustAnswer(server)
      BY <1>2, <1>3, <2>1 DEF mustAnswer
    <2>3. {httpErrors[doing]} \in SUBSET Sentinel /\ {httpErrors[doing]} \ Umbrellas = says(server)
      <3>1. CASE doing = "status"
        <4>1. httpErrors[doing] = "ErrUnexpectedStatus"
          BY <3>1 DEF httpErrors
        <4>2. says(server) = {"ErrUnexpectedStatus"}
          BY <1>3, <3>1 DEF says
        <4>. QED BY <4>1, <4>2 DEF Sentinel, Umbrellas
      <3>2. CASE doing = "ctype"
        <4>1. httpErrors[doing] = "ErrUnexpectedContentType"
          BY <3>2 DEF httpErrors
        <4>2. says(server) = {"ErrUnexpectedContentType"}
          BY <1>3, <3>2 DEF says
        <4>. QED BY <4>1, <4>2 DEF Sentinel, Umbrellas
      <3>. QED BY <2>1, <3>1, <3>2
    <2>. QED BY <1>1, <1>6, <2>1, <2>2, <2>3 DEF FailsForAReason
  <1>8. CASE doing \notin DOMAIN httpErrors
    <2>1. Return(doing \notin {"garbled", "short"}) /\ doing \notin {"status", "ctype"}
      BY <1>8 DEF ReceiveHTTP, httpErrors
    <2>2. doing \in {"good", "garbled", "truncated", "short", "otherid", "late"}
      BY <1>1, <1>5, <2>1 DEF arrived, Doing
    <2>3. mayAnswer(server)
      BY <1>2, <1>3, <2>2 DEF mayAnswer, mustAnswer
    <2>4. (doing \notin {"garbled", "short"})
            <=> \/ ending(server) \in {"good", "truncated", "late"}
                \/ client = "doh" /\ ending(server) = "otherid"
      BY <1>2, <1>3, <2>2
    <2>. QED BY <1>1, <1>3, <2>1, <2>3, <2>4 DEF Answers
  <1>. QED BY <1>7, <1>8

\* A datagram or a framed message: its header and its ID are.
LEMMA ReceiveMessageCase ==
  ASSUME CallInvariant, ReceiveMessage
  PROVE  FailsForAReason \/ Answers
PROOF
  <1>1. Kinds /\ Clock /\ at = "exchange" /\ arrived /\ leg # "http"
    BY DEF CallInvariant, ReceiveMessage
  <1>2. client # "doh" /\ client \in {"auth", "dot", "doh"}
    BY <1>1, Servers DEF Kinds
  <1>3. doing # "truncated" \/ leg # "udp"
    BY DEF ReceiveMessage
  <1>4. leg = lastLeg(server) /\ doing = ending(server)
    BY <1>1, <1>3, OnLastLeg
  <1>5. now <= StartBy(server + 1)
    BY <1>1, AttemptInTime
  <1>6. ASSUME NEW e \in {"ErrResponseTooShort", "ErrIDMismatch"}
        PROVE  badReply(e) \in SUBSET Sentinel /\ badReply(e) \ Umbrellas = {e}
    BY <1>1, Wrapped DEF badReply, Sentinel, Umbrellas
  <1>7. CASE doing = "short" /\ Fail(badReply("ErrResponseTooShort"))
    <2>1. ~mustAnswer(server) /\ says(server) = {"ErrResponseTooShort"}
      BY <1>2, <1>4, <1>7 DEF mustAnswer, says
    <2>2. badReply("ErrResponseTooShort") \in SUBSET Sentinel
          /\ badReply("ErrResponseTooShort") \ Umbrellas = says(server)
      BY <1>6, <2>1
    <2>. QED BY <1>1, <1>5, <1>7, <2>1, <2>2 DEF FailsForAReason
  <1>8. CASE doing = "otherid" /\ Fail(badReply("ErrIDMismatch"))
    <2>1. ~mustAnswer(server) /\ says(server) = {"ErrIDMismatch"}
      BY <1>2, <1>4, <1>8 DEF mustAnswer, says
    <2>2. badReply("ErrIDMismatch") \in SUBSET Sentinel
          /\ badReply("ErrIDMismatch") \ Umbrellas = says(server)
      BY <1>6, <2>1
    <2>. QED BY <1>1, <1>5, <1>8, <2>1, <2>2 DEF FailsForAReason
  <1>9. CASE doing \in {"good", "late", "garbled", "truncated"} /\ Return(doing # "garbled")
    <2>1. mayAnswer(server)
      BY <1>4, <1>9 DEF mayAnswer, mustAnswer
    <2>2. (doing # "garbled")
            <=> \/ ending(server) \in {"good", "truncated", "late"}
                \/ client = "doh" /\ ending(server) = "otherid"
      BY <1>2, <1>4, <1>9
    <2>. QED BY <1>1, <1>4, <1>9, <2>1, <2>2 DEF Answers
  <1>. QED BY <1>7, <1>8, <1>9 DEF ReceiveMessage

\* All the ways a call goes on.
LEMMA StepCases ==
  ASSUME CallInvariant, [Next]_vars
  PROVE  \/ FailsForAReason \/ Answers
         \/ NoServers \/ Begin \/ Dial \/ Truncated \/ Tick \/ Cancel
         \/ UNCHANGED vars
PROOF
  BY DialFailedCase, ExchangeFailedCase, ReceiveHTTPCase, ReceiveMessageCase
  DEF Next, Resolve, Returned

-----------------------------------------------------------------------------
\* The other steps.

LEMMA NoServersKeeps ==
  ASSUME CallInvariant, NoServers
  PROVE  CallInvariant'
PROOF
  <1>1. Kinds /\ Clock /\ Tried /\ at = "start" /\ NumServers = 0
    BY DEF CallInvariant, NoServers
  <1>2. /\ UNCHANGED fixed /\ now' = now /\ cancelledAt' = cancelledAt /\ server' = server
        /\ leg' = leg /\ since' = since /\ firstErr' = firstErr /\ reply' = reply
        /\ at' = "returned" /\ err' = {"ErrNoServers"}
    BY DEF NoServers
  <1>3. /\ client' = client /\ behaviour' = behaviour /\ ctxDeadline' = ctxDeadline
        /\ NumServers' = NumServers /\ CtxEnded' = CtxEnded
        /\ \A s : mustAnswer(s)' = mustAnswer(s) /\ says(s)' = says(s)
    BY <1>2, SameServers DEF CtxEnded
  <1>4. Kinds'
    BY <1>1, <1>2, <1>3 DEF Kinds, Sentinel
  <1>5. Clock'
    BY <1>1, <1>2, <1>3 DEF Clock, Kinds
  <1>6. Tried'
    BY <1>1, <1>2, <1>3 DEF Tried
  <1>7. Result'
    BY <1>1, <1>2, <1>3 DEF Result, Kinds
  <1>. QED BY <1>4, <1>5, <1>6, <1>7 DEF CallInvariant

LEMMA BeginKeeps ==
  ASSUME CallInvariant, Begin
  PROVE  CallInvariant'
PROOF
  <1>1. Kinds /\ Clock /\ Tried /\ at = "start"
    BY DEF CallInvariant, Begin
  <1>2. /\ UNCHANGED fixed /\ now' = now /\ cancelledAt' = cancelledAt /\ server' = server
        /\ leg' = leg /\ firstErr' = firstErr /\ reply' = reply /\ err' = err
        /\ at' = "dial" /\ since' = now /\ server <= NumServers
    BY DEF Begin
  <1>3. /\ client' = client /\ behaviour' = behaviour /\ ctxDeadline' = ctxDeadline
        /\ NumServers' = NumServers /\ CtxEnded' = CtxEnded
        /\ \A s : mustAnswer(s)' = mustAnswer(s) /\ says(s)' = says(s)
    BY <1>2, SameServers DEF CtxEnded
  <1>4. NumServers # 0
    BY <1>1, <1>2 DEF Kinds
  <1>5. Kinds'
    BY <1>1, <1>2, <1>3, <1>4 DEF Kinds
  <1>6. Clock'
    BY <1>1, <1>2, <1>3, Times DEF Clock, Kinds
  <1>7. Tried'
    BY <1>1, <1>2, <1>3 DEF Tried
  <1>8. Result'
    BY <1>2 DEF Result
  <1>. QED BY <1>5, <1>6, <1>7, <1>8 DEF CallInvariant

\* A connection is made only while the context lasts: the servers before
\* have been asked in earnest.
LEMMA DialKeeps ==
  ASSUME CallInvariant, Dial
  PROVE  CallInvariant'
PROOF
  <1>1. Kinds /\ Clock /\ Tried /\ at = "dial" /\ connects /\ ~CtxEnded
    BY DEF CallInvariant, Dial
  <1>2. /\ UNCHANGED fixed /\ now' = now /\ cancelledAt' = cancelledAt /\ server' = server
        /\ leg' = leg /\ since' = since /\ firstErr' = firstErr /\ reply' = reply /\ err' = err
        /\ at' = "exchange"
    BY DEF Dial
  <1>3. /\ client' = client /\ behaviour' = behaviour /\ ctxDeadline' = ctxDeadline
        /\ NumServers' = NumServers /\ CtxEnded' = CtxEnded
        /\ \A s : mustAnswer(s)' = mustAnswer(s) /\ says(s)' = says(s)
    BY <1>2, SameServers DEF CtxEnded
  <1>4. Kinds'
    BY <1>1, <1>2, <1>3 DEF Kinds
  <1>5. now = since /\ since <= cancelledAt
    BY <1>1, Deadlines, Times DEF Clock, Kinds, CtxEnded
  <1>6. Clock'
    BY <1>1, <1>2, <1>3, <1>5, Times DEF Clock, Kinds
  <1>7. Tried'
    BY <1>1, <1>2, <1>3 DEF Tried
  <1>8. Result'
    BY <1>2 DEF Result
  <1>. QED BY <1>4, <1>6, <1>7, <1>8 DEF CallInvariant

\* A truncated datagram has taken no time.
LEMMA TruncatedKeeps ==
  ASSUME CallInvariant, Truncated
  PROVE  CallInvariant'
PROOF
  <1>1. Kinds /\ Clock /\ Tried /\ at = "exchange" /\ leg = "udp" /\ doing = "truncated"
    BY DEF CallInvariant, Truncated
  <1>2. /\ UNCHANGED fixed /\ now' = now /\ cancelledAt' = cancelledAt /\ server' = server
        /\ leg' = "tcp" /\ since' = since /\ firstErr' = firstErr /\ reply' = reply /\ err' = err
        /\ at' = "start"
    BY DEF Truncated
  <1>3. /\ client' = client /\ behaviour' = behaviour /\ ctxDeadline' = ctxDeadline
        /\ NumServers' = NumServers /\ CtxEnded' = CtxEnded
        /\ \A s : mustAnswer(s)' = mustAnswer(s) /\ says(s)' = says(s)
    BY <1>2, SameServers DEF CtxEnded
  <1>4. client = "auth" /\ behaviour[server]["udp"] = "truncated"
    BY <1>1, Servers DEF Kinds, doing
  <1>5. Kinds'
    BY <1>1, <1>2, <1>3, <1>4 DEF Kinds
  <1>6. Clock'
    BY <1>1, <1>2, <1>3 DEF Clock
  <1>7. Tried'
    BY <1>1, <1>2, <1>3 DEF Tried
  <1>8. Result'
    BY <1>2 DEF Result
  <1>. QED BY <1>5, <1>6, <1>7, <1>8 DEF CallInvariant

LEMMA CancelKeeps ==
  ASSUME CallInvariant, Cancel
  PROVE  CallInvariant'
PROOF
  <1>1. Kinds /\ Clock /\ Tried /\ at # "returned"
    BY DEF CallInvariant, Cancel
  <1>2. /\ UNCHANGED fixed /\ now' = now /\ cancelledAt' = now /\ server' = server
        /\ leg' = leg /\ since' = since /\ firstErr' = firstErr /\ reply' = reply /\ err' = err
        /\ at' = at /\ cancelledAt = Never
    BY DEF Cancel
  <1>3. /\ client' = client /\ behaviour' = behaviour /\ ctxDeadline' = ctxDeadline
        /\ NumServers' = NumServers /\ connects' = connects /\ doing' = doing
        /\ \A s : mustAnswer(s)' = mustAnswer(s) /\ says(s)' = says(s)
    BY <1>2, SameServers DEF connects, doing
  <1>4. CtxEnded => CtxEnded'
    BY <1>2, <1>3 DEF CtxEnded
  <1>5. Kinds'
    BY <1>1, <1>2, <1>3 DEF Kinds
  <1>6. Clock'
    BY <1>1, <1>2, <1>3, Times DEF Clock, Kinds
  <1>7. Tried'
    BY <1>1, <1>2, <1>3, <1>4 DEF Tried
  <1>8. Result'
    BY <1>1, <1>2 DEF Result
  <1>. QED BY <1>5, <1>6, <1>7, <1>8 DEF CallInvariant

\* Time passes while a timer runs.
LEMMA TickKeeps ==
  ASSUME CallInvariant, Tick
  PROVE  CallInvariant'
PROOF
  <1>1. Kinds /\ Clock /\ Tried /\ at \in {"dial", "exchange"}
    BY DEF CallInvariant, Tick
  <1>2. /\ UNCHANGED fixed /\ now' = now + 1 /\ cancelledAt' = cancelledAt /\ server' = server
        /\ leg' = leg /\ since' = since /\ firstErr' = firstErr /\ reply' = reply /\ err' = err
        /\ at' = at
    BY DEF Tick
  <1>3. /\ client' = client /\ behaviour' = behaviour /\ ctxDeadline' = ctxDeadline
        /\ NumServers' = NumServers /\ connects' = connects /\ doing' = doing
        /\ \A s : mustAnswer(s)' = mustAnswer(s) /\ says(s)' = says(s)
    BY <1>2, SameServers DEF connects, doing
  <1>4. CtxEnded => CtxEnded'
    BY <1>1, <1>2, <1>3, Deadlines DEF CtxEnded, Kinds
  <1>5. Kinds'
    BY <1>1, <1>2, <1>3 DEF Kinds
  <1>6. deadline = Earlier(since + Timeout, ctxDeadline) /\ ctxDeadline \in Nat /\ ctxDeadline <= Never
    BY <1>1, Deadlines DEF deadline
  <1>7. CASE at = "dial"
    <2>1. ~connects /\ ~dialExpired
      BY <1>7 DEF Tick
    <2>2. now < ctxDeadline /\ cancelledAt = Never /\ now < since + OSDialLimit
      BY <1>1, <1>6, <2>1, Times DEF dialExpired, CtxEnded, Kinds
    <2>3. client # "auth" => now < since + Timeout
      BY <1>1, <1>6, <2>1, Times DEF dialExpired, Kinds, Earlier
    <2>4. Clock'
      BY <1>1, <1>2, <1>3, <1>6, <1>7, <2>1, <2>2, <2>3, Times DEF Clock, Kinds
    <2>5. Tried'
      BY <1>1, <1>2, <1>3, <1>4, <1>7 DEF Tried
    <2>. QED BY <1>2, <1>5, <1>7, <2>4, <2>5 DEF CallInvariant, Result
  <1>8. CASE at = "exchange"
    <2>1. ~arrived /\ doing # "refused" /\ ~readExpired
      BY <1>8 DEF Tick
    <2>2. now < ctxDeadline /\ now < since + Timeout
      BY <1>1, <1>6, <2>1, Times DEF readExpired, Kinds, Earlier
    <2>3. doing \in {"blackhole", "silent", "late"}
      BY <2>1 DEF arrived
    <2>4. now' <= cancelledAt + Timeout
      BY <1>1, <1>2, <1>8, <2>2, Times DEF Clock, Kinds
    <2>5. Clock'
      BY <1>1, <1>2, <1>3, <1>6, <1>8, <2>2, <2>3, <2>4, Times DEF Clock, Kinds
    <2>6. Tried'
      BY <1>1, <1>2, <1>3, <1>4, <1>8 DEF Tried
    <2>. QED BY <1>2, <1>5, <1>8, <2>5, <2>6 DEF CallInvariant, Result
  <1>. QED BY <1>1, <1>7, <1>8

LEMMA StutterKeeps ==
  ASSUME CallInvariant, UNCHANGED vars
  PROVE  CallInvariant'
PROOF
  <1>1. /\ UNCHANGED fixed /\ now' = now /\ cancelledAt' = cancelledAt /\ server' = server
        /\ leg' = leg /\ since' = since /\ firstErr' = firstErr /\ reply' = reply /\ err' = err
        /\ at' = at
    BY DEF vars, fixed
  <1>2. /\ client' = client /\ behaviour' = behaviour /\ ctxDeadline' = ctxDeadline
        /\ NumServers' = NumServers /\ CtxEnded' = CtxEnded /\ connects' = connects /\ doing' = doing
        /\ \A s : /\ lastLeg(s)' = lastLeg(s) /\ ending(s)' = ending(s)
                  /\ mustAnswer(s)' = mustAnswer(s) /\ mayAnswer(s)' = mayAnswer(s)
                  /\ says(s)' = says(s)
    BY <1>1, SameServers DEF CtxEnded, connects, doing
  <1>3. Kinds'
    BY <1>1, <1>2 DEF CallInvariant, Kinds
  <1>4. Clock' /\ Tried'
    BY <1>1, <1>2 DEF CallInvariant, Clock, Tried
  <1>5. Result'
    BY <1>1, <1>2 DEF CallInvariant, Result
  <1>. QED BY <1>3, <1>4, <1>5 DEF CallInvariant

LEMMA CallKeeps == CallInvariant /\ [Next]_vars => CallInvariant'
PROOF
  <1> SUFFICES ASSUME CallInvariant, [Next]_vars PROVE CallInvariant'
    OBVIOUS
  <1>1. CASE FailsForAReason
    BY <1>1, FailKeeps DEF FailsForAReason
  <1>2. CASE Answers
    BY <1>2, ReturnKeeps DEF Answers
  <1>. QED BY <1>1, <1>2, StepCases, NoServersKeeps, BeginKeeps, DialKeeps, TruncatedKeeps,
              TickKeeps, CancelKeeps, StutterKeeps

LEMMA CallSafe == Spec => []CallInvariant
PROOF
  <1>. QED BY InitCall, CallKeeps, PTL DEF Spec

-----------------------------------------------------------------------------
\* What follows.

(***************************************************************************)
(* A call of Resolve stays inside its list of servers, on a leg of its     *)
(* client, over TCP only after a truncated datagram of the same server,    *)
(* and it returns a message or an error exactly when it is over.           *)
(***************************************************************************)
THEOREM CallsTyped == Spec => []TransportTypeOK
PROOF
  <1>1. CallInvariant => TransportTypeOK
    <2> SUFFICES ASSUME CallInvariant PROVE TransportTypeOK
      OBVIOUS
    <2>1. Kinds /\ NumServers \in Nat
      BY Servers DEF CallInvariant
    <2>2. firstErr.server \in {0, 1} /\ firstErr.err \subseteq Sentinel
      BY <2>1 DEF Kinds
    <2>3. server \in 1..(NumServers + 1) /\ firstErr.server \in 0..server
      BY <2>1, <2>2 DEF Kinds
    <2>4. since \in 0..now /\ cancelledAt \in 0..now \cup {Never}
      BY <2>1 DEF Kinds
    <2>5. (reply.server # 0 \/ err # {}) <=> at = "returned"
      BY <2>1 DEF Kinds
    <2>. QED BY <2>1, <2>2, <2>3, <2>4, <2>5 DEF Kinds, TransportTypeOK
  <1>. QED BY <1>1, CallSafe, PTL

(***************************************************************************)
(* The answer is the first one a server gives in time, over TCP when its   *)
(* datagram was truncated; if there is none, the error says what was wrong *)
(* with the first server.  (QueryRaw, for every list and every timing)     *)
(***************************************************************************)
THEOREM FailoverRight == Spec => []FailoverIsReference
PROOF
  <1>1. CallInvariant => FailoverIsReference
    <2> SUFFICES ASSUME CallInvariant, at = "returned", ~CtxEnded
                 PROVE  IF reply.server # 0
                        THEN /\ reply.leg = lastLeg(reply.server) /\ mayAnswer(reply.server)
                             /\ \A s \in 1..(reply.server - 1) : ~mustAnswer(s)
                             /\ (err = {}) <=> \/ ending(reply.server) \in {"good", "truncated", "late"}
                                               \/ client = "doh" /\ ending(reply.server) = "otherid"
                        ELSE /\ \A s \in 1..NumServers : ~mustAnswer(s)
                             /\ IF NumServers = 0 THEN err = {"ErrNoServers"}
                                ELSE "ErrAllServersFailed" \in err /\ err \ Umbrellas = says(1)
      BY DEF FailoverIsReference, Umbrellas
    <2>1. CASE reply.server # 0
      BY <2>1 DEF CallInvariant, Result
    <2>2. CASE reply.server = 0 /\ NumServers = 0
      BY <2>2 DEF CallInvariant, Result
    <2>3. CASE reply.server = 0 /\ NumServers # 0
      <3>1. firstErr.server = 1 /\ err = {"ErrAllServersFailed"} \cup firstErr.err
        BY <2>3 DEF CallInvariant, Result
      <3>2. firstErr.err \ Umbrellas = says(1)
        BY <3>1 DEF CallInvariant, Tried
      <3>3. err \ Umbrellas = says(1)
        BY <3>1, <3>2 DEF Umbrellas
      <3>. QED BY <2>3, <3>1, <3>3 DEF CallInvariant, Result
    <2>. QED BY <2>1, <2>2, <2>3
  <1>. QED BY <1>1, CallSafe, PTL

(***************************************************************************)
(* A call ends with its context's deadline and within the timeout of a     *)
(* cancelled attempt, and every server has its share of the time: no wait  *)
(* is unbounded.  (SetDeadline, WithTimeout, for every timeout)            *)
(***************************************************************************)
THEOREM CallsBounded == Spec => []BoundedInTime
PROOF
  <1>1. CallInvariant => BoundedInTime
    <2> SUFFICES ASSUME CallInvariant PROVE BoundedInTime
      OBVIOUS
    <2>1. Kinds /\ Clock /\ NumServers \in Nat
      BY Servers DEF CallInvariant
    <2>2. now <= ctxDeadline /\ now <= cancelledAt + Timeout
      BY <2>1 DEF Clock
    <2>3. at \in {"dial", "exchange"} /\ now > since + Timeout =>
            leg = "tcp" /\ at = "dial" /\ now <= since + OSDialLimit
      BY <2>1, NotConnected, Times DEF Clock, Kinds
    <2>4. now <= StartBy(NumServers + 1)
      <3>1. StartBy(NumServers + 1) \in Nat /\ StartBy(server) \in Nat /\ StartBy(server + 1) \in Nat
        BY <2>1, Shares DEF Kinds
      <3>2. CASE at = "returned"
        BY <2>1, <3>2 DEF Clock
      <3>3. CASE at = "start"
        <4>1. server <= NumServers + 1
          BY <2>1 DEF Kinds
        <4>2. StartBy(server) <= StartBy(NumServers + 1)
          BY <2>1, <4>1, SharesGrow DEF Kinds
        <4>. QED BY <2>1, <3>1, <3>3, <4>2 DEF Clock, Kinds
      <3>4. CASE at \in {"dial", "exchange"}
        <4>1. server <= NumServers
          BY <2>1, <3>4 DEF Kinds
        <4>2. StartBy(server + 1) <= StartBy(NumServers + 1)
          BY <2>1, <4>1, SharesGrow DEF Kinds
        <4>3. now <= StartBy(server + 1)
          BY <2>1, <3>4, AttemptInTime
        <4>. QED BY <2>1, <3>1, <4>2, <4>3 DEF Kinds
      <3>. QED BY <2>1, <3>2, <3>3, <3>4 DEF Kinds
    <2>5. StartBy(NumServers + 1) = NumServers * (2 * Timeout + OSDialLimit)
      <3>1. StartBy(NumServers + 1) = NumServers * Share
        BY <2>1, AllShares
      <3>. QED BY Zenon, <3>1 DEF Share
    <2>. QED BY <2>2, <2>3, <2>4, <2>5 DEF BoundedInTime
  <1>. QED BY <1>1, CallSafe, PTL

-----------------------------------------------------------------------------
\* The clients are Resolvers.

\* What the verifier sees does not change without a return or the context.
LEMMA PromiseSame ==
  ASSUME UNCHANGED fixed
  PROVE  Must' = Must /\ May' = May
PROOF
  <1>1. NumServers' = NumServers /\ \A s : mustAnswer(s)' = mustAnswer(s) /\ mayAnswer(s)' = mayAnswer(s)
    BY SameServers
  <1>. QED BY <1>1 DEF Must, May

LEMMA PromiseInit == Init => Promise!Init
PROOF
  <1> SUFFICES ASSUME Init PROVE Promise!Init
    OBVIOUS
  <1>1. Must \in SUBSET May
    BY DEF Must, May, mayAnswer
  <1>2. CtxEnded \in BOOLEAN
    BY DEF CtxEnded
  <1>3. Outcome = [at |-> "pending", server |-> 0]
    BY DEF Init, Outcome
  <1>. QED BY <1>1, <1>2, <1>3 DEF Promise!Init, Promise!Pending

\* A step of the call is one of the promise, or none.
LEMMA PromiseStep ==
  ASSUME CallInvariant, [Next]_vars
  PROVE  [Promise!Next]_Promise!vars
PROOF
  <1>1. CASE UNCHANGED vars
    <2>1. UNCHANGED fixed /\ now' = now /\ cancelledAt' = cancelledAt /\ at' = at /\ reply' = reply
          /\ ctxDeadline' = ctxDeadline
      BY <1>1 DEF vars, fixed
    <2>2. Must' = Must /\ May' = May /\ CtxEnded' = CtxEnded /\ Outcome' = Outcome
      BY <2>1, PromiseSame DEF CtxEnded, Outcome
    <2>. QED BY <2>2 DEF Promise!vars
  <1>2. CASE Begin \/ Dial \/ Truncated
    <2>1. UNCHANGED fixed /\ now' = now /\ cancelledAt' = cancelledAt /\ at # "returned"
          /\ at' # "returned" /\ reply' = reply
      BY <1>2 DEF Begin, Dial, Truncated
    <2>2. Must' = Must /\ May' = May /\ CtxEnded' = CtxEnded /\ Outcome' = Outcome
      BY <2>1, PromiseSame, SameServers DEF CtxEnded, Outcome
    <2>. QED BY <2>2 DEF Promise!vars
  <1>3. CASE Tick \/ Cancel
    <2>1. UNCHANGED fixed /\ at # "returned" /\ at' # "returned" /\ reply' = reply
      BY <1>3 DEF Tick, Cancel
    <2>2. Must' = Must /\ May' = May /\ Outcome' = Outcome
      BY <2>1, PromiseSame DEF Outcome
    <2>3. CtxEnded => CtxEnded'
      BY <1>3, <2>1, SameServers, Deadlines DEF Tick, Cancel, CtxEnded, CallInvariant, Kinds
    <2>4. (CtxEnded' = CtxEnded) \/ (~CtxEnded /\ CtxEnded' = TRUE)
      BY <2>3 DEF CtxEnded
    <2>. QED BY <2>2, <2>4 DEF Promise!vars, Promise!Next, Promise!EndContext
  <1>4. CASE NoServers
    <2>1. UNCHANGED fixed /\ now' = now /\ cancelledAt' = cancelledAt /\ reply' = reply
          /\ at = "start" /\ at' = "returned" /\ NumServers = 0
      BY <1>4 DEF NoServers
    <2>2. reply.server = 0
      BY <2>1 DEF CallInvariant, Kinds
    <2>3. Outcome = [at |-> "pending", server |-> 0] /\ Outcome' = [at |-> "failed", server |-> 0]
      BY <2>1, <2>2 DEF Outcome
    <2>4. Must' = Must /\ May' = May /\ CtxEnded' = CtxEnded /\ Must = {}
      <3>1. Must = {}
        BY <2>1 DEF Must
      <3>. QED BY <2>1, <3>1, PromiseSame, SameServers DEF CtxEnded
    <2>. QED BY <2>3, <2>4 DEF Promise!Next, Promise!Fail, Promise!Pending, Promise!Failed
  <1>5. CASE FailsForAReason
    <2>1. PICK e \in SUBSET Sentinel :
            /\ at \in {"dial", "exchange"} /\ now <= StartBy(server + 1)
            /\ CtxEnded \/ (~mustAnswer(server) /\ e \ Umbrellas = says(server))
            /\ Fail(e)
      BY <1>5 DEF FailsForAReason
    <2>2. /\ UNCHANGED fixed /\ now' = now /\ cancelledAt' = cancelledAt /\ reply' = reply
          /\ ctxDeadline' = ctxDeadline /\ NumServers' = NumServers
      BY <2>1, SameServers DEF Fail
    <2>3. Must' = Must /\ May' = May /\ CtxEnded' = CtxEnded
      BY <2>2, PromiseSame DEF CtxEnded
    <2>4. reply.server = 0 /\ CallInvariant'
      BY <2>1, CallKeeps DEF CallInvariant, Kinds
    <2>5. Outcome = [at |-> "pending", server |-> 0]
      BY <2>1, <2>4 DEF Outcome
    <2>6. CASE at' # "returned"
      BY <2>2, <2>3, <2>4, <2>5, <2>6 DEF Outcome, Promise!vars
    <2>7. CASE at' = "returned"
      <3>1. Outcome' = [at |-> "failed", server |-> 0]
        BY <2>2, <2>4, <2>7 DEF Outcome
      <3>2. CtxEnded' \/ \A s \in 1..NumServers' : ~(mustAnswer(s)')
        BY <2>2, <2>4, <2>7 DEF CallInvariant, Result
      <3>3. CtxEnded \/ Must = {}
        BY <2>2, <2>3, <3>2, SameServers DEF Must
      <3>. QED BY <2>3, <2>5, <3>1, <3>3
               DEF Promise!Next, Promise!Fail, Promise!Pending, Promise!Failed
    <2>. QED BY <2>6, <2>7
  <1>6. CASE Answers
    <2>1. PICK parses \in BOOLEAN :
            /\ at = "exchange" /\ leg = lastLeg(server) /\ mayAnswer(server)
            /\ Return(parses)
      BY <1>6 DEF Answers
    <2>2. /\ UNCHANGED fixed /\ now' = now /\ cancelledAt' = cancelledAt
          /\ ctxDeadline' = ctxDeadline /\ at' = "returned" /\ reply'.server = server
      BY <2>1, SameServers DEF Return
    <2>3. Must' = Must /\ May' = May /\ CtxEnded' = CtxEnded
      BY <2>2, PromiseSame DEF CtxEnded
    <2>4. reply.server = 0 /\ NumServers \in Nat /\ server \in 1..NumServers
      BY <2>1, Servers DEF CallInvariant, Kinds
    <2>5. Outcome = [at |-> "pending", server |-> 0] /\ Outcome' = [at |-> "answered", server |-> server]
      BY <2>1, <2>2, <2>4 DEF Outcome
    <2>6. server \in May
      BY <2>1, <2>4 DEF May
    <2>7. \A t \in Must : server <= t
      <3>1. \A s \in 1..(server - 1) : ~mustAnswer(s)
        BY <2>1 DEF CallInvariant, Tried
      <3>2. ASSUME NEW t \in Must PROVE server <= t
        <4>1. t \in 1..NumServers /\ mustAnswer(t)
          BY DEF Must
        <4>2. t \notin 1..(server - 1)
          BY <3>1, <4>1
        <4>. QED BY <2>4, <4>1, <4>2
      <3>. QED BY <3>2
    <2>. QED BY <2>3, <2>5, <2>6, <2>7
             DEF Promise!Next, Promise!Answer, Promise!Pending, Promise!Answered
  <1>. QED BY <1>1, <1>2, <1>3, <1>4, <1>5, <1>6, StepCases

(***************************************************************************)
(* resolver/auth, resolver/dot and resolver/doh implement the promise the  *)
(* verifier is built on: one return, with the first answer there is, or an *)
(* error for a reason.                                                     *)
(***************************************************************************)
THEOREM ClientsAreResolvers == Spec => ImplementsResolver
PROOF
  <1>1. CallInvariant /\ [Next]_vars => [Promise!Next]_Promise!vars
    BY PromiseStep
  <1>. QED BY <1>1, PromiseInit, CallSafe, PTL DEF Spec, ImplementsResolver, Promise!Spec
=============================================================================
