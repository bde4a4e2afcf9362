---------------------------- MODULE MCTransport ----------------------------
(***************************************************************************)
(* The three clients over lists of up to two servers that behave in every  *)
(* way Transport tells apart, with and without a deadline on the context,  *)
(* which may be cancelled at any moment.                                   *)
(***************************************************************************)
EXTENDS Failover

Stream == {"good", "garbled", "short", "otherid", "refused", "blackhole", "silent", "late"}

\* A server whose UDP truncates shows what it does over TCP; the others are
\* met over UDP alone, and lend their TLS and HTTP to the replies that only
\* those see.
Server ==
  {[udp |-> "truncated", tcp |-> s, tls |-> s, http |-> s] : s \in Stream}
  \cup {[udp |-> u, tcp |-> "silent", tls |-> "truncated", http |-> h] :
          u \in {"good", "short", "otherid"}, h \in {"status", "ctype"}}
  \cup {[udp |-> u, tcp |-> "good", tls |-> "good", http |-> "truncated"] :
          u \in {"garbled", "refused", "silent", "late"}}

MCBehaviours == {<< >>} \cup {<<a>> : a \in Server} \cup {<<a, b>> : a, b \in Server}

MCNever == 100
=============================================================================
