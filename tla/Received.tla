------------------------------ MODULE Received ------------------------------
(***************************************************************************)
(* A record's RDATA on its way through the program.  It comes in a message *)
(* (ToResponse of the resolvers) or as octets taken over as they are       *)
(* (NewResourceRecordFromRData) or as zone text, and it is written again,  *)
(* for a signature or a digest, with or without handlers registered.       *)
(***************************************************************************)
EXTENDS Encoders

CONSTANT Jobs  \* [from, type, msg, start, end, value]

VARIABLES
  job,
  at,        \* "message", "record", "written", or "refused", "unwritable", "panic"
  value,     \* the record's Value
  received,  \* its rdata: {} for nil
  reg,       \* the types with a handler when it was written
  handlers,  \* what HandlerFrom returned: {} for nil
  octets     \* what WireBody wrote

vars == <<job, at, value, received, reg, handlers, octets>>

Init ==
  /\ job \in Jobs
  /\ at = "message" /\ value = << >> /\ received = {} /\ reg = {} /\ handlers = {} /\ octets = << >>

rdata == slice(job.msg, job.start, job.end)

\* decodeNSEC, alone of the decoders, may slice out of range.
panics == job.type = "NSEC" /\ nsecOutOfRange(job.msg, job.start, job.end)

texts == RDataToString(job.msg, job.type, job.start, job.end)

toResourceRecord ==
  /\ at = "message" /\ job.from = "message" /\ ~panics /\ texts # {}
  /\ at' = "record" /\ value' \in texts /\ received' = {rdata}
  /\ UNCHANGED <<job, reg, handlers, octets>>

toResourceRecordFails ==
  /\ at = "message" /\ job.from = "message" /\ (panics \/ texts = {})
  /\ at' = IF panics THEN "panic" ELSE "refused"
  /\ UNCHANGED <<job, value, received, reg, handlers, octets>>

NewResourceRecordFromRData ==
  /\ at = "message" /\ job.from = "octets"
  /\ at' = "record" /\ value' = FormatGenericRData(rdata)
  /\ UNCHANGED <<job, received, reg, handlers, octets>>

NewResourceRecord ==
  /\ at = "message" /\ job.from = "text"
  /\ at' = "record" /\ value' = job.value
  /\ UNCHANGED <<job, received, reg, handlers, octets>>

\* WireBodyWith, and the handler the record then has.
WireBody(types) ==
  /\ at = "record"
  /\ reg' = types /\ handlers' = buildHandler(job.type, value, types)
  /\ LET written == WireBodyWith(job.type, value, received, types)
     IN  \/ written # {} /\ at' = "written" /\ octets' \in written
         \/ written = {} /\ at' = "unwritable" /\ UNCHANGED octets
  /\ UNCHANGED <<job, value, received>>

Step ==
  \/ toResourceRecord \/ toResourceRecordFails \/ NewResourceRecordFromRData \/ NewResourceRecord
  \/ WireBody(Registered) \/ WireBody({})

Finished == at \notin {"message", "record"} /\ UNCHANGED vars

Next == Step \/ Finished

Spec == Init /\ [][Next]_vars
=============================================================================
