--------------------------- MODULE HandlerProofs ---------------------------
(***************************************************************************)
(* For every number of goroutines, registries and records: the calls of    *)
(* HandlerFrom and WireBodyWith return what their own registry gives.      *)
(*                                                                         *)
(* RegistriesIndependent is not inductive.  The strengthening says where a *)
(* handler comes from while it travels: registries hold what was offered   *)
(* to them (OfferedOnly), a cached entry was built by a factory of the     *)
(* registry it names (EntriesOwn), and so was the factory a call has       *)
(* looked up (CallsOwn).                                                   *)
(***************************************************************************)
EXTENDS Handlers, TLAPS

OfferedOnly ==
  \A r \in Registry, t \in Type : factories[r][t] \in Offered[r][t]

EntriesOwn ==
  \A x \in Record :
    handler[x] # NoEntry =>
      \E factory \in Offered[handler[x].reg][TypeOf[x]] :
        factory # None /\ handler[x].handler = buildHandler(x, factory)

CallsOwn ==
  \A g \in Goroutine :
    /\ pc[g] \in {"load", "lookup", "build"} /\ op[g].name = "WireBodyWith" =>
         Form[op[g].rr] = "text"
    /\ pc[g] = "build" => f[g] \in Offered[op[g].reg][TypeOf[op[g].rr]]

HandlersInvariant ==
  HandlersTypeOK /\ OfferedOnly /\ EntriesOwn /\ CallsOwn /\ RegistriesIndependent

-----------------------------------------------------------------------------
\* A factory builds one of its own handlers, the generic one, or none.
LEMMA BuildType ==
  ASSUME NEW x \in Record, NEW factory \in Factory \cup {None}
  PROVE  /\ buildHandler(x, factory) \in Factory \cup {Generic, None}
         /\ fromFactory(x, factory) \in Factory \cup {Generic, None}
PROOF BY RecordsAssumption DEF buildHandler, fromFactory

\* What HandlerFrom and WireBodyWith hand back is a value of its kind.
LEMMA ReturnedType ==
  ASSUME NEW call \in Call, NEW h \in Factory \cup {Generic, None}
  PROVE  Returned(call, h) \in Built
PROOF BY RecordsAssumption DEF Returned, encode, Built, Call

\* The handler of a factory offered to the call's registry is a result of
\* the call's own.
LEMMA ReturnedOwn ==
  ASSUME NEW call \in Call, NEW factory \in Offered[call.reg][TypeOf[call.rr]],
         call.name = "WireBodyWith" => Form[call.rr] = "text"
  PROVE  Returned(call, fromFactory(call.rr, factory)) \in ownResults(call)
PROOF BY DEF ownResults, Call

\* Registries are filled from what is offered, and nothing is cached yet.
LEMMA InitInvariant == Init => HandlersInvariant
PROOF
  <1> SUFFICES ASSUME Init PROVE HandlersInvariant
    OBVIOUS
  <1>1. HandlersTypeOK
    BY RegistryAssumption DEF Init, HandlersTypeOK, NoCall, Call, Registration
  <1>. QED BY <1>1 DEF Init, HandlersInvariant, OfferedOnly, EntriesOwn, CallsOwn,
                       RegistriesIndependent, NoCall, Call

\* A call that starts: its arguments are in place, and one that is over at
\* once returns the octets of the generic value, or that they are malformed.
LEMMA StartKeeps ==
  ASSUME HandlersInvariant, NEW g \in Goroutine, NEW reg \in Registry, NEW x \in Record,
         HandlerFrom(g, reg, x) \/ WireBodyWith(g, reg, x)
  PROVE  HandlersInvariant'
PROOF
  <1>1. PICK call \in Call, value \in Built \cup {None}, p \in {"idle", "load"} :
          /\ op' = [op EXCEPT ![g] = call] /\ out' = [out EXCEPT ![g] = value]
          /\ pc' = [pc EXCEPT ![g] = p]
          /\ p = "load" /\ call.name = "WireBodyWith" => Form[call.rr] = "text"
          /\ p = "idle" => value \in ownResults(call)
    <2> DEFINE from == [name |-> "HandlerFrom", reg |-> reg, rr |-> x]
               wire == [name |-> "WireBodyWith", reg |-> reg, rr |-> x]
               octets == [by |-> IF Form[x] = "generic" THEN "verbatim" ELSE "ErrPresentationFormat",
                          handler |-> None]
    <2>1. from \in Call /\ wire \in Call /\ octets \in Built
      BY DEF Call, Built
    <2>2. CASE HandlerFrom(g, reg, x)
      BY <2>1, <2>2 DEF HandlerFrom
    <2>3. CASE WireBodyWith(g, reg, x) /\ Form[x] = "text"
      BY <2>1, <2>3 DEF WireBodyWith
    <2>4. CASE WireBodyWith(g, reg, x) /\ Form[x] # "text"
      <3>1. octets \in ownResults(wire)
        BY <2>4 DEF ownResults
      <3>2. /\ op' = [op EXCEPT ![g] = wire] /\ out' = [out EXCEPT ![g] = octets]
            /\ pc' = [pc EXCEPT ![g] = "idle"]
        BY <2>4 DEF WireBodyWith, HandlersInvariant, HandlersTypeOK
      <3> HIDE DEF wire, octets
      <3>. QED BY <2>1, <3>1, <3>2
    <2>. QED BY <2>2, <2>3, <2>4
  <1>2. pc[g] = "idle" /\ UNCHANGED <<factories, handler, f, next>>
    BY DEF HandlerFrom, WireBodyWith
  <1>3. HandlersTypeOK'
    BY <1>1, <1>2 DEF HandlersInvariant, HandlersTypeOK
  <1>4. OfferedOnly' /\ EntriesOwn'
    BY <1>2 DEF HandlersInvariant, OfferedOnly, EntriesOwn
  <1>5. CallsOwn'
    BY <1>1, <1>2 DEF HandlersInvariant, HandlersTypeOK, CallsOwn
  <1>6. RegistriesIndependent'
    BY <1>1, <1>2 DEF HandlersInvariant, HandlersTypeOK, RegistriesIndependent
  <1>. QED BY <1>3, <1>4, <1>5, <1>6 DEF HandlersInvariant

\* The load: a hit names the call's registry, so its handler is the call's own.
LEMMA LoadKeeps ==
  ASSUME HandlersInvariant, NEW g \in Goroutine, Load(g)
  PROVE  HandlersInvariant'
PROOF
  <1> DEFINE entry == handler[op[g].rr]
  <1>1. /\ op[g] \in Call /\ op[g].rr \in Record /\ op[g].reg \in Registry
        /\ pc[g] = "load"
    BY DEF Load, HandlersInvariant, HandlersTypeOK, Call
  <1>2. CASE hit(entry, op[g].reg)
    <2>1. PICK factory \in Offered[op[g].reg][TypeOf[op[g].rr]] :
            factory # None /\ entry.handler = buildHandler(op[g].rr, factory)
      BY <1>1, <1>2 DEF hit, HandlersInvariant, EntriesOwn
    <2>2. entry.handler = fromFactory(op[g].rr, factory) /\ entry.handler \in Factory \cup {Generic}
      BY <2>1, <1>1, <1>2 DEF fromFactory, HandlersInvariant, HandlersTypeOK, hit
    <2>3. /\ Returned(op[g], entry.handler) \in Built
          /\ Returned(op[g], entry.handler) \in ownResults(op[g])
      BY <1>1, <2>1, <2>2, ReturnedType, ReturnedOwn DEF HandlersInvariant, CallsOwn
    <2>4. Return(g, Returned(op[g], entry.handler)) /\ UNCHANGED <<factories, handler, f, next>>
      BY <1>2 DEF Load
    <2> HIDE DEF entry
    <2>5. HandlersTypeOK'
      BY <1>1, <2>3, <2>4 DEF HandlersInvariant, HandlersTypeOK, Return
    <2>6. OfferedOnly' /\ EntriesOwn' /\ CallsOwn'
      BY <2>4 DEF HandlersInvariant, HandlersTypeOK, OfferedOnly, EntriesOwn, CallsOwn, Return
    <2>7. RegistriesIndependent'
      BY <2>3, <2>4 DEF HandlersInvariant, HandlersTypeOK, RegistriesIndependent, Return
    <2>. QED BY <2>5, <2>6, <2>7 DEF HandlersInvariant
  <1>3. CASE ~hit(entry, op[g].reg)
    <2>1. pc' = [pc EXCEPT ![g] = "lookup"] /\ UNCHANGED <<op, out, factories, handler, f, next>>
      BY <1>3 DEF Load
    <2>. QED BY <1>1, <2>1 DEF HandlersInvariant, HandlersTypeOK, OfferedOnly, EntriesOwn, CallsOwn,
                               RegistriesIndependent
  <1>. QED BY <1>2, <1>3

\* The lookup: no factory, or one that was offered.
LEMMA LookupKeeps ==
  ASSUME HandlersInvariant, NEW g \in Goroutine, Lookup(g)
  PROVE  HandlersInvariant'
PROOF
  <1> DEFINE factory == factories[op[g].reg][TypeOf[op[g].rr]]
  <1>1. /\ op[g] \in Call /\ op[g].rr \in Record /\ op[g].reg \in Registry
        /\ pc[g] = "lookup"
    BY DEF Lookup, HandlersInvariant, HandlersTypeOK, Call
  <1>2. TypeOf[op[g].rr] \in Type
    BY <1>1, RecordsAssumption
  <1>3. factory \in Offered[op[g].reg][TypeOf[op[g].rr]] /\ factory \in Factory \cup {None}
    BY <1>1, <1>2 DEF HandlersInvariant, HandlersTypeOK, OfferedOnly
  <1>4. CASE factory = None /\ Return(g, Returned(op[g], None)) /\ UNCHANGED f
    <2>1. fromFactory(op[g].rr, factory) = None
      BY <1>4 DEF fromFactory
    <2>2. Returned(op[g], None) \in Built /\ Returned(op[g], None) \in ownResults(op[g])
      BY <1>1, <1>3, <2>1, ReturnedType, ReturnedOwn DEF HandlersInvariant, CallsOwn
    <2>3. UNCHANGED <<factories, handler, f, next>>
      BY <1>4 DEF Lookup
    <2> HIDE DEF factory
    <2>4. HandlersTypeOK'
      BY <1>1, <1>4, <2>2, <2>3 DEF HandlersInvariant, HandlersTypeOK, Return
    <2>5. OfferedOnly' /\ EntriesOwn' /\ CallsOwn'
      BY <1>4, <2>3 DEF HandlersInvariant, HandlersTypeOK, OfferedOnly, EntriesOwn, CallsOwn, Return
    <2>6. RegistriesIndependent'
      BY <1>4, <2>2, <2>3 DEF HandlersInvariant, HandlersTypeOK, RegistriesIndependent, Return
    <2>. QED BY <2>4, <2>5, <2>6 DEF HandlersInvariant
  <1>5. CASE /\ factory # None
             /\ f' = [f EXCEPT ![g] = factory] /\ pc' = [pc EXCEPT ![g] = "build"]
             /\ UNCHANGED <<op, out>>
    <2>1. UNCHANGED <<factories, handler, next>>
      BY DEF Lookup
    <2> HIDE DEF factory
    <2>2. HandlersTypeOK'
      BY <1>1, <1>3, <1>5, <2>1 DEF HandlersInvariant, HandlersTypeOK
    <2>3. OfferedOnly' /\ EntriesOwn' /\ CallsOwn'
      BY <1>1, <1>3, <1>5, <2>1 DEF HandlersInvariant, HandlersTypeOK, OfferedOnly, EntriesOwn, CallsOwn
    <2>4. RegistriesIndependent'
      BY <1>5, <2>1 DEF HandlersInvariant, HandlersTypeOK, RegistriesIndependent
    <2>. QED BY <2>2, <2>3, <2>4 DEF HandlersInvariant
  <1>. QED BY <1>4, <1>5 DEF Lookup

\* The store: over another registry's entry or not, the entry is the
\* storing call's own, and so is what it returns.
LEMMA BuildKeeps ==
  ASSUME HandlersInvariant, NEW g \in Goroutine, Build(g)
  PROVE  HandlersInvariant'
PROOF
  <1> DEFINE h == buildHandler(op[g].rr, f[g])
  <1>1. /\ op[g] \in Call /\ op[g].rr \in Record /\ op[g].reg \in Registry
        /\ pc[g] = "build" /\ f[g] \in Factory
        /\ f[g] \in Offered[op[g].reg][TypeOf[op[g].rr]]
    BY DEF Build, HandlersInvariant, HandlersTypeOK, CallsOwn, Call
  <1>2. h \in Factory \cup {Generic, None} /\ h = fromFactory(op[g].rr, f[g])
    BY <1>1, BuildType, RecordsAssumption DEF fromFactory
  <1>3. /\ Returned(op[g], h) \in Built
        /\ Returned(op[g], h) \in ownResults(op[g])
    BY <1>1, <1>2, ReturnedType, ReturnedOwn DEF HandlersInvariant, CallsOwn
  <1>4. /\ handler' = IF h = None THEN handler
                      ELSE [handler EXCEPT ![op[g].rr] = [reg |-> op[g].reg, handler |-> h]]
        /\ Return(g, Returned(op[g], h))
        /\ f' = [f EXCEPT ![g] = None] /\ UNCHANGED <<factories, next>>
    BY DEF Build
  <1>5. EntriesOwn'
    <2> SUFFICES ASSUME NEW x \in Record, handler'[x] # NoEntry
                 PROVE  \E factory \in Offered[handler'[x].reg][TypeOf[x]] :
                          factory # None /\ handler'[x].handler = buildHandler(x, factory)
      BY DEF EntriesOwn, NoEntry, buildHandler
    <2>1. CASE handler'[x] = handler[x]
      BY <2>1 DEF HandlersInvariant, EntriesOwn
    <2>2. CASE handler'[x] # handler[x]
      <3>1. x = op[g].rr /\ handler'[x] = [reg |-> op[g].reg, handler |-> h]
        BY <1>4, <2>2 DEF HandlersInvariant, HandlersTypeOK
      <3>. QED BY <1>1, <3>1, RecordsAssumption
    <2>. QED BY <2>1, <2>2
  <1> HIDE DEF h
  <1>6. handler' \in [Record -> {NoEntry} \cup [reg : Registry, handler : Factory \cup {Generic}]]
    BY <1>1, <1>2, <1>4 DEF HandlersInvariant, HandlersTypeOK
  <1>7. HandlersTypeOK'
    BY <1>1, <1>3, <1>4, <1>6, RecordsAssumption DEF HandlersInvariant, HandlersTypeOK, Return
  <1>8. OfferedOnly' /\ CallsOwn'
    BY <1>4 DEF HandlersInvariant, HandlersTypeOK, OfferedOnly, CallsOwn, Return
  <1>9. RegistriesIndependent'
    BY <1>3, <1>4 DEF HandlersInvariant, HandlersTypeOK, RegistriesIndependent, Return
  <1>. QED BY <1>5, <1>7, <1>8, <1>9 DEF HandlersInvariant

\* Registration only puts what is offered, and touches no record.
LEMMA RegisterKeeps ==
  ASSUME HandlersInvariant, NEW g \in Goroutine,
         RegisterNext(g) \/ \E reg \in Registry : RegisterHandlersInto(g, reg)
  PROVE  HandlersInvariant'
PROOF
  <1>1. CASE \E reg \in Registry : RegisterHandlersInto(g, reg)
    <2>1. PICK reg \in Registry : RegisterHandlersInto(g, reg)
      BY <1>1
    <2>2. Len(RegisterOrder) \in Nat \ {0}
      BY <2>1, RegistryAssumption DEF RegisterHandlersInto
    <2>3. HandlersTypeOK'
      BY <2>1, <2>2 DEF HandlersInvariant, HandlersTypeOK, RegisterHandlersInto, Registration, Call
    <2>4. OfferedOnly' /\ EntriesOwn' /\ CallsOwn'
      BY <2>1 DEF HandlersInvariant, HandlersTypeOK, OfferedOnly, EntriesOwn, CallsOwn,
                  RegisterHandlersInto
    <2>5. RegistriesIndependent'
      BY <2>1 DEF HandlersInvariant, HandlersTypeOK, RegistriesIndependent, RegisterHandlersInto
    <2>. QED BY <2>3, <2>4, <2>5 DEF HandlersInvariant
  <1>2. CASE RegisterNext(g)
    <2> DEFINE r == op[g].reg
               t == RegisterOrder[next[g]]
    <2>1. /\ pc[g] = "register" /\ op[g] \in Registration /\ r \in Registry
          /\ Len(RegisterOrder) \in Nat /\ next[g] \in 1..Len(RegisterOrder)
      BY <1>2, RegistryAssumption DEF RegisterNext, HandlersInvariant, HandlersTypeOK, Registration
    <2>2. t \in Type
      BY <2>1, RegistryAssumption
    <2>3. PICK factory \in Offered[r][t] :
            factories' = [factories EXCEPT ![r] = [@ EXCEPT ![t] = factory]]
      BY <1>2 DEF RegisterNext, Register
    <2>4. factory \in Factory \cup {None}
      BY <2>1, <2>2, RegistryAssumption
    <2>5. /\ UNCHANGED <<handler, op, f, out>>
          /\ \/ next' = [next EXCEPT ![g] = @ + 1] /\ next[g] < Len(RegisterOrder) /\ pc' = pc
             \/ next' = [next EXCEPT ![g] = 0] /\ pc' = [pc EXCEPT ![g] = "idle"]
      BY <1>2 DEF RegisterNext
    <2>6. op[g] \notin Call
      BY <2>1 DEF Registration, Call
    <2> HIDE DEF r, t
    <2>7. factories' \in [Registry -> [Type -> Factory \cup {None}]]
      BY <2>1, <2>2, <2>3, <2>4 DEF HandlersInvariant, HandlersTypeOK
    <2>8. HandlersTypeOK'
      <3>1. next' \in [Goroutine -> 0..Len(RegisterOrder)] /\ (next'[g] = 0 <=> pc'[g] # "register")
        BY <2>1, <2>5 DEF HandlersInvariant, HandlersTypeOK
      <3>2. \A k \in Goroutine : k # g => next'[k] = next[k] /\ pc'[k] = pc[k]
        BY <2>5 DEF HandlersInvariant, HandlersTypeOK
      <3>3. pc' \in [Goroutine -> {"idle", "load", "lookup", "build", "register"}]
            /\ pc'[g] \in {"idle", "register"}
        BY <2>1, <2>5 DEF HandlersInvariant, HandlersTypeOK
      <3>. QED BY <2>1, <2>5, <2>7, <3>1, <3>2, <3>3 DEF HandlersInvariant, HandlersTypeOK
    <2>9. OfferedOnly'
      <3> SUFFICES ASSUME NEW r0 \in Registry, NEW t0 \in Type
                   PROVE  factories'[r0][t0] \in Offered[r0][t0]
        BY DEF OfferedOnly
      <3>1. factories'[r0][t0] = factories[r0][t0] \/ (r0 = r /\ t0 = t /\ factories'[r0][t0] = factory)
        BY <2>1, <2>2, <2>3 DEF HandlersInvariant, HandlersTypeOK
      <3>. QED BY <2>3, <3>1 DEF HandlersInvariant, OfferedOnly
    <2>10. EntriesOwn' /\ CallsOwn'
      BY <2>1, <2>5 DEF HandlersInvariant, HandlersTypeOK, EntriesOwn, CallsOwn
    <2>11. RegistriesIndependent'
      BY <2>5, <2>6 DEF HandlersInvariant, HandlersTypeOK, RegistriesIndependent
    <2>. QED BY <2>8, <2>9, <2>10, <2>11 DEF HandlersInvariant
  <1>. QED BY <1>1, <1>2

\* Every step, and every stuttering one, keeps the invariant.
LEMMA StepKeeps == HandlersInvariant /\ [Next]_vars => HandlersInvariant'
PROOF
  <1> SUFFICES ASSUME HandlersInvariant, [Next]_vars PROVE HandlersInvariant'
    OBVIOUS
  <1>1. CASE UNCHANGED vars
    BY <1>1 DEF vars, HandlersInvariant, HandlersTypeOK, OfferedOnly, EntriesOwn, CallsOwn,
                RegistriesIndependent
  <1>2. CASE Next
    <2>1. PICK g \in Goroutine :
            \/ Load(g) \/ Lookup(g) \/ Build(g) \/ RegisterNext(g)
            \/ \E reg \in Registry :
                 \/ RegisterHandlersInto(g, reg)
                 \/ \E x \in Record : HandlerFrom(g, reg, x) \/ WireBodyWith(g, reg, x)
      BY <1>2 DEF Next
    <2>. QED BY <2>1, LoadKeeps, LookupKeeps, BuildKeeps, RegisterKeeps, StartKeeps
  <1>. QED BY <1>1, <1>2

(***************************************************************************)
(* The entry a record caches, the factory a call has looked up and the     *)
(* value a call returned all come from the registry they are used with.    *)
(***************************************************************************)
THEOREM HandlersSafe == Spec => []HandlersInvariant
PROOF
  <1>. QED BY InitInvariant, StepKeeps, PTL DEF Spec

(***************************************************************************)
(* Users of different registries that share records stay independent: each *)
(* call of HandlerFrom or WireBodyWith returns what its own registry       *)
(* gives, whatever the others cached in between.                           *)
(***************************************************************************)
THEOREM SharedRecordsIndependent == Spec => []RegistriesIndependent
PROOF
  <1>1. HandlersInvariant => RegistriesIndependent
    BY DEF HandlersInvariant
  <1>. QED BY <1>1, HandlersSafe, PTL


(***************************************************************************)
(* Whatever the schedule, a record never caches an entry without a handler *)
(* and only a call between its lookup and its build holds a factory.       *)
(***************************************************************************)
THEOREM HandlersTyped == Spec => []HandlersTypeOK
PROOF
  <1>1. HandlersInvariant => HandlersTypeOK
    BY DEF HandlersInvariant
  <1>. QED BY <1>1, HandlersSafe, PTL
=============================================================================
