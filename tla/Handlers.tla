------------------------------ MODULE Handlers ------------------------------
(***************************************************************************)
(* The handler of a resource record: zone.Registry, HandlerFrom and        *)
(* WireBodyWith.  A Registry maps a type to the factory that builds its    *)
(* handlers.  A record caches the last handler built for it, with the      *)
(* Registry it was built through, in one atomic pointer.                   *)
(*                                                                         *)
(* Records are shared: the resolver, the Cache and every Verifier hold the *)
(* same ones, and each Verifier has a Registry of its own.  A goroutine    *)
(* runs one call after another; its steps are cut at the atomic load, the  *)
(* locked lookup and the atomic store of HandlerFrom, and at every locked  *)
(* Register of RegisterHandlersInto.                                       *)
(***************************************************************************)
EXTENDS Naturals, Sequences

CONSTANTS
  Goroutine, Registry, Type, Factory,
  Record,    \* the records; what they hold is fixed:
  TypeOf,    \* the type of a record
  Form,      \* its value: "text", "generic", or "malformed" generic
  HasRData,  \* it keeps the octets it was received as
  Accepts,   \* the factories that build a handler from its value
  Decoded,   \* the types whose generic value is decoded without a factory
  BuiltIn,   \* the types with a built-in encoder
  Offered,   \* per registry and type: what is ever registered
  RegisterOrder, \* the types RegisterHandlersInto registers, in order
  Generic,   \* the handler decoded without a factory
  None       \* no factory, no handler, no call

ASSUME RecordsAssumption ==
  /\ TypeOf \in [Record -> Type] /\ Form \in [Record -> {"text", "generic", "malformed"}]
  /\ HasRData \in [Record -> BOOLEAN] /\ Accepts \in [Record -> SUBSET Factory]
  /\ None \notin Factory /\ Generic # None

ASSUME RegistryAssumption ==
  /\ Offered \in [Registry -> [Type -> SUBSET (Factory \cup {None})]]
  /\ RegisterOrder \in Seq(Type)

VARIABLES
  factories, \* per registry: the factory of each type
  handler,   \* per record: the cached [reg, handler]
  pc,        \* per goroutine: where it stands
  op,        \* per goroutine: the call, [name, reg, rr]
  f,         \* per goroutine: the factory looked up
  next,      \* per goroutine: the place in RegisterOrder
  out        \* per goroutine: what the last call returned

vars == <<factories, handler, pc, op, f, next, out>>

NoCall == [name |-> "none", reg |-> None, rr |-> None]

NoEntry == [reg |-> None, handler |-> None]

\* Registries are filled before their first use.
Init ==
  /\ factories \in [Registry -> [Type -> Factory \cup {None}]]
  /\ \A r \in Registry, t \in Type : factories[r][t] \in Offered[r][t]
  /\ handler = [x \in Record |-> NoEntry]
  /\ pc  = [g \in Goroutine |-> "idle"]
  /\ op  = [g \in Goroutine |-> NoCall]
  /\ f   = [g \in Goroutine |-> None]
  /\ next = [g \in Goroutine |-> 0]
  /\ out = [g \in Goroutine |-> None]

-----------------------------------------------------------------------------
\* The values calls return.

\* A generic value is decoded by type before the factory sees it; for the
\* Decoded types the factory is not run at all.
buildHandler(x, factory) ==
  IF Form[x] = "malformed" \/ Accepts[x] = {} THEN None
  ELSE IF Form[x] = "generic" /\ TypeOf[x] \in Decoded THEN Generic
  ELSE IF factory \in Accepts[x] THEN factory
  ELSE None

\* WireBodyWith after HandlerFrom.
encode(x, h) ==
  IF h # None THEN [by |-> "handler", handler |-> h]
  ELSE [by |-> IF TypeOf[x] \in BuiltIn THEN "builtin"
               ELSE IF HasRData[x] THEN "received" ELSE "nothing",
        handler |-> None]

Returned(call, h) ==
  IF call.name = "WireBodyWith" THEN encode(call.rr, h) ELSE [by |-> "handler", handler |-> h]

\* The call is over.
Return(g, value) ==
  /\ pc'  = [pc EXCEPT ![g] = "idle"]
  /\ out' = [out EXCEPT ![g] = value]
  /\ UNCHANGED op

-----------------------------------------------------------------------------
\* HandlerFrom and WireBodyWith.

HandlerFrom(g, reg, x) ==
  /\ pc[g] = "idle"
  /\ pc' = [pc EXCEPT ![g] = "load"]
  /\ op' = [op EXCEPT ![g] = [name |-> "HandlerFrom", reg |-> reg, rr |-> x]]
  /\ out' = [out EXCEPT ![g] = None]
  /\ UNCHANGED <<factories, handler, f, next>>

\* A generic value is written as it is, ahead of any handler.
WireBodyWith(g, reg, x) ==
  /\ pc[g] = "idle"
  /\ op' = [op EXCEPT ![g] = [name |-> "WireBodyWith", reg |-> reg, rr |-> x]]
  /\ IF Form[x] = "text"
     THEN pc' = [pc EXCEPT ![g] = "load"] /\ out' = [out EXCEPT ![g] = None]
     ELSE /\ UNCHANGED pc
          /\ out' = [out EXCEPT ![g] =
               [by |-> IF Form[x] = "generic" THEN "verbatim" ELSE "ErrPresentationFormat",
                handler |-> None]]
  /\ UNCHANGED <<factories, handler, f, next>>

\* Mutant: the registry of the cached handler is not compared.
hitAny(entry, reg) == entry # NoEntry

hit(entry, reg) == entry # NoEntry /\ entry.reg = reg

Load(g) ==
  LET entry == handler[op[g].rr]
  IN  /\ pc[g] = "load"
      /\ \/ hit(entry, op[g].reg) /\ Return(g, Returned(op[g], entry.handler))
         \/ /\ ~hit(entry, op[g].reg)
            /\ pc' = [pc EXCEPT ![g] = "lookup"]
            /\ UNCHANGED <<op, out>>
      /\ UNCHANGED <<factories, handler, f, next>>

Lookup(g) ==
  LET factory == factories[op[g].reg][TypeOf[op[g].rr]]
  IN  /\ pc[g] = "lookup"
      /\ \/ factory = None /\ Return(g, Returned(op[g], None)) /\ UNCHANGED f
         \/ /\ factory # None
            /\ f' = [f EXCEPT ![g] = factory]
            /\ pc' = [pc EXCEPT ![g] = "build"]
            /\ UNCHANGED <<op, out>>
      /\ UNCHANGED <<factories, handler, next>>

\* Mutant: a value the factory refuses is cached too.
BuildAny(g) ==
  LET x == op[g].rr
      h == buildHandler(x, f[g])
  IN  /\ pc[g] = "build"
      /\ handler' = [handler EXCEPT ![x] = [reg |-> op[g].reg, handler |-> h]]
      /\ Return(g, Returned(op[g], h))
      /\ f' = [f EXCEPT ![g] = None]
      /\ UNCHANGED <<factories, next>>

\* The handler is built and stored over whatever is there by now.
Build(g) ==
  LET x == op[g].rr
      h == buildHandler(x, f[g])
  IN  /\ pc[g] = "build"
      /\ handler' = IF h = None THEN handler
                    ELSE [handler EXCEPT ![x] = [reg |-> op[g].reg, handler |-> h]]
      /\ Return(g, Returned(op[g], h))
      /\ f' = [f EXCEPT ![g] = None]
      /\ UNCHANGED <<factories, next>>

-----------------------------------------------------------------------------
\* Registration.

\* A type's factory is replaced, or removed with None.
Register(reg, t, factory) ==
  factories' = [factories EXCEPT ![reg] = [@ EXCEPT ![t] = factory]]

RegisterHandlersInto(g, reg) ==
  /\ pc[g] = "idle" /\ RegisterOrder # << >>
  /\ pc' = [pc EXCEPT ![g] = "register"]
  /\ op' = [op EXCEPT ![g] = [name |-> "RegisterHandlersInto", reg |-> reg, rr |-> None]]
  /\ next' = [next EXCEPT ![g] = 1]
  /\ out' = [out EXCEPT ![g] = None]
  /\ UNCHANGED <<factories, handler, f>>

\* One type after the other, each under the lock.
RegisterNext(g) ==
  /\ pc[g] = "register"
  /\ \E factory \in Offered[op[g].reg][RegisterOrder[next[g]]] :
       Register(op[g].reg, RegisterOrder[next[g]], factory)
  /\ \/ /\ next[g] < Len(RegisterOrder)
        /\ next' = [next EXCEPT ![g] = @ + 1]
        /\ UNCHANGED pc
     \/ /\ next[g] = Len(RegisterOrder)
        /\ next' = [next EXCEPT ![g] = 0]
        /\ pc' = [pc EXCEPT ![g] = "idle"]
  /\ UNCHANGED <<handler, op, f, out>>

-----------------------------------------------------------------------------
Next ==
  \E g \in Goroutine :
    \/ Load(g) \/ Lookup(g) \/ Build(g) \/ RegisterNext(g)
    \/ \E reg \in Registry :
         \/ RegisterHandlersInto(g, reg)
         \/ \E x \in Record : HandlerFrom(g, reg, x) \/ WireBodyWith(g, reg, x)

Spec == Init /\ [][Next]_vars

-----------------------------------------------------------------------------
\* Correctness.

Built == [by : {"handler", "builtin", "received", "nothing", "verbatim", "ErrPresentationFormat"},
          handler : Factory \cup {Generic, None}]

Call == [name : {"HandlerFrom", "WireBodyWith"}, reg : Registry, rr : Record]

Registration == [name : {"RegisterHandlersInto"}, reg : Registry, rr : {None}]

(***************************************************************************)
(* Values of their kind; a cached entry always holds a handler, and only a *)
(* call in the middle of HandlerFrom or of a registration has a factory    *)
(* or a position.                                                          *)
(***************************************************************************)
HandlersTypeOK ==
  /\ factories \in [Registry -> [Type -> Factory \cup {None}]]
  /\ handler \in [Record -> {NoEntry} \cup [reg : Registry, handler : Factory \cup {Generic}]]
  /\ pc   \in [Goroutine -> {"idle", "load", "lookup", "build", "register"}]
  /\ op   \in [Goroutine -> {NoCall} \cup Call \cup Registration]
  /\ f    \in [Goroutine -> Factory \cup {None}]
  /\ next \in [Goroutine -> 0..Len(RegisterOrder)]
  /\ out  \in [Goroutine -> Built \cup {None}]
  /\ \A g \in Goroutine :
       /\ pc[g] \in {"load", "lookup", "build"} => op[g] \in Call
       /\ pc[g] = "build" <=> f[g] # None
       /\ pc[g] = "register" <=> next[g] # 0
       /\ pc[g] = "register" => op[g] \in Registration

\* What a call may return if only its own registry counts: the handler, or
\* the encoding, of a factory registered there for the record's type.
fromFactory(x, factory) == IF factory = None THEN None ELSE buildHandler(x, factory)

ownResults(call) ==
  IF call.name = "WireBodyWith" /\ Form[call.rr] # "text"
  THEN {[by |-> IF Form[call.rr] = "generic" THEN "verbatim" ELSE "ErrPresentationFormat",
         handler |-> None]}
  ELSE {Returned(call, fromFactory(call.rr, factory)) :
          factory \in Offered[call.reg][TypeOf[call.rr]]}

(***************************************************************************)
(* Whoever shares a record, a call returns what its own registry gives:    *)
(* the handler cached by a user of another registry never reaches it.  A   *)
(* registry with one factory per type, a Verifier's, thus decides the      *)
(* result alone.  (HandlerFrom, WireBodyWith, NewVerifier)                 *)
(***************************************************************************)
RegistriesIndependent ==
  \A g \in Goroutine :
    op[g] \in Call /\ pc[g] = "idle" => out[g] \in ownResults(op[g])
=============================================================================
