# dnsdata-go in TLA+

A verification project kept beside the code of `dnsdata-go`: TLA+ modules
translated from the Go source, TLC runs over small instances, and TLAPS proofs
for every instance. `PROJECT.json` holds the index: which definition stands for
which source lines, which run checks what, which mutated definition breaks each
property, which hazard each property is for.

Running it, from this directory:

    tlc -workers 2 -config MCShared.cfg MCShared     # one run
    tlapm TrustProofs.tla                            # one proof module

## 1. The system

`dnsdata-go` is a DNS data library: parse and print zone data, encode and decode
the wire format, sign zones, ask resolvers, and validate answers with DNSSEC. Its
heart is `verifier.Validate(ctx, qname, qtype)`, which walks the chain of trust
from the root to the answer.

### Parts, their state, and their operations

| part | state | operations | hard behaviours | what makes it correct |
|---|---|---|---|---|
| `verifier` chain walk (`chain.go`, `alias.go`, `sigcheck.go`, `reason.go`) | per call: name in hand, hop, names seen, current zone and its store, the Result; shared: nothing but resolver and cache | `Validate`, `validateRoot`, `descendInto`, `resolveLeaf`, `tryDNAME`, `tryCNAME`, `loadRecords`, `addStep` | answers of different times and sources meet in one store; redirects restart the walk; contexts end at any point | keys and Secure answers are authentic; absence is true; the chain is a path; every call returns |
| `verifier` cache (`cache.go`) | a map under a mutex, shared by calls | `Get`, `Put`, `Len` | get, query, put are three steps; entries never expire; put comes before validation | what a call has been told it finds again, and does not ask for twice; failures are not kept |
| denial and wildcards (`negative.go`, `leaf_negative.go`, `wildcard.go`) | none of its own: reads the store | `proveNoDS`, `proveNoData`, `proveNXDomain`, `proveQnameNonExistence` | wrap-around, opt-out, empty non-terminals, the root as encloser, records of two publications | the verdict is the zone's truth |
| `dnssec` zone and signatures (`zone.go`, `sigcheck.go`, `nsec*.go`) | the store of one zone: records, RRSIGs, trusted keys, parent | `AddRR`, `FindRRSet`, `CheckRRSet`, `VerifyRRSet`, `AddTrustedKey` | key tags collide; windows are inclusive at both ends; one of several signatures fails | a verified rrset is, value for value, the signed one |
| `dnssec/signer` | none: a zone in, a signed zone out | `SignZone`, `BuildNSEC`, `BuildNSEC3` | glue below cuts, opt-out, empty non-terminals | what it writes is what the verifier's proofs ask for |
| `resolver/memory` | the published zones, read-only after `New` | `Query` | referrals, wildcard expansion, DNAME synthesis, which proof goes with which answer | same as above, from the serving side |
| `resolver/auth`, `dot`, `doh` | immutable clients; a connection per attempt | `Resolve`, `QueryRaw`, `queryOne`, `queryUDP`, `queryTCP`, `sendOne` | failover, truncation, timeout against deadline against cancellation, silent servers | the first server in time answers; the context bounds the call; it returns |
| `zone` records and registries | a registry's map under a lock; a handler cached per record in an atomic pointer | `Register`, `HandlerFrom`, `WireBodyWith`, `RegisterHandlersInto` | records are shared by resolver, cache and verifiers with different registries | each user gets what its own registry gives |
| `wire` decoding | none | `ParseDomainName`, `ParseMessage`, `DecodeTypeBitmap`, `DecodeOPT` | pointer loops, cut messages, edges of octets and windows | decodes what the octets stand for, or refuses; bounded work |
| `wire` encoding (`name.go`, `query.go`, `edns.go`) | none | `DomainNameToWire`, `BuildQueryWithOptions`, `EDNS.Encode`, `EncodeTypeBitmap` | names that cannot be sent, options and their lengths | the other side reads what was meant |
| RDATA text and octets (`wire/rdata*.go`, `zone/rr.go`, `generic.go`, a file per type, `dnssec/dnskey.go`, `ds.go`, `rrsig.go`) | a record: its value, and the octets it came with | `RDataToString`, the `Parse` functions, `WireBody`, `NewResourceRecordFromRData` | received octets are kept as text and turned into octets again for every digest; escapes, case, generic form | what is written is the canonical form of what came |
| `zone` master files (`zone.go`, `strict.go`) | the zone's records; while reading: `$ORIGIN`, `$TTL`, last owner, open parentheses | `ReadString`, `ReadStringStrict`, `AddRR` | carry-over between lines, a text that fails at its end | all that the text says, or nothing |
| `types`, key files, LOC, `dnsview` | none | tables, parsing, output | | not modelled, see section 7 |

### How they meet

`Validate` calls a `resolver.Resolver` (one of the four implementations) through
`loadRecords`, under a cache when `WithCache` was given, and deposits what comes
back in a `dnssec.Zone`. `dnssec` checks signatures over that store and the denial
proofs read it. The records in it are the ones the cache and the resolver hold, so
goroutines share them and their handler pointers. The signer and
`resolver/memory` are the other side of the same contract: they produce what the
verifier consumes. Concurrency is between `Validate` calls (over the cache and the
records), between a call and the clock and context, and between goroutines that
register handlers and ones that use them. Nothing is persisted, so there is no
crash recovery.

## 2. The modules

    Names  <-  Nsec  <-  SigCheck  <-  Denial  <-  ChainWalk  <-  ChainTrust  <-  TrustProofs
                            ^                                        |     <- WalkProofs <- ChainProofs,
                            |                                        |                      AbsenceProofs
                            +---- Authority  <-  Reference ----------+---- MCHonest, MCShared,
                                                                          MCAlias, MCFaithful
                  Validation  <- - - - - - (refined by) - - - - - ChainTrust
    Transport  <-  Failover  <-  MCTransport, TransportProofs
                      + - - - - - (refines) - - - - -> Resolver
    Handlers  <-  MCHandlers, HandlerProofs
    Octets  <-  Wire  <-  WireProofs
      ^          ^---- MCWire, with Query
      ^
      +-- Presentation  <-  Encoders  <-  Received  <-  MCReceived
                                ^-------  MasterFile  <-  MCMasterFile, MasterFileProofs

| module | code | state and actions |
|---|---|---|
| `Names` | name helpers of `dnssec`, `zone` and `verifier` | Names as sequences of labels counted from the root; a label is a number, 0 the `*`. Canonical order, ancestors, DNAME substitution. |
| `Nsec` | `dnssec/nsec.go`, `nsec3.go` | What one NSEC or NSEC3 covers, matches and proves. `Hash` is a parameter. |
| `SigCheck` | `dnssec/zone.go`, `sigcheck.go`, `verifier/reason.go` | The store `[rrs, sigs, trusted, parent]`; the outcome of one RRSIG in the order the code tests (window, keys, rrset, algorithm, signature), and the code a failed rrset gets. |
| `Denial` | `verifier/negative.go`, `leaf_negative.go`, `wildcard.go` | The proofs of absence. The store lists records in no order the proof controls, so a proof that takes the first covering record is the set of its possible outcomes. |
| `ChainWalk` | `verifier/chain.go`, `alias.go`, `cache.go` and the resolver contract | One walker per `Validate` call. `phase` is where the call stands, `io` where its `loadRecords` stands. Actions are cut where another goroutine, the clock, the context or the zones can move: lookup, query, put, use; `reply` holds the answer between query and put, so an older answer can be put after a newer one. The environment: `Reply` (answers as published), `Damaged` (answers a failing path gives), `Republish`, `Tick`, `Expire`. |
| `ChainTrust` | what the above promises | Types, trust, chain, alias and cache properties, against `ZoneKey` (whose keys are whose) and `Published`. |
| `Authority` | `dnssec/signer/*.go`, `resolver/memory/*.go` | `SignZone` and `Query` as functions. |
| `Reference` | none: a definition of lookup in unsigned data | Which names are insecure, which exist, what they hold, where redirects lead. Shares with the code only names and zone contents. |
| `Transport` | `resolver/auth`, `dot`, `doh` | One call: server, leg (udp, tcp, tls, http), attempt clock, context, first error. |
| `Failover` | what the clients of `Transport` promise | Which server's answer is due, how long a call may take, and the mapping to `Resolver`. |
| `Handlers` | `zone/rr.go`, `registry.go`, `dnssec/handlers.go` | Goroutines cut at the atomic load, the locked lookup, the atomic store, and every locked `Register`. |
| `Validation` | the promise of `Verifier.Validate` | Per call: the name in hand, the names walked, redirects, the zone the walk stands in, the outcome. Actions `Start`, `EnterZone`, `Redirect`, `Return`. |
| `Resolver` | the promise of `Resolver.Resolve` | One call over numbered servers: `Answer`, `Fail`, `EndContext`. |
| `Octets` | `wire/name.go`, `builder.go`, `typebitmap.go`, `name_decompress.go` | Numbers, names and bitmaps on whole sequences of octets. |
| `Wire` | `wire/name_decompress.go`, `message.go`, `typebitmap.go` | One call, one step per label, pointer, record or window. |
| `Query` | `wire/query.go`, `edns.go` | The query message and the OPT record, written and read. |
| `Presentation` | `wire/rdata.go`, `rdata_svcb.go` | `RDataToString`. A value is the sequence of its blank-separated fields; a field is its kind and the number, characters or digits in it. |
| `Encoders` | `zone/rr.go`, `generic.go`, the type files, `dnssec/dnskey.go`, `ds.go`, `rrsig.go`, `nsec*.go` | From such a value to octets: built-in encoders, factories and their handlers, the generic form, and `WireBodyWith`, which chooses among them. |
| `Received` | `resolver/internal/message`, `zone/rr.go` | One record's RDATA: taken from a message, from octets or from text, then written with or without handlers. |
| `MasterFile` | `zone/zone.go`, `strict.go` | The two readers, one step per physical line (and, strictly, per logical line and per record added at the end); a line is its tokens and whether a blank comes first. |

Five modelling decisions are worth stating once.

*Signatures are symbolic.* An RRSIG carries its RDATA fields and what it was made
with and over. It verifies under exactly that key and over exactly those values at
exactly that owner. Key tags are not unique. This is the usual assumption that the
cryptography works; nothing else about signatures is assumed.

*The resolver is arbitrary.* The proofs leave `Reply` and `Damaged` free: an answer
may be any set of the records and signatures there are. The runs use what
`Authority` answers, plus damage.

*Undecided order stays undecided.* Where the code iterates a Go slice in the order
the answers came in, or picks one of several CNAMEs or covering NSECs, the model
takes any.

*A conversion that can fail is the set of its results*: empty for the error, one
member otherwise. So the callers' error paths are the empty set, and a parser that
calls several others is a set comprehension over theirs.

*Text is tokens.* What a regular expression or a field splitter sees of a line is a
sequence of fields; escapes and quotes inside a string are characters, because
there the code converts. The scanners themselves (blanks, `strings.Fields`) are not
modelled.

## 3. The runs

### Runs that pass

| run | instance | shows |
|---|---|---|
| `honest` | One call, a cache, no faults. An NSEC3 root and three top-level zones with the same contents, signed with NSEC, NSEC3 and NSEC3 with opt-out; 25 names in each (existing, empty non-terminal, wildcard, wildcard CNAME, DNAME into the next zone and into itself, signed and unsigned delegation, missing) by 5 types | `VerdictIsReference`: signer, authority and verifier agree with the definition of lookup in `Reference`, verdict and answer. `AskedOnce`: with a cache a call sends no query for what it has had answered already (the names it was redirected from, the DS probes on its way down, the keys of the zones of its chain), although each redirect starts again at the root. (Other calls that overwrite the entries in between are in the theorem, section 5.) |
| `shared` | Two calls, one cache, two publications (a root ZSK rolled, rrset changed, name and delegation dropped), one clock tick that expires the first publication, one fault | `TypeOK`, `ZoneKeysAuthentic`, `SecureIsAuthentic`, `TrustInvariant`: no mixture of old, new and foreign records passes. `AbsenceIsAttested`: a verdict of absence rests on denial records the zone the walk ended in signed with its own keys, and on all that its kind needs (the range over the name, the one over the wildcard, the closest encloser). `AbsenceWasTrue`: such a verdict was true in one of the publications. `BogusEndsChain`. |
| `alias` | One call, no cache, up to two faults, `MaxAliasHops = 2`. CNAME chains and loops, a CNAME at a wildcard, a DNAME into itself, redirects into zones that are signed, unsigned, misdelegated, and of unsupported algorithms; answers lost, stripped of signatures or with their aliases leading elsewhere | `AliasesLinked`, `AliasesAuthentic` (every redirect followed is a published one), `ChainIsPath`, `CodeMatchesVerdict`, `ChainGrows` (a step property), `ImplementsValidation` (refinement) and `CallsReturn` (liveness). |
| `transport` | The three clients, no, one or two servers of 18 kinds, context without deadline, with one before and one after the attempt's, cancelled at any moment | `FailoverIsReference`, `BoundedInTime`, `ImplementsResolver` (refinement), `ResolveReturns` (liveness), `TransportTypeOK`. |
| `handlers` | Two goroutines, two registries, five records that take every path of `HandlerFrom` and `WireBodyWith`, registration at any time | `RegistriesIndependent`, `HandlersTypeOK`. |
| `wire` | Every message of up to five octets from {0, 1, 2, 64, 192} from every offset; messages with up to two records, whole and cut at every length; bitmaps of three types from the edges of octets and windows, whole and cut; queries for names that can and cannot be sent; OPT records with their fields at both ends, with and without options, and with lengths that do not fit | `NameIsReference`, `MessageIsReference`, `BitmapIsReference`: decoding agrees with a definition that has no cursor. `WorkBounded`: it follows no more pointers than allowed and reads no more records than the message has room for (what `make` sets aside from the header's counts is not meant). `QueryIsReadBack`: what is written is read as what was meant. |
| `zonefile` | 39 lines in texts of one and two; of three and four with the eleven lines that carry something over in all places but one, or in all; a zone that has a record already | `StrictIsReference`: the strict reader agrees with a definition that looks at the text as a whole (which lines parentheses join, which `$ORIGIN`, `$TTL` and owner are in force). `ZoneAllOrNothing` (a step property): a text with an error leaves the zone as it was, and no step takes a record away. `LenientAgrees`: `ReadString` gives the same where it understands the same. `MasterFileTypeOK`. |
| `rdata` | RDATA of the types `RDataToString` knows and of unknown ones: names plain, compressed, out of the RDATA and broken, strings of quotes, backslashes, digits and UTF-8, bitmaps, SVCB parameters, cut and with octets too many; about 50 values as text | `ReceivedIsCanonical`: text and back is the canonical form that a table of the RFC formats gives; RDATA that does not fit its format is refused, cannot be written, is read as ending elsewhere or, for an NSEC, is out of range (run `conversions`). `HandlerMeansOctets`: a handler built from RDATA writes what those octets, all of them, stand for. `KeyTagIsRFC`, `TextIsWritten`, `ReceivedTypeOK`. |

### Runs that show a disagreement

Each states what the repository says of the program and finds the code doing
otherwise.

| run | statement | what happens |
|---|---|---|
| `faithful` | `verdict.go:31`: a name that does not exist, with its proof, is SecureNXDomain; `verdict.go:43`: Bogus means that signatures or links failed | Below an NSEC-signed root a missing top-level name is Indeterminate: `closestEncloserNSEC` uses the root's label count, 0, for "no encloser". And the DS rrset of a signed delegation, asked for as the question, is Bogus: the walk has entered the child, whose keys did not sign it. |
| `lost_probe_nodata` | `verdict.go:25`: SecureNoData means the signed zone has the name and not the type | When the DS probe of an unsigned delegation comes back empty, the parent's NSEC in the leaf answer (NS set, SOA not) passes as the child's NODATA. `AbsenceWasTrue` shows this is the only such case in its instance. |
| `dnskey_leaf` | `verdict.go:21-22`: Secure means a complete chain of signatures from an anchor to the rrset | A DNSKEY question is checked with the keys its own answer has just put into the store, so an rrset no DS digest leads to, signed with its own key, is Secure. `SecureIsAuthentic` holds for all other types. |
| `conversions` | `wire/rdata.go:17` and `DESIGN.md:130`: failures of `RDataToString` are errors, not panics; `rdata.go:20-24`: the string it returns is what `NewResourceRecord` accepts; `zone/rr.go:203-204`: a malformed value is `ErrRDataFormat` | `decodeNSEC` slices the bitmap without comparing where the name ended with the end of the RDATA: an NSEC whose name runs past it panics (`Received` has the outcome as `"panic"`). An AAAA with an IPv4-mapped address is printed as a dotted quad, which `writeWireAAAA` refuses. An MX preference of 65536 is written as 65535: the error of `ParseUint` is dropped (`rr.go:349`). |

TLC stops at the first state that breaks a property. In `faithful` and `conversions` each
of the disagreements named breaks it by itself: the cfg with `Question <- MissingTld` or
`SignedCut`, and with `Jobs <- NSECJobs`, `AddressJobs` or `RangeJobs`, shows one at a time.

Three more were met while modelling. They are part of the models, and the
properties are stated so that they say what the code does:

- `auth/client.go:20` says the timeout caps "UDP read or TCP dial+read"; the TCP dial
  runs under the caller's context alone. `BoundedInTime` bounds it by the system's
  limit instead.
- `verifier/errors.go:64` says a passed deadline is `ErrChainTimeout`; the network
  clients format the context's error with `%v`, so `loadRecords` cannot recognise it
  and reports `ErrResolver`.
- `result.go:180` and `DESIGN.md:82` say a Bogus chain ends with the zone that failed;
  after a redirect back into a zone met before, `addStep` merges the failure into the
  earlier step. `BogusEndsChain` is stated for calls without redirects.

### The refinements

`ChainTrust!Promise` maps the walk to `Validation`: name, names seen and hop count
are the walker's own; it is *walking* between the start of a hop and its end, and
*stands* in the current zone once the root is validated; the outcome is the verdict
when the call has returned without an error. The queries, the cache, DS probes and
denial proofs are stuttering steps. What must match: zones are entered downwards,
from the root again on every hop, no name is walked twice, a redirect or a
vouching verdict comes only from inside a zone.

`Failover!Promise` maps a client's call to `Resolver`: which servers *must* or
*may* answer is read off their behaviour, `ended` is `ctx.Err()`, and dialling,
truncation, TCP and failover are stuttering steps. What must match: the call returns
once, with the first answer there is, and fails only with the context over or
nothing to be had. `ChainWalk` in turn takes from this contract that a query
returns, with an answer or an error.

### Bounds, and why they are enough

- `MaxAliasHops` is 1 to 3 for the code's 10. The loop's guard compares with it and
  nothing else does: each run has chains that end before it, at it and after it.
- `MaxPointerHops` is 2 for the code's 32, for the same reason; the messages hold
  chains of one, two and three pointers.
- `Walker` has two members where calls interact. They meet only in the cache, and a
  cache entry is written by one call and read by another. `SYMMETRY` over the two is
  sound: the run checks invariants only, and `Init` and `Next` treat them alike.
- `MaxWorld = 2`, `MaxTime = 1`: an old and a new publication, before and after the
  old signatures expire, with every interleaving of the four.
- `MaxFaults` is 1 or 2: one damaged answer anywhere, or a damaged answer and an
  ended context.
- Transport: `Timeout = 2` and `OSDialLimit = 4` ticks put deadlines before, at and
  after each other; two servers are enough for "the next one" and "the first error".
- `zonefile`: `MaxUint32 = 8` for 2^32 - 1, so that one-digit numbers lie on both
  sides of it; nothing else depends on the width. Four lines are enough for a state
  to be set, changed, used and used again.
- `rdata`: `MaxString = 4` and `MaxName = 6` for 255, so that short texts cross the
  limits; `MaxUint32 = 2147483647`, the largest number TLC has, for 2^32 - 1.
- `Never = 100` is later than any tick an execution reaches (`BoundedInTime` bounds
  the clock by 16).

What the passing runs leave out on purpose, and where it is: the questions of the
disagreements above; the CNAME of a name below a DNAME, whose synthesised,
unsigned CNAME is counted as the answer and makes it Bogus with no-rrsig
(`chain.go:226-241`; the comment at 262-268 has the redirect in mind, where the DNAME
goes first); a question for the wildcard name `*.x` itself, which is taken for an expansion
(`wildcard.go:19-38`).

### Fairness

`ChainWalk.FairSpec` is weak fairness of each call's own steps: the Go scheduler
runs every goroutine, and a query comes back because every resolver bounds it by a
timeout (`ResolveReturns` is that, for the network clients). Nothing is assumed of
faults, the clock or republication. `Transport.FairSpec` is weak fairness of the
call, in which time passes only while it waits. No fairness is used for safety.

## 4. The mutants

For every property of every passing run, `PROJECT.json` names a definition that
models code and a mutated form, defined just before it and marked *Mutant*, that a
plausible slip in that code would give: a DNSKEY taken from any answer, a wrap-around
forgotten, the failing server's error overwritten, a chain step added twice. With it
in place the run finds the property violated.

## 5. What is proved

`TrustProofs` (about `ChainWalk` under `ChainTrust`), for any set of calls, names,
records, signatures, answers, publications and bounds:

- `TypeCorrect`: `Spec => []TypeOK`.
- `TrustHandedDown`: `Spec => []TrustInvariant`.
- `KeysAreAuthentic`: `Spec => []ZoneKeysAuthentic`. Whatever resolver and cache
  return, every DNSKEY of the zone the walk stands in is at its apex and its own.
- `SecureAnswersAuthentic`: `Spec => []SecureIsAuthentic`. A Secure answer is an
  rrset published at its name or at a wildcard above it. (Answers to DNSKEY
  questions are excepted: they put keys into the store that checks them, run
  `dnskey_leaf`.)

Assumptions: `BoundsAssumption` and `ResolverAssumption` (constants have their
kinds), `NoneAssumption` (the empty string is no name), `RecordAssumption` (the shape of
records: aliases and the next owner of an NSEC are names), `TagsDecideAlgorithm`, and
`HonestSigning`: no signature made with a zone's key covers what the zone did not
publish, published DNSKEY and DS rrsets name the zone's keys, and the anchors
digest root keys. TLC evaluates all of them in `shared` and `alias`.

The argument. A check in KeyModeNone accepts any key at the signer, so it is worth
as much as the keys in the store: with genuine keys, a verified rrset is a
one the zone signed (`VerifiedIsSigned`), hence a published one (`VerifiedIsPublished`). Then a verified DS rrset digests keys of the
child (`VerifiedDSIsGenuine`), and a DNSKEY rrset that verifies under a key those
digests pick holds only keys of the child (`AuthenticatedIsGenuine`). Neither
`ZoneKeysAuthentic` nor `SecureIsAuthentic` is inductive: between the DS check and
the DNSKEY check there is a query, and what the DS check found must survive in the
parent's store. `TrustInvariant` adds what the walk holds in between: the DS rrset
in the parent's store digests genuine keys, the store of the zone being entered has
DNSKEYs only at its apex and trusts nothing, its parent is the current store, and
no verdict is set before the call returns. The filter in `applyRecords` that takes
DNSKEYs only from the DNSKEY answer for their owner is what keeps it: it is the
mutated definition of `ZoneKeysAuthentic`.

`WalkProofs` and `ChainProofs` (on top of `TrustProofs`, same generality):

- `CodesGoWithVerdicts`: `Spec => []CodeMatchesVerdict`.
- `AliasesLinkUp`: `Spec => []AliasesLinked`.
- `RedirectsAuthentic`: `Spec => []AliasesAuthentic`.
- `WalkImplementsValidation`: `Spec => ImplementsValidation`, the refinement.
- `ChainsGrow`: `Spec => ChainGrows`, a step property.
- `ChainsArePaths`: `Spec => []ChainIsPath`.
- `BogusChainsEnd`: `Spec => []BogusEndsChain`.
- `AnswersFoundAgain`: `Spec => []AskedOnce`.

The first two, and the ones of `ChainProofs`, do not use `HonestSigning`: they hold
for a walk over any signatures. `RedirectsAuthentic` does.

The argument. Every step of a call has one of ten shapes: it returns an error, a
loop, a bogus zone, bogus data or a verdict, or it starts a hop, goes on loading,
probes a cut, enters a zone or follows an alias. `StepShape` proves this once from
the actions, with what the checks of that branch found (a verified DS where a key
query comes next, a verified alias where one is followed); after that each invariant
is proved shape by shape. The strengthenings:

| property | invariant it is proved from | what the property alone does not say |
|---|---|---|
| `CodeMatchesVerdict` | `Decision` | while the call runs nothing is decided, whatever earlier hops combined to; so the outcome of the last hop writes into a clean Result |
| `AliasesLinked` | `Linked` | how the names seen, the hop count and the name in hand go together in each phase |
| `AliasesAuthentic` | `AliasAuthentic`, with `TrustInvariant` | the name a DNAME was applied to is among those walked, which only grow |
| `ImplementsValidation` | `Position` | the zone the walk stands in is above both the name in hand and the next cut, so the zone entered is strictly below it |
| `ChainIsPath` | `OnPath`, with `Position` | during the call every zone of the chain is signed and the current one is in it, and the DS of the zone being entered verified before its keys were asked for |
| `BogusEndsChain` | `FirstHop` | without redirects the chain ends with the zone the walk stands in and holds none with more labels, so a new step goes to its end and is not merged |
| `AskedOnce` | `Recalled`, with `Position` | what a call has had answered is in the cache, as are the question it has just loaded and the DS question that led to a key query; questions never leave the cache, whoever overwrites their answers |

`ChainGrows` needs types only: a step of a call changes a chain by merging into one
of its steps or by adding one at its end (`AddStepChain`).

`AbsenceProofs` (on top of `WalkProofs`):

- `AbsencesAttested`: `Spec => []AbsenceIsAttested`.

The counterpart of `SecureAnswersAuthentic` for verdicts that something is *not* there:
whatever the answers, and in whatever order the store lists them, Insecure rests on a
signed record that shows the delegation without DS, or an opt-out range over it; SecureNoData on
one at the name, at an empty non-terminal, or at the wildcard of the closest encloser;
SecureNXDomain on a range over the name (or the next closer name) and one over that
wildcard; an expanded answer (to any question but one for DNSKEY) on a range over its next closer name. `Attested` are the
NSEC and NSEC3 records that a signature made with the zone's own key, naming that zone
as signer, covers.

The argument. A candidate takes part in a proof only when its rrset verifies; with
`TrustInvariant` the store's keys are genuine where the proofs are made (at a leaf only
because no DNSKEY can have been found there), so the candidate is `Attested`
(`VerifiedIsAttested`). The shape of a returning step carries the proof it was made on
(`ProvenExpansion`, `ProvenAbsence`), for any outcome the undecided order allows. Then each of
the walker's proofs is shown to yield the records its verdict needs (`NoDataMeans`,
`NXDomainMeans`). The encloser is a `CHOOSE` of a longest ancestor, so that it is one at
all needs a maximum (`LongestIsMember`); that it is *there* needs that an end of the
covering range, or an NSEC3 that matches, is at or below it (`EncloserIsShown`,
`ClosestBelow`). `Decision` says that the verdict returned is the one of this hop.

What it does not say is that the records are of one publication, or that they are the
child's side of a cut. The first is why `AbsenceWasTrue` stays a property of an instance, the
second is the disagreement of run `lost_probe_nodata`. TLC has also checked
`AbsenceIsAttested` on the instance of `honest`, with NSEC3, opt-out and wildcards; the run
does not list it, for its time.

`HandlerProofs` (about `Handlers`), for any number of goroutines, registries,
factories and records:

- `HandlersTyped`: `Spec => []HandlersTypeOK`.
- `HandlersSafe`: `Spec => []HandlersInvariant`.
- `SharedRecordsIndependent`: `Spec => []RegistriesIndependent`.

From `RecordsAssumption` and `RegistryAssumption`. `RegistriesIndependent` speaks of
returned values only; `HandlersInvariant` adds that registries hold only what is
offered to them, that a cached handler was built by a factory offered in the
registry it is tagged with, and that the factory a call holds between lookup and
store was offered in the registry of that call.

`TransportProofs` (about `Transport` under `Failover`), for any number of servers,
whatever they do, and any timeout, dial limit and context:

- `CallsTyped`: `Spec => []TransportTypeOK`.
- `FailoverRight`: `Spec => []FailoverIsReference`.
- `CallsBounded`: `Spec => []BoundedInTime`.
- `ClientsAreResolvers`: `Spec => ImplementsResolver`, the refinement.

From `ServersAssumption` (servers do what the module lists, and only HTTP has status
and content type) and `TimesAssumption` (timers are positive; no deadline is later
than `Never`). The inductive `CallInvariant` has four parts. `Kinds`. `Clock`: time has
passed since the attempt began only where the network is waited for, up to that
wait's timer, and the attempts at server s began within s - 1 shares of
`2 * Timeout + OSDialLimit`. `Tried`: while the context lasts, and whenever a reply is being
read, no server passed over was one that must answer; the second half is what makes
an answer that arrives after the context has ended still the first one. `Result`: what a returned call says, which
no later end of the context undoes.

`WireProofs` (about `Wire`), for every message of octets and every pointer limit:

- `DecodingBounded`: `Spec => []WorkBounded`.
- `NamesDecoded`: `Spec => []NameIsReference`.
- `MessagesDecoded`: `Spec => []MessageIsReference`.

From `JobsAssumption`. For the bounds, `Decoding` adds to the bounds where the cursor is: labels are
at most the length of the message per pointer followed plus the cursor
(`Passes`), and the records read lie in eleven octets each before the start of the
entry in hand, whose end is past its start even when its name ended by a pointer
(`Room`). The bound on pointers is the mutated test of `ParseDomainName`.

For the results, the loops are compared with definitions that have no cursor:
`nameAt(m, p)`, the name that stands at p, and `fits(m)`, where n records follow each other.
Both are recursive functions, and what they compute is proved by induction. The library's
induction theorems take an operator and cannot be used here, but their set forms can:
`Induction` (a set of numbers closed under successor) from the well-foundedness of `<`
by `WFMin`, and `Recursion` (a function that equals its defining equation exists) from
that. `expansions(m)[k]` gives the names of fewer than k labels and pointers, and
`nameAt` takes k = Len(m) + 1. That this is enough for every name (`Enough`) is a
counting argument: a name that needs k rounds leads through places that need k - 1,
k - 2 and so on, all different and all within the message (`Ranked`, `RankBelow`, `RoundsFit`).

`Cursor` is the invariant for names. `Follows`: the name asked for is the labels read so far
before the name at the cursor, with the pointers followed added and the first one's end
kept. `Through`: from every place a pointer led to, the cursor was reached; so a name that meets such a place
again stands for nothing, and refusing it is right. `Records` is the one for messages: the
entries read are `placed`, and the message is well formed exactly when the entry in hand
and the ones left fit where the cursor is, which `OneLess` carries over a record.

`MasterFileProofs` (about `MasterFile`), for every text over any tokens and any zone to
begin with:

- `ReadersTyped`: `Spec => []MasterFileTypeOK`.
- `StrictAllOrNothing`: `Spec => ZoneAllOrNothing`.

From `TextsAssumption` (texts are sequences of lines of tokens; the zone at the start
is `WellKept`). `Reading` adds what the readers hold on the way (the TTLs carried, parsed
and kept all fit 32 bits, line numbers are lines of the text, the parenthesis depth
is a count) and `Untouched`: nothing has been added while a line is left that could
be wrong, and an error ends the call.

All these invariants also hold in TLC on the instances of the runs `shared`, `alias`,
`handlers`, `transport`, `wire` and `zonefile`: a module that extends the MC module and the
proof module, with the invariant in its cfg, is enough to try one. (Only
`TrustInvariant` is part of a run.)

## 6. What is only model-checked

- *Liveness*: `CallsReturn` and `ResolveReturns`. The refinements proved are the
  safety part of `Validation` and `Resolver`; that the call returns needs fairness and
  ENABLED, which the prover does not have. (That a network call cannot take more than its
  share of time per server is proved, `CallsBounded`; that the clock moves is not.)
- *Comparisons of two computations on texts and octets*: `VerdictIsReference`,
  `BitmapIsReference`, `QueryIsReadBack`, `StrictIsReference`, `LenientAgrees`,
  `ReceivedIsCanonical`, `HandlerMeansOctets`, `KeyTagIsRFC`, `TextIsWritten` and
  `ReceivedTypeOK`. They relate definitions built on sorting, folds and sums of the library
  (`SetToSortSeq`, `FlattenSeq`, `SumSet`, `MapThenSumSet`, `SelectSeq`), whose theorems need
  an operator as parameter, which the installed provers cannot instantiate. Where a
  definition is a recursive function of numbers, as for names and messages, induction in its set form
  does work (section 5).
- `AbsenceWasTrue`: that an absence was true in one publication does not follow from
  signed records alone, which may be of two; it is false outside the instance it is
  stated for (run `lost_probe_nodata`). The part that holds in general, that the
  records are the zone's and are all there, is proved: `AbsencesAttested`.

## 7. Not modelled, and known limits

Not modelled:

- `zone/loc.go`: LOC coordinates are fixed-point numbers around 2^31 computed in
  floating point, which TLC's integers do not hold. LOC is not in `Registered`.
- `dnssec/signer/bind.go`, `key.go`, `ds.go`: key file formats and key generation,
  without state; `dnssec/crypto.go` and `anchors.go`: cryptography and a file format.
- `types`: tables of mnemonics, met as values (`mnemonic`, `class`, `rrtype`).
- `cmd/dnsview`: flags and output around one `Validate`.
- `Clone`, `Print`, `String`, `TXTStrings`, `FindOption`, `WireToDomainName`, events,
  reason texts and key summaries of the Result.

Limits of the models of the walk:

- Case folding, escapes and the trailing dot of names are abstracted in `Names`: two
  spellings of a name are one value. `Octets` has them.
- Key modes ZSK and CSK of `dnssec` are not in `SigCheck`; the verifier uses neither.
- `CodeAliasTargetInvalid` and the no-ds branch of the key match have no action: they
  cannot be reached. `normalizeQName` turns an empty target into the root, a DNAME is
  looked for only above the name it is applied to, and the keys are matched only with
  a DS rrset in the store.
- A record that no registered handler can encode makes a check an ErrVerifier in the
  code; in the model the unsupported algorithm is the only check that cannot be
  carried out. `Received` has the encoding itself.
- A cached handler outlives a re-registration of its type (`zone/rr.go:146`); the
  code documents the caching and not what should happen then.
- A CNAME expanded from a wildcard is followed without a proof of the next closer
  name (`alias.go:20`); the alias is authentic (`AliasesAuthentic`), whether it was due is not
  checked.

What the models show of the codecs and no property is about:

- `ParseDomainName` does not enforce the 255-octet limit its comment assumes
  (`name_decompress.go:18-21`); `DecodeTypeBitmap` does not require ascending
  windows; `auth` and `doh` return some errors without their umbrella sentinel.
- Received RP, NAPTR and other types `RDataToString` does not know stay generic, so
  their names keep their case, while the same record from text is lowered.
- Labels with a dot in them are printed without an escape; `speakable` in
  `MCReceived` excludes them, and the empty TXT and the empty CAA tag.
- HINFO and NAPTR read a backslash before digits as itself, TXT and CAA as `\DDD`.
- Lenient reader: an inherited owner is qualified again, under the origin now in
  force; `$TTL 0` counts as none; parentheses that close on the line they open on are
  not closed; a continuation open at the end is lost; the number of `5h` is 5.
- Strict reader: a parenthesis opened where nothing follows and never closed is not
  noticed (`strict.go:89`: the line starts no entry).
- Not among the inputs: NSEC3 with an empty next hash, blanks inside a name, a CAA
  with a blank value and no tag.

## 8. Plan

Done, in this order: `Names` to `ChainWalk` and `ChainTrust` (the most important
behaviour), `Authority` and `Reference`, `Transport`, `Handlers`, `Wire`; the type
and trust theorems, the handler theorems; then `Octets`, `Presentation`, `Encoders`
and `Received`, `MasterFile`, `Query`, and the abstract `Validation` and `Resolver`
with their refinements.

Then the proofs of section 5: the results, the chain and the refinement of the
walk, the network clients, the bounds of decoding, the master-file readers; what names
and messages decode to, and what verdicts of absence rest on.

Next, proofs: the bitmap decoder against `decodeBitmap`, once `typesAt` is a recursive
function instead of a sorted set; what an NSEC chain of one publication adds to
`AbsencesAttested`.

Next, modelling: modes ZSK and CSK of `SigCheck`; re-signing of a signed zone in
`Authority`; whether the expansion of a wildcard CNAME was due.
