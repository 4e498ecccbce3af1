---------------------------- MODULE RegistryReaders ----------------------------
(***************************************************************************)
(* The two readers of the registries: the loop's display cache (main.py,   *)
(* _refresh_onchain_cache) and the HTTP API (api.py), while both           *)
(* registries go on being written.                                         *)
(*                                                                         *)
(* Each registry is a RecordLog, which GapwatchRegistry and                *)
(* GapwatchRegistryV2 are shown to implement.  V1 is on testnet and V2 on  *)
(* mainnet; which of them a handle reaches follows from the deployment     *)
(* file, GAPWATCH_NETWORK and the RPC that the caller pairs it with.       *)
(* Every call of a contract and every query of the table is a step.        *)
(***************************************************************************)
EXTENDS Naturals, Sequences, FiniteSets, SequencesExt

CONSTANTS
  Event,      \* transaction hashes
  Token,
  Fact,       \* records that can be written
  FactOf,     \* bound: the one that can be written of each event
  Deployment, \* deployment.json: the registries recorded for each network
  None,       \* SQL NULL, Python's None, and an unwritten record
  Limit,      \* the limit of a page
  MaxRows,    \* bound: rows of the table
  MaxRecords, \* bound: records in both registries
  MaxFlags,   \* bound: flagged events in both
  MaxMishaps  \* bound: failed calls, dropped sessions and deaths

Network == {"testnet", "mainnet"}

\* The keys of _REGISTRY_ABIS, in their order.
REGISTRY_KEYS == <<"GapwatchRegistry", "GapwatchRegistryV2">>

ASSUME ReadersAssumption ==
  /\ IsFiniteSet(Event) /\ None \notin Event \cup Fact \cup BOOLEAN
  /\ FactOf \in [Event -> Fact] /\ \A f \in Fact : f.token \in Token
  /\ Deployment \in [Network -> (SUBSET ToSet(REGISTRY_KEYS)) \ {{}}]
  /\ "GapwatchRegistryV2" \in Deployment["mainnet"]
  /\ Limit \in Nat \ {0} /\ MaxRows \in Nat /\ MaxRecords \in Nat /\ MaxFlags \in Nat /\ MaxMishaps \in Nat

VARIABLES
  network,                        \* GAPWATCH_NETWORK
  v1records, v1latest, v1flagged, \* GapwatchRegistry on testnet
  v2records, v2latest, v2flagged, \* GapwatchRegistryV2 on mainnet
  events,                         \* the table's rows, in order of id
  worker,                         \* the loop in _refresh_onchain_cache
  request,                        \* a request to the API
  mishaps

v1 == <<v1records, v1latest, v1flagged>>
v2 == <<v2records, v2latest, v2flagged>>
vars == <<network, v1, v2, events, worker, request, mishaps>>

V1 == INSTANCE RecordLog WITH Subject <- Token, NoRecord <- None, NoEvent <- None,
                              records <- v1records, latest <- v1latest, flagged <- v1flagged

V2 == INSTANCE RecordLog WITH Subject <- Token, NoRecord <- None, NoEvent <- None,
                              records <- v2records, latest <- v2latest, flagged <- v2flagged

NoTick == [pc |-> "asleep", id |-> 0, todo |-> <<>>, session |-> "fresh", due |-> {}, missed |-> {}]

NoRequest == [kind |-> "none"]

Init ==
  /\ network \in Network
  /\ V1!Init /\ V2!Init
  /\ events = <<>>
  /\ worker = NoTick
  /\ request = NoRequest
  /\ mishaps = 0

-----------------------------------------------------------------------------
(* Handles *)

\* The first key that deployment.json records for the network.
ResolveRegistry(net) == Head(SelectSeq(REGISTRY_KEYS, LAMBDA key : key \in Deployment[net]))

registry_contract(rpc) == [key |-> ResolveRegistry(network), deployed_on |-> network, rpc |-> rpc]

V2_NETWORK == "mainnet"

registry_v2_contract(rpc) == [key |-> "GapwatchRegistryV2", deployed_on |-> V2_NETWORK, rpc |-> rpc]

RegistryFor(source) ==
  IF source = "v2" THEN registry_v2_contract("mainnet") ELSE registry_contract("testnet")

\* At an address that holds no code every call fails to decode.
Reachable(handle) == handle.deployed_on = handle.rpc

V1Log == [records |-> v1records, latest |-> v1latest, flagged |-> v1flagged]
V2Log == [records |-> v2records, latest |-> v2latest, flagged |-> v2flagged]

Log(handle) == IF handle.key = "GapwatchRegistry" THEN V1Log ELSE V2Log

RecordedIn(log) == {e \in Event : log.records[e] # None}

-----------------------------------------------------------------------------
(* The registries and the pipeline go on *)

Records == Cardinality(RecordedIn(V1Log)) + Cardinality(RecordedIn(V2Log))

WriteRecord(e) ==
  /\ Records < MaxRecords
  /\ \/ network = "testnet" /\ V1!Write(e, FactOf[e]) /\ UNCHANGED v2   \* no handle of "mainnet" reaches V1
     \/ V2!Write(e, FactOf[e]) /\ UNCHANGED v1
  /\ UNCHANGED <<network, events, worker, request, mishaps>>

FlagRecord(e) ==
  /\ Cardinality(v1flagged) + Cardinality(v2flagged) < MaxFlags
  /\ \/ V1!Flag(e) /\ UNCHANGED v2
     \/ V2!Flag(e) /\ UNCHANGED v1
  /\ UNCHANGED <<network, events, worker, request, mishaps>>

\* There is no uniqueness on tx_hash: a row of the same event may be there.
InsertRow(e) ==
  /\ Len(events) < MaxRows
  /\ events' = Append(events, [tx_hash |-> e, onchain_verified_cache |-> None])
  /\ UNCHANGED <<network, v1, v2, worker, request, mishaps>>

-----------------------------------------------------------------------------
(* _refresh_onchain_cache *)

CacheHandle_FollowsNetwork == registry_contract(network)   \* seeded fault: the RPC is the network's

CacheHandle == registry_contract("testnet")

Verified(id) == events[id].tx_hash \in RecordedIn(Log(CacheHandle))

Cached(id) == events[id].onchain_verified_cache = TRUE

\* The next row of the snapshot, or the end of the tick.
Following(w) ==
  IF w.todo = <<>> THEN [w EXCEPT !.pc = "done", !.id = 0]
  ELSE [w EXCEPT !.pc = "row", !.id = Head(w.todo), !.todo = Tail(w.todo)]

StartTick ==
  /\ worker.pc = "asleep"
  /\ worker' = Following([NoTick EXCEPT !.todo = [id \in DOMAIN events |-> id],
                                        !.due = {id \in DOMAIN events : Verified(id)}])
  /\ UNCHANGED <<network, v1, v2, events, request, mishaps>>

AfterCached_Stops(w) == [w EXCEPT !.pc = "done", !.id = 0]   \* seeded fault: break for continue

AfterCached(w) == Following(w)

\* The snapshot's value is still the row's.
SkipCached ==
  /\ worker.pc = "row" /\ Cached(worker.id)
  /\ worker' = AfterCached(worker)
  /\ UNCHANGED <<network, v1, v2, events, request, mishaps>>

Writes_Always(verified) == TRUE   \* seeded fault: every answer is written

Writes(verified) == verified

\* The answer True is written; False is what the column of an uncached row
\* already counts as.  Only this loop writes the column: the write is one step
\* with the call.
Answered(w) ==
  /\ Reachable(CacheHandle)
  /\ events' = IF Writes(Verified(w.id))
               THEN [events EXCEPT ![w.id].onchain_verified_cache = Verified(w.id)] ELSE events
  /\ worker' = Following(w)
  /\ UNCHANGED <<network, v1, v2, request, mishaps>>

AskChain == worker.pc = "row" /\ ~Cached(worker.id) /\ worker.session = "fresh" /\ Answered(worker)

AfterDrop_Continues(w) == Following(w)   \* seeded fault: the row is left for the next tick

AfterDrop(w) == [w EXCEPT !.pc = "rebuild"]

\* ConnectionError: the pooled connection was dropped.
FindDropped ==
  /\ worker.pc = "row" /\ ~Cached(worker.id) /\ worker.session = "dropped"
  /\ worker' = AfterDrop(worker)
  /\ UNCHANGED <<network, v1, v2, events, request, mishaps>>

\* A fresh session, kept for the rows that follow, and the call once more.
RebuildAndRetry == worker.pc = "rebuild" /\ Answered([worker EXCEPT !.session = "fresh"])

\* Any other failure, and any failure of the retry: the next row.
AskFails ==
  /\ \/ worker.pc = "rebuild"
     \/ worker.pc = "row" /\ ~Cached(worker.id) /\ worker.session = "fresh"
  /\ IF Reachable(CacheHandle) THEN mishaps < MaxMishaps /\ mishaps' = mishaps + 1 ELSE UNCHANGED mishaps
  /\ worker' = Following([worker EXCEPT !.session = "fresh", !.missed = @ \cup {worker.id}])
  /\ UNCHANGED <<network, v1, v2, events, request>>

Sleep ==
  /\ worker.pc = "done"
  /\ worker' = NoTick
  /\ UNCHANGED <<network, v1, v2, events, request, mishaps>>

Mishap == mishaps < MaxMishaps /\ mishaps' = mishaps + 1

DropSession ==
  /\ worker.pc = "row" /\ worker.session = "fresh" /\ Mishap
  /\ worker' = [worker EXCEPT !.session = "dropped"]
  /\ UNCHANGED <<network, v1, v2, events, request>>

LoopDies ==
  /\ worker.pc # "asleep" /\ Mishap
  /\ worker' = NoTick
  /\ UNCHANGED <<network, v1, v2, events, request>>

-----------------------------------------------------------------------------
(* The API *)

answering == <<network, v1, v2, events, worker, mishaps>>

Idle == request.kind = "none"

Respond(response) == request' = [request EXCEPT !.pc = "answered", !.response = response]

Return == request.kind # "none" /\ request.pc = "answered" /\ request' = NoRequest /\ UNCHANGED answering

\* 503 for a call that fails, and for a handle that reaches nothing.
RpcError ==
  /\ request.kind \in {"detail", "status"} /\ request.pc # "answered"
  /\ IF Reachable(RegistryFor(request.source)) THEN Mishap ELSE UNCHANGED mishaps
  /\ request' = NoRequest
  /\ UNCHANGED <<network, v1, v2, events, worker>>

\* GET /events/{event_id}: the row, then the chain.  An id without a row is a 404.
GetEvent(id, source) ==
  /\ Idle /\ id \in DOMAIN events
  /\ request' = [kind |-> "detail", pc |-> "row", source |-> source, row |-> events[id], response |-> None,
                 was_recorded |-> events[id].tx_hash \in RecordedIn(Log(RegistryFor(source)))]
  /\ UNCHANGED answering

LookUp_Cached(log, row) ==   \* seeded fault: the chain is asked only about a row with the badge
  IF row.onchain_verified_cache = TRUE THEN log.records[row.tx_hash] ELSE None

LookUp(log, row) == log.records[row.tx_hash]

GetEventOnchain ==
  /\ request.kind = "detail" /\ request.pc = "row"
  /\ Reachable(RegistryFor(request.source))
  /\ Respond(LookUp(Log(RegistryFor(request.source)), request.row))
  /\ UNCHANGED answering

\* GET /tokens/{token_address}/verification-status: three calls.
GetStatus(token, source) ==
  LET log == Log(RegistryFor(source)) IN
  /\ Idle
  /\ Reachable(RegistryFor(source))
  /\ request' = [kind |-> "status", pc |-> IF log.latest[token] = None THEN "answered" ELSE "latest",
                 source |-> source, token |-> token,
                 was_recorded |-> \E e \in RecordedIn(log) : log.records[e].token = token,
                 was_flagged |-> log.latest[token] \in log.flagged,
                 hash |-> log.latest[token], has_discrepancy |-> None, verification |-> None]
  /\ UNCHANGED answering

StatusDiscrepancy ==
  /\ request.kind = "status" /\ request.pc = "latest"
  /\ request' = [request EXCEPT !.pc = "flag",
                   !.has_discrepancy = request.hash \in Log(RegistryFor(request.source)).flagged]
  /\ UNCHANGED answering

VerificationOf_Latest(log, r) == log.records[log.latest[r.token]]   \* seeded fault: the pointer is read again

VerificationOf(log, r) == log.records[r.hash]

StatusVerification ==
  /\ request.kind = "status" /\ request.pc = "flag"
  /\ request' = [request EXCEPT !.pc = "answered",
                   !.verification = VerificationOf(Log(RegistryFor(request.source)), request)]
  /\ UNCHANGED answering

Ordered_NewestFirst(ids) == Reverse(ids)   \* seeded fault: ORDER BY id DESC

Ordered(ids) == ids   \* ORDER BY id

Page(offset) ==
  LET ids == Ordered([id \in DOMAIN events |-> id])
  IN  SubSeq(ids, offset + 1, IF offset + Limit < Len(ids) THEN offset + Limit ELSE Len(ids))

\* A client reads GET /events page by page until one is short; every page is a
\* query of its own.
GetPage ==
  LET first == Idle
      offset == IF first THEN 0 ELSE request.offset + Limit
      pages == IF first THEN <<>> ELSE request.pages
  IN  /\ first \/ (request.kind = "list" /\ request.pc = "page")
      /\ request' = [kind |-> "list", pc |-> IF Len(Page(offset)) = Limit THEN "page" ELSE "answered",
                     offset |-> offset, pages |-> pages \o Page(offset),
                     begun |-> IF first THEN DOMAIN events ELSE request.begun]
      /\ UNCHANGED answering

-----------------------------------------------------------------------------

Loop ==
  StartTick \/ SkipCached \/ AskChain \/ FindDropped \/ RebuildAndRetry \/ AskFails \/ Sleep

Api ==
  \/ \E source \in {"v1", "v2"} :
       \/ \E id \in 1..MaxRows : GetEvent(id, source)
       \/ \E token \in Token : GetStatus(token, source)
  \/ GetEventOnchain \/ StatusDiscrepancy \/ StatusVerification \/ GetPage \/ RpcError \/ Return

Next ==
  \/ \E e \in Event : WriteRecord(e) \/ FlagRecord(e) \/ InsertRow(e)
  \/ Loop \/ DropSession \/ LoopDies \/ Api

\* The loop sleeps between ticks and goes on whatever happens in one.
Spec == Init /\ [][Next]_vars /\ WF_vars(Loop)

-----------------------------------------------------------------------------
(* Properties *)

LogState == [records : [Event -> Fact \cup {None}], latest : [Token -> Event \cup {None}], flagged : SUBSET Event]

EventRow == [tx_hash : Event, onchain_verified_cache : {TRUE, None}]

WorkerState(ids) ==
  [pc : {"asleep", "row", "rebuild", "done"}, id : ids \cup {0}, todo : Seq(ids),
   session : {"fresh", "dropped"}, due : SUBSET ids, missed : SUBSET ids]

DetailRequest ==
  [kind : {"detail"}, pc : {"row", "answered"}, source : {"v1", "v2"}, row : EventRow,
   response : Fact \cup {None}, was_recorded : BOOLEAN]

StatusRequest ==
  [kind : {"status"}, pc : {"latest", "flag", "answered"}, source : {"v1", "v2"}, token : Token,
   was_recorded : BOOLEAN, was_flagged : BOOLEAN,
   hash : Event \cup {None}, has_discrepancy : BOOLEAN \cup {None}, verification : Fact \cup {None}]

ListRequest(ids) ==
  [kind : {"list"}, pc : {"page", "answered"}, offset : Nat, pages : Seq(ids), begun : SUBSET ids]

RequestState(ids) == {NoRequest} \cup DetailRequest \cup StatusRequest \cup ListRequest(ids)

TypeOK ==
  /\ network \in Network
  /\ V1Log \in LogState /\ V2Log \in LogState
  /\ events \in Seq(EventRow) /\ Len(events) <= MaxRows
  /\ worker \in WorkerState(DOMAIN events)
  /\ request \in RequestState(DOMAIN events)
  /\ Records \in 0..MaxRecords /\ mishaps \in 0..MaxMishaps

\* The badge of the list never says more than the page behind it: a row with the
\* badge is recorded in the registry that GET /events/{id} asks by default, and
\* that registry can be reached (api.py 9-14).
BadgeIsBacked ==
  \A id \in DOMAIN events :
    Cached(id) =>
      /\ Reachable(RegistryFor("v1"))
      /\ events[id].tx_hash \in RecordedIn(Log(RegistryFor("v1")))

\* A tick leaves no row behind that was recorded when it began, but for those
\* whose own calls failed: neither a dropped session nor another row's failure
\* costs a row its turn (main.py 52-74).
TickCatchesUp ==
  worker.pc = "done" => \A id \in worker.due \ worker.missed : Cached(id)

\* On testnet a row that is recorded gets its badge, however often the session is
\* dropped or the process dies.
RecordedIsCached ==
  \A id \in 1..MaxRows :
    network = "testnet" /\ id \in DOMAIN events /\ Verified(id) ~> id \in DOMAIN events /\ Cached(id)

Answer(kind) == request.kind = kind /\ request.pc = "answered"

\* GET /events/{id} is never behind: it says null only of an event that had no
\* record when the request began, and otherwise gives the record itself, whatever
\* the badge says and whatever was written in between (api.py 11-14).
DetailNeverStale ==
  Answer("detail") =>
    IF request.response = None THEN ~request.was_recorded
    ELSE request.response = Log(RegistryFor(request.source)).records[request.row.tx_hash]

\* The three calls of verification-status make one answer, whatever is written
\* between them: "never verified" only of a token that had no record, and otherwise
\* the fields of the very record whose hash it gives, about this token, with that
\* record's own flag if it was raised before the request and none that nobody
\* raised (api.py 233-234).
StatusIsTruthful ==
  Answer("status") =>
    LET log == Log(RegistryFor(request.source)) IN
    IF request.hash = None THEN ~request.was_recorded
    ELSE /\ request.verification = log.records[request.hash]
         /\ request.verification.token = request.token
         /\ request.was_flagged => request.has_discrepancy
         /\ request.has_discrepancy => request.hash \in log.flagged

\* Rows are added while a client pages: it still gets every row that was there when
\* it began, and none twice (api.py 99-111, event_store 182).
PagesCoverAll ==
  Answer("list") => request.begun \subseteq ToSet(request.pages) /\ IsInjective(request.pages)
=============================================================================
