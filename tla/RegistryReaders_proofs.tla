------------------------- MODULE RegistryReaders_proofs -------------------------
(***************************************************************************)
(* Theorems about RegistryReaders, for any events, tokens and deployment,  *)
(* any page limit and any number of rows, records, flags and mishaps.      *)
(***************************************************************************)
EXTENDS RegistryReaders, FiniteSetTheorems, SequenceTheorems, TLAPS

-----------------------------------------------------------------------------
(* The inductive invariant *)

\* A token's pointer leads to a record of the token, and is there once it has one.
LogOK(log) ==
  /\ \A t \in Token : log.latest[t] # None =>
       log.latest[t] \in RecordedIn(log) /\ log.records[log.latest[t]].token = t
  /\ \A e \in RecordedIn(log) : log.latest[log.records[e].token] # None

\* A row that was due is still to come, unless it has its badge or its call failed.
WorkerOK ==
  /\ worker.pc \in {"row", "rebuild"} => worker.id \in DOMAIN events
  /\ worker.pc = "done" => worker.id = 0 /\ worker.todo = <<>>
  /\ \A id \in worker.due : Verified(id)
  /\ \A id \in worker.due \ worker.missed :
       Cached(id) \/ id = worker.id \/ id \in ToSet(worker.todo)

DetailOK(r, log) ==
  /\ r.was_recorded => r.row.tx_hash \in RecordedIn(log)
  /\ r.pc = "answered" =>
       IF r.response = None THEN ~r.was_recorded ELSE r.response = log.records[r.row.tx_hash]

\* From its first call on an answer is about one record, which does not change.
StatusOK(r, log) ==
  /\ r.hash = None => r.pc = "answered" /\ ~r.was_recorded
  /\ r.hash # None =>
       /\ r.hash \in RecordedIn(log) /\ log.records[r.hash].token = r.token
       /\ r.was_flagged => r.hash \in log.flagged
       /\ r.pc \in {"flag", "answered"} =>
            /\ r.has_discrepancy \in BOOLEAN
            /\ r.was_flagged => r.has_discrepancy
            /\ r.has_discrepancy => r.hash \in log.flagged
       /\ r.pc = "answered" => r.verification = log.records[r.hash]

\* The pages so far are the table's first rows, each once.
ListOK(r) ==
  /\ \A i \in DOMAIN r.pages : r.pages[i] = i
  /\ r.pc = "page" => Len(r.pages) = r.offset + Limit
  /\ r.pc = "answered" => r.begun \subseteq DOMAIN r.pages

RequestOK ==
  /\ request.kind = "detail" => DetailOK(request, Log(RegistryFor(request.source)))
  /\ request.kind = "status" => StatusOK(request, Log(RegistryFor(request.source)))
  /\ request.kind = "list" => ListOK(request)

Inv ==
  /\ TypeOK
  /\ LogOK(V1Log) /\ LogOK(V2Log)
  /\ BadgeIsBacked /\ WorkerOK
  /\ RequestOK

-----------------------------------------------------------------------------
(* The registries *)

\* What no write takes back.
LogGoesOn(old, new) ==
  /\ \A e \in RecordedIn(old) : new.records[e] = old.records[e]
  /\ old.flagged \subseteq new.flagged

LEMMA RecordAdded ==
  ASSUME NEW log \in LogState, LogOK(log), NEW e \in Event, NEW f \in Fact, log.records[e] = None, NEW new,
         new.records = [log.records EXCEPT ![e] = f],
         new.latest = [log.latest EXCEPT ![f.token] = e], new.flagged = log.flagged
  PROVE  LogOK(new) /\ LogGoesOn(log, new) /\ e \notin RecordedIn(log) /\ RecordedIn(new) = RecordedIn(log) \cup {e}
<1>1. /\ log.records \in [Event -> Fact \cup {None}] /\ log.latest \in [Token -> Event \cup {None}]
      /\ f.token \in Token /\ f # None /\ e # None
  BY ReadersAssumption DEF LogState
<1>2. new.records[e] = f /\ \A d \in Event : d # e => new.records[d] = log.records[d]
  BY <1>1
<1>3. e \notin RecordedIn(log) /\ RecordedIn(new) = RecordedIn(log) \cup {e}
  BY <1>1, <1>2 DEF RecordedIn
<1>4. new.latest[f.token] = e /\ \A t \in Token : t # f.token => new.latest[t] = log.latest[t]
  BY <1>1
<1>5. \A d \in RecordedIn(log) : new.records[d] = log.records[d] /\ log.records[d].token \in Token
  BY <1>1, <1>2, <1>3, ReadersAssumption DEF RecordedIn
<1>6. LogOK(new)
  <2>1. ASSUME NEW t \in Token, new.latest[t] # None
        PROVE  new.latest[t] \in RecordedIn(new) /\ new.records[new.latest[t]].token = t
    BY <1>2, <1>3, <1>4, <1>5, <2>1 DEF LogOK
  <2>2. ASSUME NEW d \in RecordedIn(new)
        PROVE  new.latest[new.records[d].token] # None
    BY <1>1, <1>2, <1>3, <1>4, <1>5, <2>2 DEF LogOK
  <2> QED
    BY <2>1, <2>2 DEF LogOK
<1> QED
  BY <1>3, <1>5, <1>6 DEF LogGoesOn

LEMMA FlagAdded ==
  ASSUME NEW log \in LogState, LogOK(log), NEW e \in Event, NEW new, new.records = log.records,
         new.latest = log.latest, new.flagged = log.flagged \cup {e}
  PROVE  LogOK(new) /\ LogGoesOn(log, new) /\ RecordedIn(new) = RecordedIn(log)
BY DEF LogOK, LogGoesOn, RecordedIn

LEMMA RecordsAreFinite ==
  ASSUME NEW log
  PROVE  IsFiniteSet(RecordedIn(log)) /\ Cardinality(RecordedIn(log)) \in Nat
<1>1. IsFiniteSet(RecordedIn(log))
  BY FS_Subset, ReadersAssumption DEF RecordedIn
<1> QED
  BY <1>1, FS_CardinalityType

\* Both logs, in every step.
LogsOK ==
  /\ V1Log \in LogState /\ V2Log \in LogState
  /\ LogOK(V1Log) /\ LogOK(V2Log) /\ Records \in 0..MaxRecords

LogsGoOn == LogGoesOn(V1Log, V1Log') /\ LogGoesOn(V2Log, V2Log')

LEMMA NextLogs ==
  ASSUME LogsOK, Next
  PROVE  LogsOK' /\ LogsGoOn /\ network' = network
<1>1. CASE UNCHANGED <<network, v1, v2>>
  <2>1. V1Log' = V1Log /\ V2Log' = V2Log /\ network' = network /\ Records' = Records
    BY <1>1 DEF v1, v2, V1Log, V2Log, Records, RecordedIn
  <2> QED
    BY <2>1 DEF LogsOK, LogsGoOn, LogGoesOn, LogOK, RecordedIn
<1>2. ASSUME NEW e \in Event, WriteRecord(e)
      PROVE  LogsOK' /\ LogsGoOn /\ network' = network
  <2>1. FactOf[e] \in Fact /\ Records < MaxRecords /\ network' = network
    BY <1>2, ReadersAssumption DEF WriteRecord
  <2>2. CASE V1!Write(e, FactOf[e]) /\ UNCHANGED v2
    <3>1. /\ V1Log.records[e] = None
          /\ V1Log'.records = [V1Log.records EXCEPT ![e] = FactOf[e]]
          /\ V1Log'.latest = [V1Log.latest EXCEPT ![FactOf[e].token] = e]
          /\ V1Log'.flagged = V1Log.flagged /\ V2Log' = V2Log
      BY <2>2 DEF V1!Write, V1!Written, V1Log, V2Log, v2
    <3>2. V1Log' \in LogState
      BY <2>1, <2>2, <3>1, ReadersAssumption DEF V1!Write, V1Log, LogState, LogsOK
    <3>3. /\ LogOK(V1Log') /\ LogGoesOn(V1Log, V1Log')
          /\ e \notin RecordedIn(V1Log) /\ RecordedIn(V1Log') = RecordedIn(V1Log) \cup {e}
      BY <2>1, <3>1, RecordAdded DEF LogsOK
    <3>4. Cardinality(RecordedIn(V1Log')) = Cardinality(RecordedIn(V1Log)) + 1
      BY <3>3, RecordsAreFinite, FS_AddElement
    <3> QED
      BY <2>1, <3>1, <3>2, <3>3, <3>4, RecordsAreFinite, ReadersAssumption
      DEF LogsOK, LogsGoOn, LogGoesOn, Records
  <2>3. CASE V2!Write(e, FactOf[e]) /\ UNCHANGED v1
    <3>1. /\ V2Log.records[e] = None
          /\ V2Log'.records = [V2Log.records EXCEPT ![e] = FactOf[e]]
          /\ V2Log'.latest = [V2Log.latest EXCEPT ![FactOf[e].token] = e]
          /\ V2Log'.flagged = V2Log.flagged /\ V1Log' = V1Log
      BY <2>3 DEF V2!Write, V2!Written, V1Log, V2Log, v1
    <3>2. V2Log' \in LogState
      BY <2>1, <2>3, <3>1, ReadersAssumption DEF V2!Write, V2Log, LogState, LogsOK
    <3>3. /\ LogOK(V2Log') /\ LogGoesOn(V2Log, V2Log')
          /\ e \notin RecordedIn(V2Log) /\ RecordedIn(V2Log') = RecordedIn(V2Log) \cup {e}
      BY <2>1, <3>1, RecordAdded DEF LogsOK
    <3>4. Cardinality(RecordedIn(V2Log')) = Cardinality(RecordedIn(V2Log)) + 1
      BY <3>3, RecordsAreFinite, FS_AddElement
    <3> QED
      BY <2>1, <3>1, <3>2, <3>3, <3>4, RecordsAreFinite, ReadersAssumption
      DEF LogsOK, LogsGoOn, LogGoesOn, Records
  <2> QED
    BY <1>2, <2>2, <2>3 DEF WriteRecord
<1>3. ASSUME NEW e \in Event, FlagRecord(e)
      PROVE  LogsOK' /\ LogsGoOn /\ network' = network
  <2>1. network' = network
    BY <1>3 DEF FlagRecord
  <2>2. CASE V1!Flag(e) /\ UNCHANGED v2
    <3>1. /\ V1Log'.records = V1Log.records /\ V1Log'.latest = V1Log.latest
          /\ V1Log'.flagged = V1Log.flagged \cup {e} /\ V2Log' = V2Log
      BY <2>2 DEF V1!Flag, V1Log, V2Log, v2
    <3>2. V1Log' \in LogState
      BY <2>2, <3>1 DEF V1!Flag, V1Log, LogState, LogsOK
    <3>3. LogOK(V1Log') /\ LogGoesOn(V1Log, V1Log') /\ RecordedIn(V1Log') = RecordedIn(V1Log)
      BY <3>1, FlagAdded DEF LogsOK
    <3> QED
      BY <2>1, <3>1, <3>2, <3>3 DEF LogsOK, LogsGoOn, LogGoesOn, Records
  <2>3. CASE V2!Flag(e) /\ UNCHANGED v1
    <3>1. /\ V2Log'.records = V2Log.records /\ V2Log'.latest = V2Log.latest
          /\ V2Log'.flagged = V2Log.flagged \cup {e} /\ V1Log' = V1Log
      BY <2>3 DEF V2!Flag, V1Log, V2Log, v1
    <3>2. V2Log' \in LogState
      BY <2>3, <3>1 DEF V2!Flag, V2Log, LogState, LogsOK
    <3>3. LogOK(V2Log') /\ LogGoesOn(V2Log, V2Log') /\ RecordedIn(V2Log') = RecordedIn(V2Log)
      BY <3>1, FlagAdded DEF LogsOK
    <3> QED
      BY <2>1, <3>1, <3>2, <3>3 DEF LogsOK, LogsGoOn, LogGoesOn, Records
  <2> QED
    BY <1>3, <2>2, <2>3 DEF FlagRecord
<1>4. ASSUME NEW e \in Event, InsertRow(e)
      PROVE  UNCHANGED <<network, v1, v2>>
  BY <1>4 DEF InsertRow
<1>5. CASE Loop \/ DropSession \/ LoopDies
  BY <1>1, <1>5 DEF Loop, DropSession, LoopDies, StartTick, SkipCached, AskChain, FindDropped, RebuildAndRetry,
     AskFails, Sleep, Answered
<1>6. CASE Api
  BY <1>1, <1>6 DEF Api, GetEvent, GetStatus, GetEventOnchain, StatusDiscrepancy, StatusVerification, GetPage,
     RpcError, Return, answering
<1> QED
  BY <1>1, <1>2, <1>3, <1>4, <1>5, <1>6 DEF Next

\* The registry that a handle reaches stays the same, and goes on.
LEMMA HandlesGoOn ==
  ASSUME LogsOK, Next, NEW source \in {"v1", "v2"}
  PROVE  LET log == Log(RegistryFor(source)) IN
         /\ log \in LogState /\ LogOK(log) /\ LogGoesOn(log, log')
         /\ Reachable(RegistryFor(source))' = Reachable(RegistryFor(source))
<1>1. RegistryFor(source)' = RegistryFor(source)
  BY NextLogs DEF RegistryFor, registry_contract, registry_v2_contract, V2_NETWORK
<1>2. Log(RegistryFor(source)) \in {V1Log, V2Log}
  BY DEF Log
<1>3. \/ Log(RegistryFor(source)) = V1Log /\ Log(RegistryFor(source))' = V1Log'
      \/ Log(RegistryFor(source)) = V2Log /\ Log(RegistryFor(source))' = V2Log'
  BY <1>1 DEF Log
<1> QED
  BY <1>1, <1>3, NextLogs DEF LogsOK, LogsGoOn, Reachable

LEMMA CacheAsksFirstRegistry ==
  /\ CacheHandle = RegistryFor("v1") /\ CacheHandle' = RegistryFor("v1")'
  /\ Log(CacheHandle) = Log(RegistryFor("v1")) /\ Log(CacheHandle)' = Log(RegistryFor("v1"))'
BY DEF Log, CacheHandle, RegistryFor

-----------------------------------------------------------------------------
(* The table and its badges *)

TableOK == events \in Seq(EventRow) /\ Len(events) <= MaxRows

\* Rows and badges stay, and a badge is given only to what the chain answers for.
RowsGoOn ==
  /\ DOMAIN events \subseteq DOMAIN events'
  /\ \A id \in DOMAIN events : events'[id].tx_hash = events[id].tx_hash /\ (Cached(id) => Cached(id)')
  /\ \A id \in DOMAIN events' :
       Cached(id)' => id \in DOMAIN events /\ (Cached(id) \/ (Verified(id) /\ Reachable(CacheHandle)))

LEMMA AnsweredRows ==
  ASSUME TableOK, NEW w, NEW row \in DOMAIN events, row = w.id, Answered(w)
  PROVE  TableOK' /\ RowsGoOn /\ (Verified(row) => Cached(row)')
<1>1. events \in Seq(EventRow) /\ events[row] \in EventRow
  BY DEF TableOK
<1>2. CASE Verified(row)
  <2> DEFINE new == [events[row] EXCEPT !.onchain_verified_cache = TRUE]
  <2>1. events' = [events EXCEPT ![row] = new]
    <3>1. Verified(row) = TRUE
      BY <1>2 DEF Verified
    <3> QED
      BY <1>2, <3>1 DEF Answered, Writes
  <2>2. new \in EventRow /\ new.tx_hash = events[row].tx_hash /\ new.onchain_verified_cache = TRUE
    BY <1>1 DEF EventRow
  <2> HIDE DEF new
  <2>3. /\ events' \in Seq(EventRow) /\ Len(events') = Len(events) /\ DOMAIN events' = DOMAIN events
        /\ \A id \in DOMAIN events : events'[id] = IF id = row THEN new ELSE events[id]
    BY <1>1, <2>1, <2>2
  <2>4. Reachable(CacheHandle)
    BY DEF Answered
  <2> QED
    BY <1>2, <2>2, <2>3, <2>4 DEF TableOK, RowsGoOn, Cached
<1>3. CASE ~Verified(row)
  <2>1. events' = events
    BY <1>3 DEF Answered, Writes
  <2> QED
    BY <1>3, <2>1 DEF TableOK, RowsGoOn, Cached
<1> QED
  BY <1>2, <1>3

LEMMA NextTable ==
  ASSUME TableOK, WorkerOK, Next
  PROVE  TableOK' /\ RowsGoOn
<1>1. CASE UNCHANGED events
  BY <1>1 DEF TableOK, RowsGoOn, Cached
<1>2. ASSUME NEW e \in Event, InsertRow(e)
      PROVE  TableOK' /\ RowsGoOn
  <2> DEFINE new == [tx_hash |-> e, onchain_verified_cache |-> None]
  <2>1. events \in Seq(EventRow) /\ Len(events) < MaxRows /\ events' = Append(events, new)
    BY <1>2 DEF InsertRow, TableOK
  <2>2. new \in EventRow /\ new.onchain_verified_cache # TRUE
    BY ReadersAssumption DEF EventRow
  <2> HIDE DEF new
  <2>3. /\ events' \in Seq(EventRow) /\ Len(events') = Len(events) + 1 /\ Len(events) \in Nat
        /\ DOMAIN events = 1..Len(events) /\ DOMAIN events' = 1..(Len(events) + 1)
        /\ \A id \in 1..Len(events) : events'[id] = events[id]
        /\ events'[Len(events) + 1] = new
    BY <2>1, <2>2
  <2>4. DOMAIN events' = DOMAIN events \cup {Len(events) + 1}
    BY <2>3
  <2>5. RowsGoOn
    BY <2>2, <2>3, <2>4 DEF RowsGoOn, Cached
  <2>6. Len(events') <= MaxRows
    BY <2>1, <2>3, ReadersAssumption
  <2> QED
    BY <2>3, <2>5, <2>6 DEF TableOK
<1>3. CASE AskChain
  <2>1. PICK w : w = worker
    OBVIOUS
  <2>2. PICK row \in DOMAIN events : row = w.id
    BY <1>3, <2>1 DEF AskChain, WorkerOK
  <2> QED
    BY <1>3, <2>1, <2>2, AnsweredRows DEF AskChain
<1>4. CASE RebuildAndRetry
  <2>1. PICK w : w = [worker EXCEPT !.session = "fresh"]
    OBVIOUS
  <2>2. PICK row \in DOMAIN events : row = w.id
    BY <1>4, <2>1 DEF RebuildAndRetry, WorkerOK
  <2> QED
    BY <1>4, <2>1, <2>2, AnsweredRows DEF RebuildAndRetry
<1>5. ASSUME NEW e \in Event, WriteRecord(e) \/ FlagRecord(e)
      PROVE  UNCHANGED events
  BY <1>5 DEF WriteRecord, FlagRecord
<1>6. CASE StartTick \/ SkipCached \/ FindDropped \/ AskFails \/ Sleep \/ DropSession \/ LoopDies \/ Api
  BY <1>1, <1>6 DEF StartTick, SkipCached, FindDropped, AskFails, Sleep, DropSession, LoopDies, Api, GetEvent,
     GetStatus, GetEventOnchain, StatusDiscrepancy, StatusVerification, GetPage, RpcError, Return, answering
<1> QED
  BY <1>1, <1>2, <1>3, <1>4, <1>5, <1>6 DEF Next, Loop

\* What the chain has answered for a row it goes on answering.
LEMMA VerifiedStays ==
  ASSUME LogsOK, TableOK, WorkerOK, Next, NEW id \in DOMAIN events
  PROVE  Verified(id) => Verified(id)'
<1>1. LogGoesOn(Log(CacheHandle), Log(CacheHandle)')
  BY HandlesGoOn, CacheAsksFirstRegistry
<1>2. events'[id].tx_hash = events[id].tx_hash
  BY NextTable DEF RowsGoOn
<1> QED
  BY <1>1, <1>2 DEF Verified, LogGoesOn, RecordedIn

LEMMA NextBadges ==
  ASSUME LogsOK, TableOK, WorkerOK, BadgeIsBacked, Next
  PROVE  BadgeIsBacked'
<1>1. ASSUME NEW id \in DOMAIN events', Cached(id)'
      PROVE  /\ Reachable(RegistryFor("v1"))'
             /\ events'[id].tx_hash \in RecordedIn(Log(RegistryFor("v1")))'
  <2>1. id \in DOMAIN events /\ Reachable(CacheHandle) /\ Verified(id)
    BY <1>1, NextTable, CacheAsksFirstRegistry DEF RowsGoOn, BadgeIsBacked, Verified
  <2>2. Verified(id)' /\ CacheHandle' = RegistryFor("v1")'
    BY <2>1, VerifiedStays, CacheAsksFirstRegistry
  <2> QED
    BY <2>1, <2>2, HandlesGoOn, CacheAsksFirstRegistry DEF Verified
<1> QED
  BY <1>1 DEF BadgeIsBacked

-----------------------------------------------------------------------------
(* The loop *)

LEMMA WorkerStateGrows ==
  ASSUME NEW ids, NEW more, ids \subseteq more, NEW w \in WorkerState(ids)
  PROVE  w \in WorkerState(more)
<1>1. w.todo \in Seq(more)
  BY DEF WorkerState
<1> QED
  BY <1>1 DEF WorkerState

\* No row is lost between one visit and the next.
LEMMA FollowingRow ==
  ASSUME NEW ids, NEW w \in WorkerState(ids)
  PROVE  /\ Following(w) \in WorkerState(ids)
         /\ Following(w).due = w.due /\ Following(w).missed = w.missed
         /\ Following(w).pc \in {"row", "done"}
         /\ Following(w).pc = "row" => Following(w).id \in ids
         /\ Following(w).pc = "done" => Following(w).id = 0 /\ Following(w).todo = <<>>
         /\ ToSet(w.todo) \subseteq ToSet(Following(w).todo) \cup {Following(w).id}
<1>1. w.todo \in Seq(ids)
  BY DEF WorkerState
<1>2. CASE w.todo = <<>>
  BY <1>2 DEF Following, WorkerState, ToSet
<1>3. CASE w.todo # <<>>
  <2>1. /\ Head(w.todo) = w.todo[1] /\ w.todo[1] \in ids
        /\ Tail(w.todo) \in Seq(ids) /\ Len(w.todo) \in Nat \ {0}
        /\ DOMAIN w.todo = 1..Len(w.todo) /\ DOMAIN Tail(w.todo) = 1..(Len(w.todo) - 1)
        /\ \A i \in 1..(Len(w.todo) - 1) : Tail(w.todo)[i] = w.todo[i + 1]
    BY <1>1, <1>3
  <2>2. /\ Following(w) = [w EXCEPT !.pc = "row", !.id = Head(w.todo), !.todo = Tail(w.todo)]
    BY <1>3 DEF Following
  <2>3. /\ Following(w).due = w.due /\ Following(w).missed = w.missed /\ Following(w).pc = "row"
        /\ Following(w).id = w.todo[1] /\ Following(w).todo = Tail(w.todo) /\ Following(w) \in WorkerState(ids)
    BY <2>1, <2>2 DEF WorkerState
  <2>4. ASSUME NEW i \in DOMAIN w.todo
        PROVE  w.todo[i] \in ToSet(Tail(w.todo)) \cup {w.todo[1]}
    <3>1. CASE i = 1
      BY <3>1
    <3>2. CASE i # 1
      <4>1. i - 1 \in DOMAIN Tail(w.todo) /\ Tail(w.todo)[i - 1] = w.todo[i]
        BY <2>1, <2>4, <3>2
      <4> QED
        BY <4>1 DEF ToSet
    <3> QED
      BY <3>1, <3>2
  <2> QED
    BY <2>1, <2>3, <2>4 DEF ToSet
<1> QED
  BY <1>2, <1>3

\* What the loop needs of the rest of a step.
LEMMA RowsOfWorker ==
  ASSUME LogsOK, TableOK, WorkerOK, worker \in WorkerState(DOMAIN events), Next
  PROVE  /\ DOMAIN events \subseteq DOMAIN events' /\ worker.due \subseteq DOMAIN events
         /\ \A id \in worker.due : Verified(id)'
         /\ \A id \in worker.due : Cached(id) => Cached(id)'
<1>1. worker.due \subseteq DOMAIN events
  BY DEF WorkerState
<1> QED
  BY <1>1, NextTable, VerifiedStays DEF RowsGoOn, WorkerOK

\* A visited row has its badge by then, was not due, or its call failed.
LEMMA RowVisited ==
  ASSUME LogsOK, TableOK, WorkerOK, worker \in WorkerState(DOMAIN events), Next,
         NEW w \in WorkerState(DOMAIN events), w.due = worker.due, w.todo = worker.todo,
         worker.missed \subseteq w.missed, worker' = Following(w),
         NEW row, row = worker.id, row \in worker.due \ w.missed => Cached(row)'
  PROVE  worker' \in WorkerState(DOMAIN events') /\ WorkerOK'
<1>1. /\ worker' \in WorkerState(DOMAIN events)
      /\ worker'.due = worker.due /\ worker'.missed = w.missed
      /\ worker'.pc \in {"row", "done"}
      /\ worker'.pc = "row" => worker'.id \in DOMAIN events
      /\ worker'.pc = "done" => worker'.id = 0 /\ worker'.todo = <<>>
      /\ ToSet(worker.todo) \subseteq ToSet(worker'.todo) \cup {worker'.id}
  BY FollowingRow
<1>2. worker' \in WorkerState(DOMAIN events')
  BY <1>1, RowsOfWorker, WorkerStateGrows
<1>3. ASSUME NEW id \in worker'.due \ worker'.missed
      PROVE  Cached(id)' \/ id = worker'.id \/ id \in ToSet(worker'.todo)
  <2>1. Cached(id) \/ id = worker.id \/ id \in ToSet(worker.todo)
    BY <1>1 DEF WorkerOK
  <2>2. id \in worker.due \ w.missed
    BY <1>1
  <2>3. CASE Cached(id)
    BY <2>2, <2>3, RowsOfWorker
  <2> QED
    BY <1>1, <2>1, <2>2, <2>3
<1> QED
  BY <1>1, <1>2, <1>3, RowsOfWorker DEF WorkerOK

LEMMA NextWorker ==
  ASSUME LogsOK, TableOK, WorkerOK, worker \in WorkerState(DOMAIN events), Next
  PROVE  worker' \in WorkerState(DOMAIN events') /\ WorkerOK'
<1>1. CASE UNCHANGED worker
  <2>1. worker' = worker /\ worker \in WorkerState(DOMAIN events')
    BY <1>1, RowsOfWorker, WorkerStateGrows
  <2> QED
    BY <2>1, RowsOfWorker DEF WorkerOK
<1>2. CASE Sleep \/ LoopDies
  <2>1. /\ NoTick \in WorkerState(DOMAIN events') /\ NoTick.pc = "asleep" /\ NoTick.due = {}
        /\ worker' = NoTick
    BY <1>2 DEF NoTick, WorkerState, Sleep, LoopDies
  <2> QED
    BY <2>1 DEF WorkerOK
<1>3. CASE StartTick
  <2> DEFINE ids == [id \in DOMAIN events |-> id]
             due == {id \in DOMAIN events : Verified(id)}
             w == [NoTick EXCEPT !.todo = ids, !.due = due]
  <2>1. ids \in Seq(DOMAIN events) /\ ToSet(ids) = DOMAIN events
    <3>1. DOMAIN events = 1..Len(events) /\ Len(events) \in Nat
      BY DEF TableOK
    <3> QED
      BY <3>1 DEF ToSet
  <2>2. worker' = Following(w) /\ events' = events
    BY <1>3 DEF StartTick
  <2> HIDE DEF ids
  <2>3. w \in WorkerState(DOMAIN events) /\ w.todo = ids /\ w.due = due
    BY <2>1 DEF NoTick, WorkerState
  <2> HIDE DEF w
  <2>4. /\ worker' \in WorkerState(DOMAIN events) /\ worker'.due = due
        /\ worker'.pc \in {"row", "done"}
        /\ worker'.pc = "row" => worker'.id \in DOMAIN events
        /\ worker'.pc = "done" => worker'.id = 0 /\ worker'.todo = <<>>
        /\ DOMAIN events \subseteq ToSet(worker'.todo) \cup {worker'.id}
    BY <2>1, <2>2, <2>3, FollowingRow
  <2>5. \A id \in due : Verified(id)'
    BY VerifiedStays
  <2> QED
    BY <2>2, <2>4, <2>5 DEF WorkerOK
<1>4. CASE SkipCached
  <2>1. PICK row : row = worker.id
    OBVIOUS
  <2>2. Cached(row) /\ worker' = Following(worker)
    BY <1>4, <2>1 DEF SkipCached, AfterCached
  <2>3. row \in worker.due => Cached(row)'
    BY <2>2, RowsOfWorker
  <2> QED
    BY <2>1, <2>2, <2>3, RowVisited
<1>5. CASE AskChain
  <2>1. worker.id \in DOMAIN events /\ Answered(worker) /\ worker' = Following(worker)
    BY <1>5 DEF AskChain, Answered, WorkerOK
  <2>2. PICK w : w = worker
    OBVIOUS
  <2>3. PICK row \in DOMAIN events : row = w.id
    BY <2>1, <2>2
  <2>4. row \in worker.due => Cached(row)'
    BY <2>1, <2>2, <2>3, AnsweredRows DEF WorkerOK
  <2> QED
    BY <2>1, <2>2, <2>3, <2>4, RowVisited
<1>6. CASE RebuildAndRetry
  <2> DEFINE w == [worker EXCEPT !.session = "fresh"]
  <2>1. /\ w \in WorkerState(DOMAIN events) /\ w.id = worker.id /\ w.due = worker.due
        /\ w.todo = worker.todo /\ w.missed = worker.missed
    BY DEF WorkerState
  <2>2. worker.id \in DOMAIN events /\ Answered(w) /\ worker' = Following(w)
    BY <1>6 DEF RebuildAndRetry, Answered, WorkerOK
  <2> HIDE DEF w
  <2>3. PICK visited : visited = w
    OBVIOUS
  <2>4. PICK row \in DOMAIN events : row = visited.id
    BY <2>1, <2>2, <2>3
  <2>5. row \in worker.due => Cached(row)'
    BY <2>1, <2>2, <2>3, <2>4, AnsweredRows DEF WorkerOK
  <2> QED
    BY <2>1, <2>2, <2>3, <2>4, <2>5, RowVisited
<1>7. CASE AskFails
  <2> DEFINE w == [worker EXCEPT !.session = "fresh", !.missed = worker.missed \cup {worker.id}]
  <2>1. worker.id \in DOMAIN events /\ worker' = Following(w)
    BY <1>7 DEF AskFails, WorkerOK
  <2>2. /\ w \in WorkerState(DOMAIN events) /\ w.due = worker.due
        /\ w.todo = worker.todo /\ w.missed = worker.missed \cup {worker.id}
    BY <2>1 DEF WorkerState
  <2> HIDE DEF w
  <2> QED
    BY <2>1, <2>2, RowVisited
<1>8. CASE FindDropped \/ DropSession
  <2>1. /\ worker' \in WorkerState(DOMAIN events) /\ worker'.pc \in {"row", "rebuild"}
        /\ worker'.id = worker.id /\ worker'.todo = worker.todo
        /\ worker'.due = worker.due /\ worker'.missed = worker.missed /\ worker.pc = "row"
    BY <1>8 DEF FindDropped, AfterDrop, DropSession, WorkerState
  <2>2. worker' \in WorkerState(DOMAIN events')
    BY <2>1, RowsOfWorker, WorkerStateGrows
  <2> QED
    BY <2>1, <2>2, RowsOfWorker DEF WorkerOK
<1>9. ASSUME NEW e \in Event, WriteRecord(e) \/ FlagRecord(e) \/ InsertRow(e)
      PROVE  UNCHANGED worker
  BY <1>9 DEF WriteRecord, FlagRecord, InsertRow
<1>10. CASE Api
  BY <1>1, <1>10 DEF Api, GetEvent, GetStatus, GetEventOnchain, StatusDiscrepancy, StatusVerification, GetPage,
     RpcError, Return, answering
<1> QED
  BY <1>1, <1>2, <1>3, <1>4, <1>5, <1>6, <1>7, <1>8, <1>9, <1>10 DEF Next, Loop

-----------------------------------------------------------------------------
(* The API *)

LEMMA KindsOfRequest ==
  ASSUME NEW ids, NEW r \in RequestState(ids)
  PROVE  /\ r.kind \in {"none", "detail", "status", "list"}
         /\ r.kind = "none" => r = NoRequest
         /\ r.kind = "detail" => r \in DetailRequest
         /\ r.kind = "status" => r \in StatusRequest
         /\ r.kind = "list" => r \in ListRequest(ids)
BY DEF RequestState, NoRequest, DetailRequest, StatusRequest, ListRequest

\* What a request has read stays right while the registries go on.
LEMMA DetailStays ==
  ASSUME NEW r \in DetailRequest, NEW log, NEW new, LogGoesOn(log, new), DetailOK(r, log)
  PROVE  DetailOK(r, new)
BY DEF DetailOK, LogGoesOn, RecordedIn, DetailRequest, EventRow

LEMMA StatusStays ==
  ASSUME NEW r \in StatusRequest, NEW log, NEW new, LogGoesOn(log, new), StatusOK(r, log)
  PROVE  StatusOK(r, new)
<1>1. CASE r.hash = None
  BY <1>1 DEF StatusOK
<1>2. CASE r.hash # None
  <2>1. new.records[r.hash] = log.records[r.hash] /\ log.flagged \subseteq new.flagged
    BY <1>2 DEF LogGoesOn, StatusOK
  <2>2. r.hash \in RecordedIn(new)
    BY <1>2, <2>1 DEF StatusOK, RecordedIn
  <2> QED
    BY <1>2, <2>1, <2>2 DEF StatusOK
<1> QED
  BY <1>1, <1>2

\* The calls of a request, on any log.
LEMMA DetailBegins ==
  ASSUME NEW source \in {"v1", "v2"}, NEW row \in EventRow, NEW log, NEW r,
         r = [kind |-> "detail", pc |-> "row", source |-> source, row |-> row, response |-> None,
              was_recorded |-> row.tx_hash \in RecordedIn(log)]
  PROVE  r \in DetailRequest /\ DetailOK(r, log)
<1>1. (row.tx_hash \in RecordedIn(log)) \in BOOLEAN
  OBVIOUS
<1>2. PICK was \in BOOLEAN : was = (row.tx_hash \in RecordedIn(log))
  BY <1>1, Zenon
<1>3. r = [kind |-> "detail", pc |-> "row", source |-> source, row |-> row, response |-> None, was_recorded |-> was]
  BY <1>2, Zenon
<1>4. r \in DetailRequest /\ r.pc = "row" /\ r.was_recorded = was /\ r.row = row
  BY <1>3 DEF DetailRequest
<1> QED
  BY <1>2, <1>4 DEF DetailOK

LEMMA DetailAnswers ==
  ASSUME NEW log \in LogState, NEW r \in DetailRequest, DetailOK(r, log), NEW new,
         new = [r EXCEPT !.pc = "answered", !.response = LookUp(log, r.row)]
  PROVE  new \in DetailRequest /\ DetailOK(new, log)
<1>1. r.row.tx_hash \in Event
  BY DEF DetailRequest, EventRow
<1>2. LookUp(log, r.row) = log.records[r.row.tx_hash] /\ log.records[r.row.tx_hash] \in Fact \cup {None}
  BY <1>1 DEF LookUp, LogState
<1>3. /\ new \in DetailRequest /\ new.response = log.records[r.row.tx_hash]
      /\ new.row = r.row /\ new.was_recorded = r.was_recorded
  BY <1>2 DEF DetailRequest
<1> QED
  BY <1>1, <1>3 DEF DetailOK, RecordedIn

\* What GetStatus asks for first.
StatusAsked(log, source, token) ==
  [kind |-> "status", pc |-> IF log.latest[token] = None THEN "answered" ELSE "latest",
   source |-> source, token |-> token,
   was_recorded |-> \E e \in RecordedIn(log) : log.records[e].token = token,
   was_flagged |-> log.latest[token] \in log.flagged,
   hash |-> log.latest[token], has_discrepancy |-> None, verification |-> None]

LEMMA StatusBegins ==
  ASSUME NEW log \in LogState, LogOK(log), NEW source \in {"v1", "v2"}, NEW token \in Token,
         NEW r, r = StatusAsked(log, source, token)
  PROVE  r \in StatusRequest /\ StatusOK(r, log)
<1>1. /\ (\E e \in RecordedIn(log) : log.records[e].token = token) \in BOOLEAN
      /\ (log.latest[token] \in log.flagged) \in BOOLEAN
  OBVIOUS
<1>2. PICK was \in BOOLEAN : was = (\E e \in RecordedIn(log) : log.records[e].token = token)
  BY <1>1, Zenon
<1>3. PICK flag \in BOOLEAN : flag = (log.latest[token] \in log.flagged)
  BY <1>1, Zenon
<1>4. PICK hash \in Event \cup {None} : hash = log.latest[token]
  BY DEF LogState
<1>5. PICK pc \in {"latest", "answered"} : pc = IF hash = None THEN "answered" ELSE "latest"
  OBVIOUS
<1>6. /\ r \in StatusRequest /\ r.hash = log.latest[token] /\ r.token = token
      /\ r.was_recorded = was /\ r.was_flagged = flag
      /\ r.pc = IF r.hash = None THEN "answered" ELSE "latest"
  <2>1. r = [kind |-> "status", pc |-> pc, source |-> source, token |-> token,
             was_recorded |-> was, was_flagged |-> flag,
             hash |-> hash, has_discrepancy |-> None, verification |-> None]
    BY <1>2, <1>3, <1>4, <1>5, Zenon DEF StatusAsked
  <2>2. /\ r \in StatusRequest /\ r.pc = pc /\ r.hash = hash /\ r.token = token
        /\ r.was_recorded = was /\ r.was_flagged = flag
    BY <2>1 DEF StatusRequest
  <2>3. r.pc = IF r.hash = None THEN "answered" ELSE "latest"
    BY <1>5, <2>2, Zenon
  <2> QED
    BY <1>4, <2>2, <2>3, Zenon
<1>7. r.hash = None => ~was
  BY <1>2, <1>6 DEF LogOK
<1>8. r.hash # None => r.hash \in RecordedIn(log) /\ log.records[r.hash].token = token
  BY <1>6 DEF LogOK
<1> QED
  BY <1>3, <1>6, <1>7, <1>8 DEF StatusOK

LEMMA StatusFlags ==
  ASSUME NEW log, NEW r \in StatusRequest, r.pc = "latest", StatusOK(r, log), NEW new,
         new = [r EXCEPT !.pc = "flag", !.has_discrepancy = r.hash \in log.flagged]
  PROVE  new \in StatusRequest /\ StatusOK(new, log)
<1>1. (r.hash \in log.flagged) \in BOOLEAN
  OBVIOUS
<1>2. PICK flag \in BOOLEAN : flag = (r.hash \in log.flagged)
  BY <1>1, Zenon
<1>3. new = [r EXCEPT !.pc = "flag", !.has_discrepancy = flag]
  BY <1>2, Zenon
<1>4. /\ new \in StatusRequest /\ new.pc = "flag" /\ new.has_discrepancy = flag
      /\ new.hash = r.hash /\ new.token = r.token
      /\ new.was_recorded = r.was_recorded /\ new.was_flagged = r.was_flagged
  BY <1>3 DEF StatusRequest
<1>5. r.hash # None
  BY DEF StatusOK
<1> QED
  BY <1>2, <1>4, <1>5 DEF StatusOK

LEMMA StatusAnswers ==
  ASSUME NEW log \in LogState, NEW r \in StatusRequest, r.pc = "flag", StatusOK(r, log), NEW new,
         new = [r EXCEPT !.pc = "answered", !.verification = VerificationOf(log, r)]
  PROVE  new \in StatusRequest /\ StatusOK(new, log)
<1>1. r.hash # None /\ r.hash \in Event
  BY DEF StatusOK, RecordedIn
<1>2. VerificationOf(log, r) = log.records[r.hash] /\ log.records[r.hash] \in Fact \cup {None}
  BY <1>1 DEF VerificationOf, LogState
<1>3. /\ new \in StatusRequest /\ new.pc = "answered" /\ new.verification = log.records[r.hash]
      /\ new.has_discrepancy = r.has_discrepancy /\ new.hash = r.hash /\ new.token = r.token
      /\ new.was_recorded = r.was_recorded /\ new.was_flagged = r.was_flagged
  BY <1>2 DEF StatusRequest
<1> QED
  BY <1>1, <1>3 DEF StatusOK

\* A page is the next rows of the table, up to the limit.
LEMMA PageRows ==
  ASSUME TableOK, NEW offset \in Nat, offset <= Len(events)
  PROVE  /\ Page(offset) \in Seq(DOMAIN events)
         /\ Len(Page(offset)) <= Limit
         /\ Len(Page(offset)) < Limit => offset + Len(Page(offset)) = Len(events)
         /\ \A i \in 1..Len(Page(offset)) : Page(offset)[i] = offset + i
<1>1. PICK n \in Nat : n = Len(events)
  BY DEF TableOK
<1>2. PICK last \in Nat : last = IF offset + Limit < n THEN offset + Limit ELSE n
  BY ReadersAssumption
<1>3. last <= n /\ last >= offset /\ last - offset <= Limit /\ (last - offset < Limit => last = n)
  BY <1>1, <1>2, ReadersAssumption
<1> DEFINE ids == [id \in DOMAIN events |-> id]
<1>4. DOMAIN events = 1..n /\ Len(ids) = n /\ \A i \in 1..n : ids[i] = i
  BY <1>1 DEF TableOK
<1>5. Page(offset) = SubSeq(ids, offset + 1, last)
  BY <1>2, <1>4 DEF Page, Ordered
<1> HIDE DEF ids
<1>6. \A i \in (offset + 1)..last : ids[i] \in DOMAIN events
  BY <1>3, <1>4
<1>7. /\ Page(offset) \in Seq(DOMAIN events)
      /\ Len(Page(offset)) = IF offset + 1 <= last THEN last - (offset + 1) + 1 ELSE 0
      /\ \A i \in 1..(last - (offset + 1) + 1) : Page(offset)[i] = ids[offset + 1 + i - 1]
  BY <1>5, <1>6, SubSeqProperties
<1>8. Len(Page(offset)) = last - offset
  BY <1>3, <1>7
<1>9. \A i \in 1..(last - offset) : Page(offset)[i] = offset + i
  <2> SUFFICES ASSUME NEW i \in 1..(last - offset)
               PROVE  Page(offset)[i] = offset + i
    OBVIOUS
  <2>1. offset + i \in 1..n /\ offset + 1 + i - 1 = offset + i /\ i \in 1..(last - (offset + 1) + 1)
    BY <1>3
  <2> QED
    BY <1>4, <1>7, <2>1
<1> QED
  BY <1>1, <1>3, <1>7, <1>8, <1>9

\* What GetPage leaves.
PagesRead(offset, pages, begun) ==
  [kind |-> "list", pc |-> IF Len(Page(offset)) = Limit THEN "page" ELSE "answered",
   offset |-> offset, pages |-> pages \o Page(offset), begun |-> begun]

\* After a page the client holds the first rows of the table, and all of them when
\* the page was short.
LEMMA PageTurned ==
  ASSUME TableOK, NEW offset \in Nat, NEW pages \in Seq(DOMAIN events), Len(pages) = offset,
         \A i \in DOMAIN pages : pages[i] = i, NEW begun \in SUBSET DOMAIN events,
         NEW r, r = PagesRead(offset, pages, begun)
  PROVE  r \in ListRequest(DOMAIN events) /\ ListOK(r)
<1>1. PICK n \in Nat : n = Len(events) /\ DOMAIN events = 1..n
  BY DEF TableOK
<1>2. offset <= n
  <2>1. CASE offset = 0
    BY <1>1, <2>1
  <2>2. CASE offset # 0
    <3>1. offset \in DOMAIN pages
      BY <2>2
    <3>2. pages[offset] = offset /\ pages[offset] \in DOMAIN events
      BY <3>1
    <3> QED
      BY <1>1, <3>2
  <2> QED
    BY <2>1, <2>2
<1>3. /\ Page(offset) \in Seq(DOMAIN events) /\ Len(Page(offset)) <= Limit
      /\ Len(Page(offset)) < Limit => offset + Len(Page(offset)) = n
      /\ \A i \in 1..Len(Page(offset)) : Page(offset)[i] = offset + i
  BY <1>1, <1>2, PageRows
<1>4. PICK more \in Seq(DOMAIN events) : more = Page(offset)
  BY <1>3
<1>5. PICK all \in Seq(DOMAIN events) : all = pages \o more
  BY ConcatProperties
<1>6. /\ Len(all) = offset + Len(more)
      /\ \A i \in 1..(offset + Len(more)) : all[i] = IF i <= offset THEN pages[i] ELSE more[i - offset]
  BY <1>5, ConcatProperties
<1>7. DOMAIN all = 1..(offset + Len(more)) /\ Len(more) \in Nat /\ DOMAIN pages = 1..offset
  BY <1>6
<1>8. ASSUME NEW i \in DOMAIN all
      PROVE  all[i] = i
  <2>1. CASE i <= offset
    BY <1>6, <1>7, <2>1
  <2>2. CASE i > offset
    <3>1. PICK k \in 1..Len(more) : k = i - offset
      BY <1>7, <2>2
    <3>2. all[i] = more[k]
      BY <1>6, <1>7, <2>2, <3>1
    <3>3. more[k] = offset + k /\ offset + k = i
      BY <1>3, <1>4, <1>7, <3>1
    <3> QED
      BY <3>2, <3>3
  <2> QED
    BY <1>7, <2>1, <2>2
<1>9. PICK pc \in {"page", "answered"} : pc = IF Len(more) = Limit THEN "page" ELSE "answered"
  OBVIOUS
<1>10. r = [kind |-> "list", pc |-> pc, offset |-> offset, pages |-> all, begun |-> begun]
  BY <1>4, <1>5, <1>9 DEF PagesRead
<1>11. /\ r \in ListRequest(DOMAIN events) /\ r.pc = pc /\ r.offset = offset
       /\ r.pages = all /\ r.begun = begun
  BY <1>10 DEF ListRequest
<1>12. pc = "page" => Len(all) = offset + Limit
  BY <1>6, <1>9
<1>13. pc = "answered" => DOMAIN all = DOMAIN events
  <2>1. pc = "answered" => Len(more) < Limit
    BY <1>3, <1>4, <1>7, <1>9, ReadersAssumption
  <2> QED
    BY <1>1, <1>3, <1>4, <1>7, <2>1
<1> QED
  BY <1>8, <1>11, <1>12, <1>13 DEF ListOK

LEMMA ListStays ==
  ASSUME NEW ids, NEW more, ids \subseteq more, NEW r \in ListRequest(ids)
  PROVE  r \in ListRequest(more)
<1>1. r.pages \in Seq(more)
  BY DEF ListRequest
<1> QED
  BY <1>1 DEF ListRequest

\* No call of the API but its own step changes a request.
LEMMA RequestUntouched ==
  ASSUME Next, ~Api
  PROVE  UNCHANGED request
BY DEF Next, WriteRecord, FlagRecord, InsertRow, Loop, DropSession, LoopDies, StartTick, SkipCached, AskChain,
       FindDropped, RebuildAndRetry, AskFails, Sleep, Answered

LEMMA RequestStays ==
  ASSUME LogsOK, TableOK, WorkerOK, Next, request \in RequestState(DOMAIN events), RequestOK, UNCHANGED request
  PROVE  request' \in RequestState(DOMAIN events') /\ RequestOK'
<1>1. DOMAIN events \subseteq DOMAIN events'
  BY NextTable DEF RowsGoOn
<1>2. PICK r : r = request
  OBVIOUS
<1>3. r = request' /\ r \in RequestState(DOMAIN events)
  BY <1>2
<1>4. r \in RequestState(DOMAIN events')
  BY <1>1, <1>3, ListStays DEF RequestState
<1>5. CASE r.kind = "none" \/ r.kind = "list"
  BY <1>2, <1>3, <1>4, <1>5 DEF RequestOK
<1>6. CASE r.kind = "detail"
  <2>1. r \in DetailRequest
    BY <1>3, <1>6, KindsOfRequest
  <2>2. PICK source \in {"v1", "v2"} : source = r.source
    BY <2>1 DEF DetailRequest
  <2>3. DetailOK(r, Log(RegistryFor(source)))
    BY <1>2, <1>6, <2>2 DEF RequestOK
  <2>4. DetailOK(r, Log(RegistryFor(source))')
    BY <2>1, <2>3, HandlesGoOn, DetailStays
  <2> QED
    BY <1>3, <1>4, <1>6, <2>2, <2>4 DEF RequestOK
<1>7. CASE r.kind = "status"
  <2>1. r \in StatusRequest
    BY <1>3, <1>7, KindsOfRequest
  <2>2. PICK source \in {"v1", "v2"} : source = r.source
    BY <2>1 DEF StatusRequest
  <2>3. StatusOK(r, Log(RegistryFor(source)))
    BY <1>2, <1>7, <2>2 DEF RequestOK
  <2>4. StatusOK(r, Log(RegistryFor(source))')
    BY <2>1, <2>3, HandlesGoOn, StatusStays
  <2> QED
    BY <1>3, <1>4, <1>7, <2>2, <2>4 DEF RequestOK
<1> QED
  BY <1>3, <1>5, <1>6, <1>7, KindsOfRequest

LEMMA NextApi ==
  ASSUME LogsOK, TableOK, request \in RequestState(DOMAIN events), RequestOK, Api
  PROVE  request' \in RequestState(DOMAIN events') /\ RequestOK'
<1> DEFINE good(r) == /\ r \in RequestState(DOMAIN events)
                      /\ r.kind = "detail" => DetailOK(r, Log(RegistryFor(r.source)))
                      /\ r.kind = "status" => StatusOK(r, Log(RegistryFor(r.source)))
                      /\ r.kind = "list" => ListOK(r)
<1>1. \A source \in {"v1", "v2"} : Log(RegistryFor(source)) \in LogState /\ LogOK(Log(RegistryFor(source)))
  BY DEF Log, LogsOK
<1>2. \A r \in DetailRequest : r.kind = "detail" /\ r.source \in {"v1", "v2"} /\ r \in RequestState(DOMAIN events)
  BY DEF DetailRequest, RequestState
<1>3. \A r \in StatusRequest : r.kind = "status" /\ r.source \in {"v1", "v2"} /\ r \in RequestState(DOMAIN events)
  BY DEF StatusRequest, RequestState
<1>4. \A r \in ListRequest(DOMAIN events) : r.kind = "list" /\ r \in RequestState(DOMAIN events)
  BY DEF ListRequest, RequestState
<1>5. CASE RpcError \/ Return
  <2>1. request' = NoRequest
    BY <1>5 DEF RpcError, Return
  <2> QED
    BY <2>1 DEF NoRequest, RequestState, RequestOK
<1>6. CASE ~RpcError /\ ~Return
  <2>1. UNCHANGED <<network, v1, v2, events>>
    BY <1>6 DEF Api, GetEvent, GetStatus, GetEventOnchain, StatusDiscrepancy, StatusVerification, GetPage, answering
  <2>2. ASSUME good(request')
        PROVE  request' \in RequestState(DOMAIN events') /\ RequestOK'
    <3>1. /\ DOMAIN events' = DOMAIN events
          /\ Log(RegistryFor(request.source))' = Log(RegistryFor(request'.source))
      BY <2>1 DEF v1, v2, Log, V1Log, V2Log, RegistryFor, registry_contract, registry_v2_contract
    <3> QED
      BY <2>2, <3>1 DEF RequestOK
  <2>3. ASSUME NEW id \in 1..MaxRows, NEW source \in {"v1", "v2"}, GetEvent(id, source)
        PROVE  good(request')
    <3>1. PICK row \in EventRow : row = events[id]
      BY <2>3 DEF GetEvent, TableOK
    <3>2. request' \in DetailRequest /\ request'.source = source /\ DetailOK(request', Log(RegistryFor(source)))
      BY <2>3, <3>1, DetailBegins DEF GetEvent
    <3> QED
      BY <1>2, <3>2
  <2>4. ASSUME GetEventOnchain
        PROVE  good(request')
    <3>1. PICK r \in DetailRequest, source \in {"v1", "v2"} : r = request /\ source = request.source
      BY <1>2, <2>4, KindsOfRequest DEF GetEventOnchain
    <3>2. /\ DetailOK(r, Log(RegistryFor(source)))
          /\ request' = [r EXCEPT !.pc = "answered", !.response = LookUp(Log(RegistryFor(source)), r.row)]
      BY <2>4, <3>1 DEF GetEventOnchain, Respond, RequestOK
    <3>3. request' \in DetailRequest /\ DetailOK(request', Log(RegistryFor(source)))
      BY <1>1, <3>2, DetailAnswers
    <3>4. request'.source = source
      BY <3>1, <3>2 DEF DetailRequest
    <3> QED
      BY <1>2, <3>3, <3>4
  <2>5. ASSUME NEW token \in Token, NEW source \in {"v1", "v2"}, GetStatus(token, source)
        PROVE  good(request')
    <3>1. request' = StatusAsked(Log(RegistryFor(source)), source, token)
      BY <2>5, Zenon DEF GetStatus, StatusAsked
    <3>2. request' \in StatusRequest /\ StatusOK(request', Log(RegistryFor(source)))
      BY <1>1, <3>1, StatusBegins
    <3>3. request'.source = source
      BY <3>1 DEF StatusAsked
    <3> QED
      BY <1>3, <3>2, <3>3
  <2>6. ASSUME StatusDiscrepancy \/ StatusVerification
        PROVE  good(request')
    <3>1. request.kind = "status" /\ request.pc \in {"latest", "flag"}
      BY <2>6 DEF StatusDiscrepancy, StatusVerification
    <3>2. PICK r \in StatusRequest : r = request
      BY <3>1, KindsOfRequest
    <3>3. PICK source \in {"v1", "v2"} : source = r.source
      BY <1>3
    <3>4. StatusOK(r, Log(RegistryFor(source)))
      BY <3>1, <3>2, <3>3 DEF RequestOK
    <3>5. request' \in StatusRequest /\ StatusOK(request', Log(RegistryFor(source)))
      <4>1. CASE StatusDiscrepancy
        <5>1. /\ r.pc = "latest"
              /\ request' = [r EXCEPT !.pc = "flag", !.has_discrepancy = r.hash \in Log(RegistryFor(source)).flagged]
          BY <3>2, <3>3, <4>1, Zenon DEF StatusDiscrepancy
        <5> QED
          BY <3>4, <5>1, StatusFlags, Zenon
      <4>2. CASE StatusVerification
        <5>1. /\ r.pc = "flag"
              /\ request' = [r EXCEPT !.pc = "answered",
                               !.verification = VerificationOf(Log(RegistryFor(source)), r)]
          BY <3>2, <3>3, <4>2 DEF StatusVerification
        <5> QED
          BY <1>1, <3>4, <5>1, StatusAnswers
      <4> QED
        BY <2>6, <4>1, <4>2
    <3>6. request'.source = source
      <4>1. request'.source = request.source
        BY <2>6, <3>2 DEF StatusDiscrepancy, StatusVerification, StatusRequest
      <4> QED
        BY <3>2, <3>3, <4>1
    <3> QED
      BY <1>3, <3>5, <3>6
  <2>7. ASSUME GetPage
        PROVE  good(request')
    <3>1. CASE Idle
      <4>1. request' = PagesRead(0, <<>>, DOMAIN events)
        BY <2>7, <3>1, Zenon DEF GetPage, PagesRead
      <4>2. 0 \in Nat /\ <<>> \in Seq(DOMAIN events) /\ Len(<<>>) = 0 /\ DOMAIN <<>> = {}
        OBVIOUS
      <4>3. request' \in ListRequest(DOMAIN events) /\ ListOK(request')
        BY <4>1, <4>2, PageTurned
      <4> QED
        BY <1>4, <4>3
    <3>2. CASE ~Idle
      <4>1. /\ request.kind = "list" /\ request.pc = "page"
            /\ request' = PagesRead(request.offset + Limit, request.pages, request.begun)
        BY <2>7, <3>2, Zenon DEF GetPage, PagesRead
      <4>2. request \in ListRequest(DOMAIN events) /\ ListOK(request)
        BY <4>1, KindsOfRequest DEF RequestOK
      <4>3. /\ request.offset + Limit \in Nat /\ request.pages \in Seq(DOMAIN events)
            /\ Len(request.pages) = request.offset + Limit /\ request.begun \in SUBSET DOMAIN events
            /\ \A i \in DOMAIN request.pages : request.pages[i] = i
        BY <4>1, <4>2, ReadersAssumption DEF ListRequest, ListOK
      <4>4. request' \in ListRequest(DOMAIN events) /\ ListOK(request')
        BY <4>1, <4>3, PageTurned
      <4> QED
        BY <1>4, <4>4
    <3> QED
      BY <3>1, <3>2
  <2> QED
    BY <1>6, <2>2, <2>3, <2>4, <2>5, <2>6, <2>7 DEF Api
<1> QED
  BY <1>5, <1>6

LEMMA NextRequest ==
  ASSUME LogsOK, TableOK, WorkerOK, request \in RequestState(DOMAIN events), RequestOK, Next
  PROVE  request' \in RequestState(DOMAIN events') /\ RequestOK'
BY NextApi, RequestUntouched, RequestStays

-----------------------------------------------------------------------------
(* The invariant holds *)

LEMMA NextMishaps ==
  ASSUME mishaps \in 0..MaxMishaps, Next
  PROVE  mishaps' \in 0..MaxMishaps
<1>1. mishaps' = mishaps \/ (mishaps < MaxMishaps /\ mishaps' = mishaps + 1)
  BY DEF Next, WriteRecord, FlagRecord, InsertRow, Loop, StartTick, SkipCached, AskChain, FindDropped,
     RebuildAndRetry, AskFails, Sleep, Answered, DropSession, LoopDies, Mishap, Api, GetEvent, GetStatus,
     GetEventOnchain, StatusDiscrepancy, StatusVerification, GetPage, RpcError, Return, answering
<1> QED
  BY <1>1, ReadersAssumption

LEMMA InvParts ==
  Inv <=> /\ LogsOK /\ TableOK /\ WorkerOK /\ RequestOK /\ BadgeIsBacked
          /\ network \in Network /\ mishaps \in 0..MaxMishaps
          /\ worker \in WorkerState(DOMAIN events) /\ request \in RequestState(DOMAIN events)
BY DEF Inv, TypeOK, LogsOK, TableOK

LEMMA InitInv == Init => Inv
<1> SUFFICES ASSUME Init
             PROVE  Inv
  OBVIOUS
<1>1. /\ V1Log = [records |-> [e \in Event |-> None], latest |-> [t \in Token |-> None], flagged |-> {}]
      /\ V2Log = [records |-> [e \in Event |-> None], latest |-> [t \in Token |-> None], flagged |-> {}]
  BY DEF Init, V1!Init, V2!Init, V1Log, V2Log
<1>2. V1Log \in LogState /\ V2Log \in LogState
  BY <1>1 DEF LogState
<1>3. RecordedIn(V1Log) = {} /\ RecordedIn(V2Log) = {}
  BY <1>1 DEF RecordedIn
<1>4. LogOK(V1Log) /\ LogOK(V2Log)
  BY <1>1, <1>3 DEF LogOK
<1>5. Records \in 0..MaxRecords
  BY <1>3, FS_EmptySet, ReadersAssumption DEF Records
<1>6. /\ events = <<>> /\ worker = NoTick /\ request = NoRequest
      /\ network \in Network /\ mishaps \in 0..MaxMishaps
  BY ReadersAssumption DEF Init
<1>7. TableOK /\ BadgeIsBacked
  BY <1>6, ReadersAssumption DEF TableOK, BadgeIsBacked
<1>8. worker \in WorkerState(DOMAIN events) /\ WorkerOK
  BY <1>6 DEF WorkerState, WorkerOK, NoTick
<1>9. request \in RequestState(DOMAIN events) /\ RequestOK
  BY <1>6 DEF RequestState, RequestOK, NoRequest
<1> QED
  BY <1>2, <1>4, <1>5, <1>6, <1>7, <1>8, <1>9, InvParts DEF LogsOK

LEMMA NextInv == Inv /\ [Next]_vars => Inv'
<1>1. ASSUME Inv, Next
      PROVE  Inv'
  <2>1. LogsOK' /\ network' = network
    BY <1>1, InvParts, NextLogs
  <2>2. TableOK' /\ BadgeIsBacked'
    BY <1>1, InvParts, NextTable, NextBadges
  <2>3. worker' \in WorkerState(DOMAIN events') /\ WorkerOK'
    BY <1>1, InvParts, NextWorker
  <2>4. request' \in RequestState(DOMAIN events') /\ RequestOK'
    BY <1>1, InvParts, NextRequest
  <2>5. mishaps' \in 0..MaxMishaps
    BY <1>1, InvParts, NextMishaps
  <2>6. network' \in Network
    BY <1>1, <2>1, InvParts
  <2> QED
    BY <2>1, <2>2, <2>3, <2>4, <2>5, <2>6
    DEF Inv, TypeOK, LogsOK, TableOK
<1>2. ASSUME Inv, UNCHANGED vars
      PROVE  Inv'
  <2>1. /\ V1Log' = V1Log /\ V2Log' = V2Log /\ Records' = Records
        /\ network' = network /\ events' = events /\ worker' = worker
        /\ request' = request /\ mishaps' = mishaps
    BY <1>2 DEF vars, v1, v2, V1Log, V2Log, Records, RecordedIn
  <2>2. TypeOK' /\ LogOK(V1Log)' /\ LogOK(V2Log)'
    BY <1>2, <2>1 DEF Inv, TypeOK, LogOK, RecordedIn
  <2>3. BadgeIsBacked' /\ WorkerOK'
    BY <1>2, <2>1 DEF Inv, BadgeIsBacked, WorkerOK, Cached, Verified, CacheHandle, Log, RegistryFor, Reachable,
       RecordedIn, registry_contract, registry_v2_contract
  <2>4. RequestOK'
    BY <1>2, <2>1 DEF Inv, RequestOK, Log, RegistryFor, registry_contract, registry_v2_contract
  <2> QED
    BY <2>2, <2>3, <2>4 DEF Inv
<1> QED
  BY <1>1, <1>2

THEOREM InvHolds == Spec => []Inv
BY InitInv, NextInv, PTL DEF Spec

-----------------------------------------------------------------------------
(* What it says *)

\* Every variable keeps its type, a tick only ever works on rows that are there,
\* and no bound is passed.
THEOREM TypeCorrect == Spec => []TypeOK
<1>1. Inv => TypeOK
  BY DEF Inv
<1> QED
  BY <1>1, InvHolds, PTL

\* A row with the badge is recorded in the registry that the detail page asks, and
\* that registry can be reached.
THEOREM BadgesBacked == Spec => []BadgeIsBacked
<1>1. Inv => BadgeIsBacked
  BY DEF Inv
<1> QED
  BY <1>1, InvHolds, PTL

\* However sessions drop, calls fail and the process dies, a tick that ends has
\* given the badge to every row that was recorded when it began, but for the rows
\* whose own calls failed.
THEOREM TicksCatchUp == Spec => []TickCatchesUp
<1>1. Inv => TickCatchesUp
  <2> SUFFICES ASSUME Inv, worker.pc = "done", NEW id \in worker.due \ worker.missed
               PROVE  Cached(id)
    BY DEF TickCatchesUp
  <2>1. worker.id = 0 /\ worker.todo = <<>>
    BY DEF Inv, WorkerOK
  <2>2. id \in DOMAIN events /\ DOMAIN events = 1..Len(events)
    BY DEF Inv, TypeOK, WorkerState
  <2>3. id # 0
    BY <2>2
  <2>4. ToSet(worker.todo) = {}
    BY <2>1 DEF ToSet
  <2> QED
    BY <2>1, <2>3, <2>4 DEF Inv, WorkerOK
<1> QED
  BY <1>1, InvHolds, PTL

\* GET /events/{id} answers null only of an event without a record when the
\* request began, and otherwise the record as it stands.
THEOREM DetailsCurrent == Spec => []DetailNeverStale
<1>1. Inv => DetailNeverStale
  BY DEF Inv, RequestOK, DetailOK, DetailNeverStale, Answer
<1> QED
  BY <1>1, InvHolds, PTL

\* The three calls of verification-status make one answer about one record,
\* whatever is written between them.
THEOREM StatusesTruthful == Spec => []StatusIsTruthful
<1>1. Inv => StatusIsTruthful
  BY DEF Inv, RequestOK, StatusOK, StatusIsTruthful, Answer
<1> QED
  BY <1>1, InvHolds, PTL

\* A client that reads page by page while rows are added gets every row that was
\* there when it began, and none twice.
THEOREM PagesComplete == Spec => []PagesCoverAll
<1>1. Inv => PagesCoverAll
  <2> SUFFICES ASSUME Inv, Answer("list")
               PROVE  request.begun \subseteq ToSet(request.pages) /\ IsInjective(request.pages)
    BY DEF PagesCoverAll
  <2>1. /\ \A i \in DOMAIN request.pages : request.pages[i] = i
        /\ request.begun \subseteq DOMAIN request.pages
    BY DEF Inv, RequestOK, ListOK, Answer
  <2>2. request.begun \subseteq ToSet(request.pages)
    BY <2>1 DEF ToSet
  <2>3. IsInjective(request.pages)
    BY <2>1 DEF IsInjective
  <2> QED
    BY <2>2, <2>3
<1> QED
  BY <1>1, InvHolds, PTL
=============================================================================
