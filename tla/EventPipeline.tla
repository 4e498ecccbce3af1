----------------------------- MODULE EventPipeline -----------------------------
(***************************************************************************)
(* The off-chain pipeline: main.py's feed task and state-machine loop, the *)
(* SQLite table of event_store.py that they drive, and the backfill        *)
(* scripts, which are a second process on the same database file.          *)
(*                                                                         *)
(* The feed task and the loop share one event loop and every call a tick   *)
(* makes blocks it, so the feed moves only while the loop sleeps.  The     *)
(* other process runs between any two accesses to the network or the       *)
(* database.  A process can die anywhere: of an exception its call does    *)
(* not catch, or killed; docker restarts the live one, and what survives   *)
(* is the table.                                                           *)
(***************************************************************************)
EXTENDS Integers, Sequences, FiniteSets

CONSTANTS
  Tx,             \* candidate transactions
  FeedBlock,      \* FeedBlock[tx]: the feed message that carries tx, 0 if none does
  BackfillTx,     \* transactions that backfill runs replay
  None,           \* SQL NULL
  MAX_ITERATIONS, \* MAX_FILTER_CHECK_ITERATIONS and MAX_L1_CONFIRM_ITERATIONS
  MaxRows,        \* bound: rows in the table
  MaxBlock,       \* bound: the highest block of the chain
  MaxAhead,       \* bound: how far the feed gets ahead of an undecided row
  MaxFailures     \* bound: failed calls and deaths of a process

REQUIRED_FALSE_STREAK == 3
MIN_BLOCKS_BETWEEN_CHECKS == 2
MAX_REFERENCE_MODEL_ATTEMPTS == 3
BLOCK_NUMBER == 1   \* of the events replayed: long ago

ASSUME PipelineAssumption ==
  /\ MaxRows \in Nat /\ MaxBlock \in Nat \ {0} /\ MaxAhead \in Nat /\ MaxFailures \in Nat
  /\ MAX_ITERATIONS \in Nat \ {0}
  /\ FeedBlock \in [Tx -> 0..MaxBlock] /\ BackfillTx \subseteq Tx
  /\ IsFiniteSet(Tx) /\ None \notin Nat \cup Tx

VARIABLES
  events,         \* the table, in order of id
  current_block,  \* shared_state["current_block"], 0 until the feed delivers
  inbox,          \* candidates of the message the feed task is inserting
  live,           \* where the loop is, the rows it has read and still to visit
  replay,         \* where the backfill run is
  head,           \* the chain's block number
  filterList,     \* transactions isTransactionFiltered answers true for
  logged,         \* transactions whose UIMultiplierUpdated log is on the chain
  failures,       \* failed calls and deaths so far
  falses          \* history: falses[id], the blocks at which false was written

chain == <<head, filterList, logged>>
vars == <<events, current_block, inbox, live, replay, chain, failures, falses>>

-----------------------------------------------------------------------------
(* event_store *)

NewRow_CountedFromZero(tx, block, source) ==   \* seeded fault: ids start at zero
  [id |-> Len(events), tx |-> tx, block_number |-> block, status |-> "pending",
   filter_check_count |-> 0, last_checked_block |-> None, reference_model_hash |-> None,
   reference_model_verify_attempts |-> 0, source |-> source]

NewRow(tx, block, source) ==
  [id |-> Len(events) + 1, tx |-> tx, block_number |-> block, status |-> "pending",
   filter_check_count |-> 0, last_checked_block |-> None, reference_model_hash |-> None,
   reference_model_verify_attempts |-> 0, source |-> source]

PendingStatus_NewOnly == {"pending"}   \* seeded fault: a row is picked up only once

PendingStatus == {"pending", "filter_check_in_progress"}

ToL1_Decided == {"confirmed_not_filtered", "filtered"}   \* seeded fault: every decided row goes on

ToL1 == {"confirmed_not_filtered"}

ToModel_Unconfirmed == {"confirmed_not_filtered", "l1_confirmed"}   \* seeded fault: sealed too early

ToModel == {"l1_confirmed"}

Rows == {events[i] : i \in DOMAIN events}

Select(status) == {r \in Rows : r.status \in status}

\* UPDATE ... WHERE id: unconditional, whatever the row has become since it was read.
Update(id, row) == events' = [events EXCEPT ![id] = row]

-----------------------------------------------------------------------------
(* filter_verifier.check_event, split at its network call *)

TooSoon_Never(row, block) == FALSE   \* seeded fault: checks are not spaced

TooSoon(row, block) ==
  /\ row.last_checked_block # None
  /\ block - row.last_checked_block < MIN_BLOCKS_BETWEEN_CHECKS

StreakComplete_OffByOne(row) == row.filter_check_count >= 1   \* seeded fault: two are enough

\* row is the caller's snapshot.
StreakComplete(row) == row.filter_check_count + 1 >= REQUIRED_FALSE_STREAK

StatusAfter(row, answer) ==
  IF answer THEN "filtered"
  ELSE IF StreakComplete(row) THEN "confirmed_not_filtered"
  ELSE "filter_check_in_progress"

\* The status comes from the snapshot, the count is incremented by the database.
WriteAnswer(row, answer, block) ==
  /\ Update(row.id,
       [events[row.id] EXCEPT !.status = StatusAfter(row, answer),
                              !.filter_check_count = @ + 1,
                              !.last_checked_block = block])
  /\ falses' = IF answer THEN falses ELSE [falses EXCEPT ![row.id] = Append(@, block)]

-----------------------------------------------------------------------------
(* l1_confirmer.check_event and reference_model.verify_event.  A log that is  *)
(* found stays on the chain, so finding it and writing are one step here;     *)
(* verify_event reads the row, calls out and then writes.                     *)

L1Confirm(row) ==
  IF row.tx \in logged
  THEN Update(row.id, [events[row.id] EXCEPT !.status = "l1_confirmed"])
  ELSE UNCHANGED events

\* The hash stands for the status that it covers; the rest of what it covers is
\* the chain's.
SealHash(id, status) == Update(id, [events[id] EXCEPT !.reference_model_hash = status])

-----------------------------------------------------------------------------
(* The live process: the feed task *)

Down == [pc |-> "down", todo |-> {}, block |-> 0, answer |-> FALSE, read |-> None]
Asleep == [Down EXCEPT !.pc = "asleep"]
NoReplay == [pc |-> "none", id |-> 0, tries |-> 0, row |-> None, block |-> 0, answer |-> FALSE, read |-> None]

Init ==
  /\ events = <<>> /\ falses = <<>>
  /\ current_block = 0 /\ inbox = {}
  /\ live = Asleep
  /\ replay = NoReplay
  /\ head = 1 /\ filterList = {} /\ logged = {}
  /\ failures = 0

Carried(seq) == {tx \in Tx : FeedBlock[tx] = seq}

Undecided(r) == r.status \in PendingStatus

LastLooked(r) == IF r.last_checked_block = None THEN r.block_number ELSE r.last_checked_block

WithinBounds(seq) ==
  /\ Len(events) + Cardinality(Carried(seq)) <= MaxRows
  /\ \A i \in DOMAIN events : Undecided(events[i]) => seq <= LastLooked(events[i]) + MaxAhead

\* After a start the feed may begin anywhere; then it is the next message.
FeedMessage(seq) ==
  /\ live.pc = "asleep" /\ inbox = {}
  /\ seq <= head
  /\ current_block = 0 \/ seq = current_block + 1
  /\ WithinBounds(seq)
  /\ current_block' = seq
  /\ inbox' = Carried(seq)
  /\ UNCHANGED <<events, live, replay, chain, failures, falses>>

Insert(tx, block, source) ==
  /\ events' = Append(events, NewRow(tx, block, source))
  /\ falses' = Append(falses, <<>>)

FeedInsert(tx) ==
  /\ tx \in inbox
  /\ Insert(tx, current_block, "live_detection")
  /\ inbox' = inbox \ {tx}
  /\ UNCHANGED <<current_block, live, replay, chain, failures>>

-----------------------------------------------------------------------------
(* The live process: one tick of the loop *)

others == <<current_block, inbox, replay, chain>>

\* All of a tick's filter checks use this block and these rows.
Wake ==
  /\ live.pc = "asleep" /\ inbox = {}
  /\ current_block # 0
  /\ live' = [Asleep EXCEPT !.pc = "filter", !.todo = Select(PendingStatus), !.block = current_block]
  /\ UNCHANGED <<events, others, failures, falses>>

Awaiting(r) ==
  /\ r.reference_model_hash = None
  /\ r.reference_model_verify_attempts < MAX_REFERENCE_MODEL_ATTEMPTS

\* The rows of the next phase are read when the one before is over.
NextPhase ==
  /\ live.todo = {}
  /\ \/ live.pc = "filter"
        /\ live' = [Asleep EXCEPT !.pc = "l1", !.todo = Select(ToL1)]
     \/ live.pc = "l1"
        /\ live' = [Asleep EXCEPT !.pc = "model", !.todo = {r \in Select(ToModel) : Awaiting(r)}]
     \/ live.pc = "model"
        /\ live' = Asleep
  /\ UNCHANGED <<events, others, failures, falses>>

\* row is the next to be visited: the queries are ordered by id.
Visiting(phase, row) ==
  /\ live.pc = phase
  /\ row \in live.todo /\ \A other \in live.todo : row.id <= other.id

Visited(row) == live' = [live EXCEPT !.todo = @ \ {row}]

LiveSkip(row) ==
  /\ Visiting("filter", row)
  /\ TooSoon(row, live.block)
  /\ Visited(row)
  /\ UNCHANGED <<events, others, failures, falses>>

LiveAsk(row) ==
  /\ Visiting("filter", row)
  /\ ~TooSoon(row, live.block)
  /\ live' = [live EXCEPT !.pc = "answered", !.answer = row.tx \in filterList]
  /\ UNCHANGED <<events, others, failures, falses>>

LiveWrite(row) ==
  /\ Visiting("answered", row)
  /\ WriteAnswer(row, live.answer, live.block)
  /\ live' = [live EXCEPT !.pc = "filter", !.todo = @ \ {row}, !.answer = FALSE]
  /\ UNCHANGED <<others, failures>>

LiveL1(row) ==
  /\ Visiting("l1", row)
  /\ L1Confirm(row)
  /\ Visited(row)
  /\ UNCHANGED <<others, failures, falses>>

LiveReread(row) ==
  /\ Visiting("model", row)
  /\ live' = [live EXCEPT !.pc = "verifying", !.read = events[row.id].status]
  /\ UNCHANGED <<events, others, failures, falses>>

LiveSeal(row) ==
  /\ Visiting("verifying", row)
  /\ SealHash(row.id, live.read)
  /\ live' = [live EXCEPT !.pc = "model", !.todo = @ \ {row}, !.read = None]
  /\ UNCHANGED <<others, failures, falses>>

\* A call that fails with a caught error leaves the row as it is; a failed
\* verify_event is counted.
LiveCallFails(row) ==
  /\ failures < MaxFailures
  /\ \/ Visiting("filter", row) /\ ~TooSoon(row, live.block) /\ UNCHANGED events
     \/ Visiting("l1", row) /\ UNCHANGED events
     \/ /\ Visiting("verifying", row)
        /\ Update(row.id, [events[row.id] EXCEPT !.reference_model_verify_attempts = @ + 1])
  /\ live' = [live EXCEPT !.pc = IF @ = "verifying" THEN "model" ELSE @, !.todo = @ \ {row}, !.read = None]
  /\ failures' = failures + 1
  /\ UNCHANGED <<others, falses>>

\* An error that is not caught ends the TaskGroup and with it the process.
LiveDies ==
  /\ failures < MaxFailures
  /\ live.pc # "down"
  /\ live' = Down /\ current_block' = 0 /\ inbox' = {}
  /\ failures' = failures + 1
  /\ UNCHANGED <<events, replay, chain, falses>>

Restart ==
  /\ live.pc = "down"
  /\ live' = Asleep
  /\ UNCHANGED <<events, others, failures, falses>>

LiveStep ==
  \/ Wake \/ NextPhase
  \/ \E row \in live.todo :
       LiveSkip(row) \/ LiveAsk(row) \/ LiveWrite(row) \/ LiveL1(row) \/ LiveReread(row) \/ LiveSeal(row)

LiveCallsFail == \E row \in live.todo : LiveCallFails(row)

-----------------------------------------------------------------------------
(* A backfill run of one transaction *)

liveSide == <<current_block, inbox, live, chain>>

Stored == events[replay.id]

NextIteration == [NoReplay EXCEPT !.pc = "filter", !.id = replay.id, !.tries = replay.tries]

ReplayInsert(tx) ==
  /\ replay.pc = "none"
  /\ Len(events) + Cardinality(inbox) < MaxRows
  /\ Insert(tx, BLOCK_NUMBER, "live_detection")
  /\ replay' = [NoReplay EXCEPT !.pc = "set_source", !.id = Len(events) + 1]
  /\ UNCHANGED <<liveSide, failures>>

ReplaySetSource ==
  /\ replay.pc = "set_source"
  /\ Update(replay.id, [Stored EXCEPT !.source = "historical_backfill"])
  /\ replay' = [replay EXCEPT !.pc = "filter"]
  /\ UNCHANGED <<liveSide, failures, falses>>

\* The head of an iteration.  After the last one the run gives up without
\* another look, even if that iteration was the one that succeeded.
ReplayLook ==
  /\ replay.pc = "filter"
  /\ replay' =
       IF replay.tries = MAX_ITERATIONS THEN NoReplay
       ELSE IF Undecided(Stored)
       THEN [replay EXCEPT !.pc = "block", !.row = Stored, !.tries = @ + 1]
       ELSE [replay EXCEPT !.pc = "decided"]
  /\ UNCHANGED <<events, liveSide, failures, falses>>

ReplayBlock ==
  /\ replay.pc = "block"
  /\ replay' = [replay EXCEPT !.pc = "check", !.block = head]
  /\ UNCHANGED <<events, liveSide, failures, falses>>

ReplayDecided ==
  /\ replay.pc = "decided"
  /\ replay' = IF Stored.status = "filtered" THEN NoReplay
               ELSE [replay EXCEPT !.pc = "l1", !.tries = 0]
  /\ UNCHANGED <<events, liveSide, failures, falses>>

ReplayAsk ==
  /\ replay.pc = "check"
  /\ replay' = IF TooSoon(replay.row, replay.block)
               THEN NextIteration
               ELSE [replay EXCEPT !.pc = "answered", !.answer = replay.row.tx \in filterList]
  /\ UNCHANGED <<events, liveSide, failures, falses>>

ReplayWrite ==
  /\ replay.pc = "answered"
  /\ WriteAnswer(replay.row, replay.answer, replay.block)
  /\ replay' = NextIteration
  /\ UNCHANGED <<liveSide, failures>>

ReplayL1 ==
  /\ replay.pc = "l1"
  /\ \/ /\ replay.tries = MAX_ITERATIONS
        /\ replay' = NoReplay
        /\ UNCHANGED events
     \/ /\ replay.tries < MAX_ITERATIONS
        /\ Stored.status = "l1_confirmed"
        /\ replay' = [replay EXCEPT !.pc = "model", !.tries = 0]
        /\ UNCHANGED events
     \/ /\ replay.tries < MAX_ITERATIONS
        /\ Stored.status # "l1_confirmed"
        /\ replay' = [replay EXCEPT !.tries = @ + 1]
        /\ L1Confirm(Stored)
  /\ UNCHANGED <<liveSide, failures, falses>>

ReplayReread ==
  /\ replay.pc = "model"
  /\ replay' = [replay EXCEPT !.pc = "verifying", !.read = Stored.status]
  /\ UNCHANGED <<events, liveSide, failures, falses>>

ReplaySeal ==
  /\ replay.pc = "verifying"
  /\ SealHash(replay.id, replay.read)
  /\ replay' = NoReplay
  /\ UNCHANGED <<liveSide, failures, falses>>

\* A failed call in the filter or L1 loop costs an iteration, one in verify_event
\* ends the run; so does an uncaught error or being killed.
ReplayCallFails ==
  /\ failures < MaxFailures
  /\ \/ replay.pc = "check" /\ replay' = NextIteration
     \/ /\ replay.pc = "l1" /\ replay.tries < MAX_ITERATIONS
        /\ replay' = [replay EXCEPT !.tries = @ + 1]
     \/ replay.pc # "none" /\ replay' = NoReplay
  /\ failures' = failures + 1
  /\ UNCHANGED <<events, liveSide, falses>>

ReplayStep ==
  ReplaySetSource \/ ReplayLook \/ ReplayBlock \/ ReplayDecided \/ ReplayAsk \/ ReplayWrite \/ ReplayL1 \/ ReplayReread \/ ReplaySeal

-----------------------------------------------------------------------------
(* The chain *)

NewBlock ==
  /\ head < MaxBlock
  /\ head' = head + 1
  /\ UNCHANGED <<events, current_block, inbox, live, replay, filterList, logged, failures, falses>>

\* The curated list only grows.
ListFiltered(tx) ==
  /\ filterList' = filterList \cup {tx}
  /\ UNCHANGED <<events, current_block, inbox, live, replay, head, logged, failures, falses>>

LogAppears(tx) ==
  /\ logged' = logged \cup {tx}
  /\ UNCHANGED <<events, current_block, inbox, live, replay, head, filterList, failures, falses>>

-----------------------------------------------------------------------------

Feed == \E seq \in 1..MaxBlock : FeedMessage(seq)
FeedInserts == \E tx \in Tx : FeedInsert(tx)

Next ==
  \/ Feed \/ FeedInserts
  \/ LiveStep \/ LiveCallsFail \/ LiveDies \/ Restart
  \/ (\E tx \in BackfillTx : ReplayInsert(tx)) \/ ReplayStep \/ ReplayCallFails
  \/ NewBlock \/ (\E tx \in Tx : ListFiltered(tx) \/ LogAppears(tx))

Spec == Init /\ [][Next]_vars

\* The chain and the event loop keep going and docker restarts the process.  The
\* feed gets its turn in every sleep of the loop but only there, so its
\* fairness is strong.
FairSpec ==
  /\ Spec
  /\ WF_vars(NewBlock) /\ SF_vars(Feed) /\ WF_vars(FeedInserts)
  /\ WF_vars(LiveStep) /\ WF_vars(Restart)

-----------------------------------------------------------------------------
(* Properties *)

Status == {"pending", "filter_check_in_progress", "confirmed_not_filtered", "filtered", "l1_confirmed"}

EventRow ==
  [id : 1..MaxRows, tx : Tx, block_number : 1..MaxBlock, status : Status,
   filter_check_count : Nat, last_checked_block : 1..MaxBlock \cup {None},
   reference_model_hash : Status \cup {None},
   reference_model_verify_attempts : 0..MAX_REFERENCE_MODEL_ATTEMPTS,
   source : {"live_detection", "historical_backfill"}]

LiveState ==
  [pc : {"down", "asleep", "filter", "answered", "l1", "model", "verifying"}, todo : SUBSET EventRow,
   block : 0..MaxBlock, answer : BOOLEAN, read : Status \cup {None}]

ReplayState ==
  [pc : {"none", "set_source", "filter", "decided", "block", "check", "answered", "l1", "model", "verifying"},
   id : 0..MaxRows, tries : 0..MAX_ITERATIONS, row : EventRow \cup {None},
   block : 0..MaxBlock, answer : BOOLEAN, read : Status \cup {None}]

TypeOK ==
  /\ events \in Seq(EventRow) /\ Len(events) <= MaxRows
  /\ \A i \in DOMAIN events : events[i].id = i
  /\ current_block \in 0..MaxBlock /\ inbox \subseteq Tx
  /\ live \in LiveState /\ replay \in ReplayState
  /\ head \in 1..MaxBlock /\ filterList \subseteq Tx /\ logged \subseteq Tx
  /\ failures \in 0..MaxFailures
  /\ falses \in Seq(Seq(1..MaxBlock)) /\ Len(falses) = Len(events)

\* However checks of two processes interleave, stale snapshots included, a row
\* is called not filtered only after three false answers, and confirmed only
\* with its log on the chain: the count is the database's, never a snapshot's
\* (event_store 112-117, l1_confirmer 70-77).
ConfirmedOnEvidence ==
  \A i \in DOMAIN events :
    /\ events[i].status = "confirmed_not_filtered" => Len(falses[i]) >= REQUIRED_FALSE_STREAK
    /\ events[i].status = "l1_confirmed" => events[i].tx \in logged

\* One process alone: an event that is called not filtered, or confirmed after it,
\* got three false results, each at least two blocks after the one before, whatever
\* calls failed and whatever died in between (filter_verifier 75-78).
FalsesAreSpaced ==
  \A i \in DOMAIN events :
    /\ events[i].status \in {"confirmed_not_filtered", "l1_confirmed"} => Len(falses[i]) >= REQUIRED_FALSE_STREAK
    /\ \A j \in 1..(Len(falses[i]) - 1) :
         falses[i][j + 1] - falses[i][j] >= MIN_BLOCKS_BETWEEN_CHECKS

Rank(status) ==
  CASE status = "pending" -> 0
    [] status = "filter_check_in_progress" -> 1
    [] status \in {"filtered", "confirmed_not_filtered"} -> 2
    [] status = "l1_confirmed" -> 3

\* The state machine only goes forward, and never on from `filtered`.
StatusGoesForward ==
  [][\A i \in DOMAIN events :
       /\ events[i].status = "filtered" => events'[i].status = "filtered"
       /\ Rank(events'[i].status) >= Rank(events[i].status)]_vars

\* `filtered` is a terminal state (event_store 3-6).
FilteredIsTerminal ==
  [][\A i \in DOMAIN events :
       events[i].status = "filtered" => events'[i].status = "filtered"]_vars

\* A sealed hash is of a confirmed row, and stays the hash of what the row says.
HashSealsConfirmed ==
  \A i \in DOMAIN events :
    events[i].reference_model_hash # None =>
      events[i].reference_model_hash = "l1_confirmed" /\ events[i].status = "l1_confirmed"

Settled(i) ==
  \/ events[i].status = "filtered"
  \/ events[i].status = "confirmed_not_filtered" /\ events[i].tx \notin logged
  \/ events[i].status = "l1_confirmed" /\ ~Awaiting(events[i])

\* Every event in the table is settled in the end: filtered, or not filtered and
\* without a log so far, or confirmed and sealed or given up on.  A crash in the
\* middle of a tick or a failed call loses nothing that is in the table.
EventsSettle == \A i \in 1..MaxRows : Len(events) >= i ~> Len(events) >= i /\ Settled(i)
=============================================================================
