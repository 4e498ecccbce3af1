---------------------------- MODULE ReferenceModel ----------------------------
(***************************************************************************)
(* reference_model.verify_event against a token whose answers change while *)
(* it is being asked, by the processes that call it: the live loop of      *)
(* main.py and backfill_new_token_events.py, which unless told otherwise   *)
(* works on the live loop's own database.                                  *)
(*                                                                         *)
(* One token: the calls for different tokens have nothing in common.  A    *)
(* block is its own timestamp.  What the filter and L1 checks decide is    *)
(* EventPipeline's subject: here they leave a row, or give it any status   *)
(* they may give.                                                          *)
(***************************************************************************)
EXTENDS Integers, Sequences, FiniteSets

CONSTANTS
  Update,        \* transactions that announce a new multiplier
  Multiplier,    \* the multipliers that may be announced, in units of the initial one
  Delay,         \* blocks from each announcement to its effectiveAt
  Live,          \* processes that run the live loop
  Scripted,      \* processes that run the backfill script
  Database,
  DatabaseOf,    \* the database that each process opens
  KNOWN_EVENTS,  \* the script's list
  FeedOffset,    \* how far a row's block can be from its log's: <= BLOCK_WINDOW
  None,          \* SQL NULL, and Python's
  MaxBlock,      \* bound: the last block
  MaxRows,       \* bound: rows of each database
  MaxFailures    \* bound: calls that fail and processes that die

MAX_REFERENCE_MODEL_ATTEMPTS == 3

Process == Live \cup Scripted

Status == {"pending", "filter_check_in_progress", "confirmed_not_filtered", "filtered", "l1_confirmed"}

\* What get_pending_events selects.
PendingStatus == {"pending", "filter_check_in_progress"}

\* What filter_verifier.check_event may write.
FilterOutcome == {"filter_check_in_progress", "confirmed_not_filtered", "filtered"}

LogRecord == [tx : Update, block : 1..MaxBlock, old : Nat, new : Nat, effective_at : Nat]

\* What the chain answers about a block without a log.
NoLog(block) == [tx |-> None, block |-> block, old |-> None, new |-> None, effective_at |-> None]

LogAnswer == LogRecord \cup {NoLog(block) : block \in 1..MaxBlock}

FactRecord ==
  [block_number : 1..MaxBlock, log : LogAnswer,
   onchain_ui_multiplier : Nat, onchain_new_ui_multiplier : Nat, onchain_effective_at : Nat]

\* SHA-256 is taken as injective: a hash is what it covers.
Hash == [tx_hash : Update, event_store_status : Status, record : FactRecord]

\* One live loop per database: main.py is one service.
ASSUME ReferenceAssumption ==
  /\ IsFiniteSet(Update) /\ None \notin Update \cup Nat \cup BOOLEAN /\ None \notin Hash
  /\ Live \cap Scripted = {}
  /\ DatabaseOf \in [Process -> Database]
  /\ \A p, q \in Live : DatabaseOf[p] = DatabaseOf[q] => p = q
  /\ Multiplier \subseteq Nat /\ Delay \in [Update -> Nat]
  /\ KNOWN_EVENTS \in Seq(Update)
  /\ FeedOffset \in Nat /\ MaxBlock \in Nat \ {0} /\ MaxRows \in [Database -> Nat] /\ MaxFailures \in Nat

VARIABLES
  now,        \* the latest block
  token,      \* the token's multipliers and effectiveAt, and which updates set them
  logs,       \* its UIMultiplierUpdated logs
  tookEffect, \* history: updates whose multiplier uiMultiplier() has answered
  changes,    \* history: how often an answer of the token changed
  events,     \* each database's rows, in order of id
  worker,     \* where each process is, and what it has read
  results,    \* each script's results so far
  failures,
  seals       \* history: every hash written, with its verdict

external == <<now, token, logs, tookEffect, changes>>
vars == <<external, events, worker, results, failures, seals>>

-----------------------------------------------------------------------------
(* The token *)

INITIAL_MULTIPLIER == 1

Ui(t, block) == IF block >= t.effective_at THEN t.new ELSE t.old

\* The update whose multiplier that is, None for the initial one.
UiBy(t, block) == IF block >= t.effective_at THEN t.by ELSE t.was

Answers(t, block) == <<Ui(t, block), t.new, t.effective_at>>

Logged == {logs[i].tx : i \in DOMAIN logs}

Chain == [token |-> token, logs |-> logs]

\* One update in the next block; one that does not land leaves a log and no effect.
Announce(landing, chain, tx, new) ==
  LET block == now + 1
      t == [old |-> Ui(chain.token, block), was |-> UiBy(chain.token, block), new |-> new, by |-> tx,
            effective_at |-> block + Delay[tx]]
  IN  [token |-> IF tx \in landing THEN t ELSE chain.token,
       logs |-> Append(chain.logs, [tx |-> tx, block |-> block, old |-> t.old, new |-> new,
                                    effective_at |-> t.effective_at])]

NewBlock(chain) ==
  /\ now < MaxBlock
  /\ now' = now + 1
  /\ token' = chain.token
  /\ logs' = chain.logs
  /\ tookEffect' = tookEffect \cup ({UiBy(chain.token, now + 1)} \ {None})
  /\ changes' = changes + IF Answers(chain.token, now + 1) = Answers(token, now) THEN 0 ELSE 1
  /\ UNCHANGED <<events, worker, results, failures, seals>>

-----------------------------------------------------------------------------
(* The tables *)

Table(p) == events[DatabaseOf[p]]

Row(id, tx, block) ==
  [id |-> id, tx |-> tx, block_number |-> block, status |-> "pending", reference_model_hash |-> None,
   reference_model_verify_attempts |-> 0]

Insert_Lagging(p, tx, block) ==   \* seeded fault: the row gets the id before it
  events' = [events EXCEPT ![DatabaseOf[p]] = Append(@, Row(Len(@), tx, block))]

Insert(p, tx, block) ==
  events' = [events EXCEPT ![DatabaseOf[p]] = Append(@, Row(Len(@) + 1, tx, block))]

\* Whatever the row says by now.
SetStatus(p, id, status) == events' = [events EXCEPT ![DatabaseOf[p]][id].status = status]

\* A check leaves the row, or writes what it found.
CheckRow(p, id, outcomes) == UNCHANGED events \/ \E status \in outcomes : SetStatus(p, id, status)

RowsIn(p, statuses) == {i \in DOMAIN Table(p) : Table(p)[i].status \in statuses}

First(ids) == CHOOSE i \in ids : \A j \in ids : i <= j

-----------------------------------------------------------------------------
(* The live loop *)

\* rows are those of the phase's query that are still to come; item is the
\* position of a script in its list.
Idle ==
  [pc |-> "idle", rows |-> {}, item |-> 0, id |-> 0, status |-> None, log |-> None, ui |-> 0, new |-> 0,
   effective_at |-> 0, begun |-> 0, match |-> FALSE, at |-> 0]

Init ==
  /\ now = 1
  /\ token = [old |-> INITIAL_MULTIPLIER, was |-> None, new |-> INITIAL_MULTIPLIER, by |-> None, effective_at |-> 0]
  /\ logs = <<>> /\ tookEffect = {} /\ changes = 0
  /\ events = [d \in Database |-> <<>>]
  /\ worker = [p \in Process |-> Idle]
  /\ results = [p \in Scripted |-> <<>>]
  /\ failures = 0
  /\ seals = {}

\* The feed runs while the loop sleeps.  A transaction is seen at a block near that
\* of its log, as often as the feed delivers it.
Detect(p, tx, block) ==
  /\ worker[p].pc = "idle"
  /\ Len(Table(p)) < MaxRows[DatabaseOf[p]]
  /\ \E i \in DOMAIN logs :
       /\ logs[i].tx = tx
       /\ block \in (logs[i].block - FeedOffset)..(logs[i].block + FeedOffset)
  /\ block \in 1..now
  /\ Insert(p, tx, block)
  /\ UNCHANGED <<external, worker, results, failures, seals>>

\* Each phase asks for its rows once and then goes through them in order of id.
Tick(p) ==
  /\ worker[p].pc = "idle"
  /\ worker' = [worker EXCEPT ![p] = [@ EXCEPT !.pc = "filtering", !.rows = RowsIn(p, PendingStatus)]]
  /\ UNCHANGED <<external, events, results, failures, seals>>

CheckNext(p, phase, outcomes) ==
  /\ worker[p].pc = phase /\ worker[p].rows # {}
  /\ CheckRow(p, First(worker[p].rows), outcomes)
  /\ worker' = [worker EXCEPT ![p].rows = @ \ {First(@)}]
  /\ UNCHANGED <<external, results, failures, seals>>

FilterRow(p) == CheckNext(p, "filtering", FilterOutcome)

ConfirmPhase(p) ==
  /\ worker[p].pc = "filtering" /\ worker[p].rows = {}
  /\ worker' = [worker EXCEPT ![p] = [@ EXCEPT !.pc = "confirming", !.rows = RowsIn(p, {"confirmed_not_filtered"})]]
  /\ UNCHANGED <<external, events, results, failures, seals>>

ConfirmRow(p) == CheckNext(p, "confirming", {"l1_confirmed"})

Awaiting_Resealed(row) ==   \* seeded fault: a sealed row is verified again
  row.status = "l1_confirmed" /\ row.reference_model_verify_attempts < MAX_REFERENCE_MODEL_ATTEMPTS

Awaiting(row) ==
  /\ row.status = "l1_confirmed"
  /\ row.reference_model_hash = None
  /\ row.reference_model_verify_attempts < MAX_REFERENCE_MODEL_ATTEMPTS

Visit(ids) ==
  IF ids = {} THEN Idle
  ELSE [Idle EXCEPT !.pc = "ask", !.rows = ids \ {First(ids)}, !.id = First(ids)]

ReferencePhase(p) ==
  /\ worker[p].pc = "confirming" /\ worker[p].rows = {}
  /\ worker' = [worker EXCEPT ![p] = Visit({i \in DOMAIN Table(p) : Awaiting(Table(p)[i])})]
  /\ UNCHANGED <<external, events, results, failures, seals>>

-----------------------------------------------------------------------------
(* verify_event *)

Stored(p) == Table(p)[worker[p].id]

Goto(p, pc) == worker' = [worker EXCEPT ![p].pc = pc]

LogsOf(block) == {i \in DOMAIN logs : logs[i].block = block}

\* fetch_event_log: the first log of exactly this block.
EventLog(block) == IF LogsOf(block) = {} THEN NoLog(block) ELSE logs[First(LogsOf(block))]

\* The row is read once, at the start; the logs of a past block do not change.
ReadEvent(p) ==
  /\ worker[p].pc = "ask"
  /\ worker' = [worker EXCEPT ![p] = [@ EXCEPT !.pc = "asked_log", !.status = Stored(p).status,
                                               !.log = EventLog(Stored(p).block_number)]]
  /\ UNCHANGED <<external, events, results, failures, seals>>

ReadUi(p) ==
  /\ worker[p].pc = "asked_log"
  /\ worker' = [worker EXCEPT ![p] = [@ EXCEPT !.pc = "asked_ui", !.ui = Ui(token, now), !.begun = changes]]
  /\ UNCHANGED <<external, events, results, failures, seals>>

ReadNew(p) ==
  /\ worker[p].pc = "asked_ui"
  /\ worker' = [worker EXCEPT ![p] = [@ EXCEPT !.pc = "asked_new", !.new = token.new]]
  /\ UNCHANGED <<external, events, results, failures, seals>>

ReadEffectiveAt(p) ==
  /\ worker[p].pc = "asked_new"
  /\ worker' = [worker EXCEPT ![p] = [@ EXCEPT !.pc = "asked_all", !.effective_at = token.effective_at]]
  /\ UNCHANGED <<external, events, results, failures, seals>>

Passed_Late(effective_at) == now > effective_at   \* seeded fault: the block of effectiveAt itself is let off

Passed(effective_at) == now >= effective_at

\* Only the values are compared.
NeverTookEffect(w) == w.log.tx # None /\ Passed(w.log.effective_at) /\ w.ui # w.log.new

\* The block's timestamp is asked for last, and only if there is a log.
Judge(p) ==
  /\ worker[p].pc = "asked_all"
  /\ worker' = [worker EXCEPT ![p] =
       [@ EXCEPT !.pc = "judged", !.at = now,
                 !.match = ~NeverTookEffect(worker[p]) /\ worker[p].log.tx = Stored(p).tx]]
  /\ UNCHANGED <<external, events, results, failures, seals>>

Record(row, w) ==
  [block_number |-> row.block_number, log |-> w.log, onchain_ui_multiplier |-> w.ui,
   onchain_new_ui_multiplier |-> w.new, onchain_effective_at |-> w.effective_at]

HashOf_Dated(row, w) ==   \* seeded fault: the hash covers when it was taken
  [tx_hash |-> row.tx, event_store_status |-> w.status, record |-> Record(row, w), at |-> w.at]

HashOf(row, w) == [tx_hash |-> row.tx, event_store_status |-> w.status, record |-> Record(row, w)]

SealRecord(p, hash) ==
  [process |-> p, db |-> DatabaseOf[p], id |-> worker[p].id, tx |-> Stored(p).tx, block |-> Stored(p).block_number,
   hash |-> hash, match |-> worker[p].match, begun |-> worker[p].begun, ended |-> changes, at |-> worker[p].at]

\* The hash is written whatever the verdict, and whatever hash the row has by now.
\* The loop goes on to its next row, the script to its report.
Seal(p) ==
  LET hash == HashOf(Stored(p), worker[p]) IN
  /\ worker[p].pc = "judged"
  /\ events' = [events EXCEPT ![DatabaseOf[p]][worker[p].id].reference_model_hash = hash]
  /\ seals' = seals \cup {SealRecord(p, hash)}
  /\ IF p \in Live THEN worker' = [worker EXCEPT ![p] = Visit(@.rows)] ELSE Goto(p, "sealed")
  /\ UNCHANGED <<external, results, failures>>

Verifying == {"ask", "asked_log", "asked_ui", "asked_new", "asked_all", "judged"}

\* The loop counts a call that fails, in the chain or in the database.
LoopFails(p) ==
  /\ failures < MaxFailures /\ worker[p].pc \in Verifying
  /\ failures' = failures + 1
  /\ events' = [events EXCEPT ![DatabaseOf[p]][worker[p].id].reference_model_verify_attempts = @ + 1]
  /\ worker' = [worker EXCEPT ![p] = Visit(@.rows)]
  /\ UNCHANGED <<external, results, seals>>

\* For the script a call to the chain that fails is no match, and no exception.
ScriptFails(p) ==
  /\ failures < MaxFailures /\ worker[p].pc \in Verifying \ {"judged"}
  /\ failures' = failures + 1
  /\ Goto(p, "sealed")
  /\ UNCHANGED <<external, events, results, seals>>

-----------------------------------------------------------------------------
(* backfill_new_token_events *)

LogOf(tx) == CHOOSE l \in {logs[i] : i \in DOMAIN logs} : l.tx = tx

NextItem(p) == [Idle EXCEPT !.pc = "insert", !.item = worker[p].item + 1]

Result(p, status, hash, match) ==
  [tx |-> KNOWN_EVENTS[worker[p].item], id |-> worker[p].id, status |-> status, hash |-> hash, match |-> match]

\* backfill_one returns: on with the next event.
Report(p, status, hash, match) ==
  /\ results' = [results EXCEPT ![p] = Append(@, Result(p, status, hash, match))]
  /\ worker' = [worker EXCEPT ![p] = NextItem(p)]
  /\ UNCHANGED <<external, events, failures, seals>>

\* The list was read off the chain: its events are there before the script is.
ScriptStart(p) ==
  /\ worker[p].pc = "idle"
  /\ \A i \in DOMAIN KNOWN_EVENTS : KNOWN_EVENTS[i] \in Logged
  /\ worker' = [worker EXCEPT ![p] = [Idle EXCEPT !.pc = "insert", !.item = 1]]
  /\ results' = [results EXCEPT ![p] = <<>>]
  /\ UNCHANGED <<external, events, failures, seals>>

RunIsOver(p) == worker[p].pc = "insert" /\ worker[p].item > Len(KNOWN_EVENTS)

\* Every run inserts a row of its own, whatever rows there are.
ScriptInsert(p) ==
  /\ worker[p].pc = "insert" /\ ~RunIsOver(p)
  /\ Len(Table(p)) < MaxRows[DatabaseOf[p]]
  /\ LET tx == KNOWN_EVENTS[worker[p].item] IN Insert(p, tx, LogOf(tx).block)
  /\ worker' = [worker EXCEPT ![p] = [@ EXCEPT !.pc = "screen", !.id = Len(Table(p)) + 1]]
  /\ UNCHANGED <<external, results, failures, seals>>

\* The filter loop: read the row, check it unless it is through, read it again.
ScriptScreens(p) ==
  /\ worker[p].pc = "screen"
  /\ Goto(p, IF Stored(p).status \in PendingStatus THEN "screening" ELSE "screened")
  /\ UNCHANGED <<external, events, results, failures, seals>>

ScriptFilters(p) ==
  /\ worker[p].pc = "screening"
  /\ CheckRow(p, worker[p].id, FilterOutcome)
  /\ Goto(p, "screen")
  /\ UNCHANGED <<external, results, failures, seals>>

ScriptGivesUp(p) ==
  /\ worker[p].pc = "screened" /\ Stored(p).status = "filtered"
  /\ Report(p, "filtered", None, None)

ScriptGoesOn(p) ==
  /\ worker[p].pc = "screened" /\ Stored(p).status # "filtered"
  /\ Goto(p, "confirm")
  /\ UNCHANGED <<external, events, results, failures, seals>>

\* The L1 loop, in the same way.
ScriptReadsConfirmed(p) ==
  /\ worker[p].pc = "confirm"
  /\ Goto(p, IF Stored(p).status = "l1_confirmed" THEN "ask" ELSE "searching")
  /\ UNCHANGED <<external, events, results, failures, seals>>

ScriptConfirms(p) ==
  /\ worker[p].pc = "searching"
  /\ CheckRow(p, worker[p].id, {"l1_confirmed"})
  /\ Goto(p, "confirm")
  /\ UNCHANGED <<external, results, failures, seals>>

\* A loop that ends without its break is a timeout, even if its last pass was the
\* one that got the row through.
ScriptTimesOut(p) ==
  /\ worker[p].pc \in {"screen", "confirm"}
  /\ Report(p, "timeout", None, None)

\* The row is read again for the report.
ScriptReports(p) ==
  /\ worker[p].pc = "sealed"
  /\ Report(p, Stored(p).status, Stored(p).reference_model_hash, worker[p].match)

AfterException_Stops(p) ==   \* seeded fault: the run ends
  [Idle EXCEPT !.pc = "insert", !.item = Len(KNOWN_EVENTS) + 1]

AfterException(p) == NextItem(p)

\* Anything else that is raised: main reports it and goes on with the next event.
ScriptException(p) ==
  /\ failures < MaxFailures
  /\ worker[p].pc # "idle" /\ ~RunIsOver(p)
  /\ failures' = failures + 1
  /\ results' = [results EXCEPT ![p] = Append(@, Result(p, "exception", None, None))]
  /\ worker' = [worker EXCEPT ![p] = AfterException(p)]
  /\ UNCHANGED <<external, events, seals>>

ScriptEnd(p) ==
  /\ RunIsOver(p)
  /\ worker' = [worker EXCEPT ![p] = Idle]
  /\ UNCHANGED <<external, events, results, failures, seals>>

-----------------------------------------------------------------------------

\* A process ends anywhere and starts again from its table.
Dies(p) ==
  /\ failures < MaxFailures /\ worker[p].pc # "idle"
  /\ failures' = failures + 1
  /\ worker' = [worker EXCEPT ![p] = Idle]
  /\ UNCHANGED <<external, events, results, seals>>

\* A block with no update, one, or two; they all take effect or none does.
Block ==
  \/ NewBlock(Chain)
  \/ \E tx \in Update \ Logged, new \in Multiplier, landing \in {{}, Update} :
       NewBlock(Announce(landing, Chain, tx, new))
  \/ \E tx, ty \in Update \ Logged, new, newer \in Multiplier, landing \in {{}, Update} :
       tx # ty /\ NewBlock(Announce(landing, Announce(landing, Chain, tx, new), ty, newer))

Verify(p) == ReadEvent(p) \/ ReadUi(p) \/ ReadNew(p) \/ ReadEffectiveAt(p) \/ Judge(p) \/ Seal(p)

Loop(p) ==
  \/ \E tx \in Update, block \in 1..MaxBlock : Detect(p, tx, block)
  \/ Tick(p) \/ FilterRow(p) \/ ConfirmPhase(p) \/ ConfirmRow(p) \/ ReferencePhase(p) \/ LoopFails(p)

Script(p) ==
  \/ ScriptStart(p) \/ ScriptInsert(p) \/ ScriptScreens(p) \/ ScriptFilters(p) \/ ScriptGivesUp(p)
  \/ ScriptGoesOn(p) \/ ScriptReadsConfirmed(p) \/ ScriptConfirms(p) \/ ScriptTimesOut(p)
  \/ ScriptFails(p) \/ ScriptReports(p) \/ ScriptException(p) \/ ScriptEnd(p)

Next ==
  \/ Block
  \/ \E p \in Live : Loop(p)
  \/ \E p \in Scripted : Script(p)
  \/ \E p \in Process : Verify(p) \/ Dies(p)

Spec == Init /\ [][Next]_vars

-----------------------------------------------------------------------------
(* Properties *)

TypeOK ==
  /\ now \in 1..MaxBlock
  /\ token \in [old : Nat, was : Update \cup {None}, new : Nat, by : Update \cup {None}, effective_at : Nat]
  /\ logs \in Seq(LogRecord) /\ tookEffect \subseteq Logged /\ changes \in 0..MaxBlock
  /\ \A d \in Database :
       /\ Len(events[d]) <= MaxRows[d]
       /\ \A i \in DOMAIN events[d] :
            LET row == events[d][i] IN
            /\ row.id = i /\ row.tx \in Logged /\ row.block_number \in 1..now /\ row.status \in Status
            /\ row.reference_model_verify_attempts \in 0..MAX_REFERENCE_MODEL_ATTEMPTS
  /\ \A p \in Process :
       /\ worker[p].rows \subseteq DOMAIN Table(p)
       /\ worker[p].id \in 0..Len(Table(p))
  /\ failures \in 0..MaxFailures

\* Two verifications of one transaction at one block that read the same status,
\* by whatever processes and on whatever rows of whatever tables, get the same
\* hash as long as the token's answers are the same throughout both
\* (reference_model 228-236).
QuietFactsSealAlike ==
  \A s, u \in seals :
    /\ s.tx = u.tx /\ s.block = u.block
    /\ s.hash.event_store_status = u.hash.event_store_status
    /\ {s.begun, s.ended} = {u.begun} /\ u.ended = u.begun
    => s.hash = u.hash

\* The value of the log was the token's anyway: the initial one, or that of an
\* update that took effect.
Coincides(log) ==
  \/ log.new = INITIAL_MULTIPLIER
  \/ \E i \in DOMAIN logs : logs[i].tx \in tookEffect \ {log.tx} /\ logs[i].new = log.new

\* A match is the row's own log and, if its effectiveAt was over at the end of the
\* verification, an update that really took effect, however the token changes
\* between the calls (lines 12-21).  What is compared is a value (156): an update
\* that did not take effect matches only if its value coincides.
MatchIsEarned ==
  \A s \in seals :
    s.match =>
      /\ s.hash.record.log.tx = s.tx
      /\ s.at >= s.hash.record.log.effective_at => s.tx \in tookEffect \/ Coincides(s.hash.record.log)

\* No process verifies a row to the end twice, through failures, deaths, and
\* whatever another process writes to the row (main.py 99-102): the loop because
\* a row that has a hash keeps one, the script because each run has rows of its
\* own.  Two processes may each seal the row.
NobodySealsTwice ==
  \A s, u \in seals : s.process = u.process /\ s.id = u.id => s = u

\* A run reports every event it knows, each in its place, whatever failed before
\* it (backfill_new_token_events 146-150, 245).  A match that it reports is that
\* of its own verification, and what that found is reported unless an exception is;
\* a hash that it reports was written to that row, by whichever process.
ReportIsTrue ==
  \A p \in Scripted :
    /\ RunIsOver(p) => Len(results[p]) = Len(KNOWN_EVENTS)
    /\ \A i \in DOMAIN results[p] :
         LET result == results[p][i]
             sealed == {s \in seals : s.db = DatabaseOf[p] /\ s.id = result.id}
             own == {s \in sealed : s.process = p} IN
         /\ result.tx = KNOWN_EVENTS[i]
         /\ \A s \in sealed : s.tx = result.tx
         /\ result.hash # None => \E s \in sealed : s.hash = result.hash
         /\ result.match = TRUE => \E s \in own : s.match
         /\ result.status # "exception" => \A s \in own : result.match = s.match

\* A hash is a function of the event: whoever verifies it, and whenever, gets the
\* same one (main.py 99-102, reference_model 228-236).
HashIsReproducible ==
  \A s, u \in seals : s.tx = u.tx /\ s.block = u.block => s.hash = u.hash
=============================================================================
