------------------------- MODULE ReferenceModel_proofs -------------------------
(***************************************************************************)
(* Theorems about ReferenceModel, for any updates and multipliers, any     *)
(* processes and the databases they share, any list of known events, and   *)
(* any number of rows, blocks and failures.                                *)
(***************************************************************************)
EXTENDS ReferenceModel, WellFoundedInduction, TLAPS

-----------------------------------------------------------------------------
(* The inductive invariant *)

EventRow ==
  [id : Nat, tx : Update, block_number : 1..MaxBlock, status : Status, reference_model_hash : Hash \cup {None},
   reference_model_verify_attempts : 0..MAX_REFERENCE_MODEL_ATTEMPTS]

\* Where a script is at a row that it has not verified yet.
Screening == {"screen", "screening", "screened", "confirm", "searching"}

AtRow == Screening \cup Verifying \cup {"sealed"}

WorkerState ==
  [pc : {"idle", "filtering", "confirming", "insert"} \cup AtRow, rows : SUBSET Nat, item : Nat, id : Nat,
   status : Status \cup {None}, log : LogAnswer \cup {None}, ui : Nat, new : Nat, effective_at : Nat, begun : Nat,
   match : BOOLEAN, at : Nat]

ResultState ==
  [tx : Update, id : Nat, status : Status \cup {"timeout", "exception"}, hash : Hash \cup {None},
   match : BOOLEAN \cup {None}]

SealState ==
  [process : Process, db : Database, id : Nat, tx : Update, block : 1..MaxBlock, hash : Hash, match : BOOLEAN,
   begun : Nat, ended : Nat, at : Nat]

TokenState == [old : Nat, was : Update \cup {None}, new : Nat, by : Update \cup {None}, effective_at : Nat]

\* A multiplier is that of the update it is ascribed to.
Origin(ls, by, multiplier) ==
  \/ by = None /\ multiplier = INITIAL_MULTIPLIER
  \/ \E i \in DOMAIN ls : ls[i].tx = by /\ ls[i].new = multiplier

\* Whatever the token answers with is known to have taken effect.
TokenOK ==
  /\ now \in 1..MaxBlock /\ changes \in 0..now
  /\ token \in TokenState
  /\ logs \in Seq(LogRecord)
  /\ \A i \in DOMAIN logs : logs[i].block <= now
  /\ Origin(logs, token.by, token.new) /\ Origin(logs, token.was, token.old)
  /\ tookEffect \subseteq Logged
  /\ UiBy(token, now) # None => UiBy(token, now) \in tookEffect

TableOK(d, rows) ==
  /\ rows \in Seq(EventRow) /\ Len(rows) <= MaxRows[d]
  /\ \A i \in DOMAIN rows : rows[i].id = i /\ rows[i].tx \in Logged /\ rows[i].block_number <= now

\* A seal is of the facts about its transaction and its block, and of the token's
\* present answers if they have not changed since it was begun.
FactsOK(s) ==
  /\ s.begun <= s.ended /\ s.ended <= changes /\ s.block <= now
  /\ s.hash.tx_hash = s.tx
  /\ s.hash.record.block_number = s.block /\ s.hash.record.log = EventLog(s.block)
  /\ s.begun = changes => Answers(token, now) =
       <<s.hash.record.onchain_ui_multiplier, s.hash.record.onchain_new_ui_multiplier,
         s.hash.record.onchain_effective_at>>

\* Its row is there, and has a hash from then on.
PlaceOK(s) ==
  /\ s.db = DatabaseOf[s.process] /\ s.id \in DOMAIN events[s.db]
  /\ events[s.db][s.id].tx = s.tx /\ events[s.db][s.id].reference_model_hash # None

SealsOK == seals \subseteq SealState /\ \A s \in seals : FactsOK(s) /\ PlaceOK(s)

\* A hash was written by someone.
HashesOK ==
  \A d \in Database : \A i \in DOMAIN events[d] :
    events[d][i].reference_model_hash # None =>
      \E s \in seals : s.db = d /\ s.id = i /\ s.hash = events[d][i].reference_model_hash

GlobalOK ==
  /\ TokenOK /\ failures \in 0..MaxFailures
  /\ events \in [Database -> Seq(EventRow)] /\ \A d \in Database : TableOK(d, events[d])
  /\ SealsOK /\ HashesOK
  /\ QuietFactsSealAlike /\ MatchIsEarned /\ NobodySealsTwice

Unsealed(p, written, id) == \A s \in written : s.process = p => s.id # id

\* A process is at a row that is there.  What the loop has still to verify, and what
\* the script has not verified yet, it has never sealed.
WorkerOK(p, rows, written, w) ==
  /\ w \in WorkerState /\ w.rows \subseteq DOMAIN rows
  /\ w.pc \in AtRow => w.id \in DOMAIN rows
  /\ w.pc \notin AtRow => w.id = 0
  /\ p \in Live =>
       /\ w.pc \in {"idle", "filtering", "confirming"} \cup Verifying
       /\ w.pc \in Verifying => w.id \notin w.rows
       /\ w.pc \in Verifying => \A i \in w.rows \cup {w.id} :
            /\ rows[i].reference_model_verify_attempts < MAX_REFERENCE_MODEL_ATTEMPTS
            /\ Unsealed(p, written, i)
  /\ p \in Scripted =>
       /\ w.pc \notin {"filtering", "confirming"}
       /\ w.pc \in Screening \cup Verifying => Unsealed(p, written, w.id)

\* The value is one that the token really has or had.
UiEarned(multiplier) ==
  \/ multiplier = INITIAL_MULTIPLIER
  \/ \E i \in DOMAIN logs : logs[i].tx \in tookEffect /\ logs[i].new = multiplier

Earned(log, tx, at) ==
  log.tx = tx /\ (at >= log.effective_at => tx \in tookEffect \/ Coincides(log))

\* What a verification has read so far: the log is the block's for ever, and the
\* token's answers are its present ones unless they have changed since.
ReadOK(rows, w) ==
  /\ w.pc \in Verifying \ {"ask"} => w.status \in Status /\ w.log = EventLog(rows[w.id].block_number)
  /\ w.pc \in Verifying \ {"ask", "asked_log"} =>
       w.begun <= changes /\ UiEarned(w.ui) /\ (w.begun = changes => w.ui = Ui(token, now))
  /\ w.pc \in {"asked_new", "asked_all", "judged"} => (w.begun = changes => w.new = token.new)
  /\ w.pc \in {"asked_all", "judged"} => (w.begun = changes => w.effective_at = token.effective_at)
  /\ w.pc = "judged" => (w.match = TRUE => Earned(w.log, rows[w.id].tx, w.at))

ProcessOK(p, rows, written, w) == WorkerOK(p, rows, written, w) /\ ReadOK(rows, w)

Sealing(p, written, id) == {s \in written : s.process = p /\ s.id = id}

\* A result is about the list's event of its place, and of a row that the script
\* has left for good.
ResultOK(p, rows, written, w, i, result) ==
  /\ result.tx = KNOWN_EVENTS[i]
  /\ result.id # 0 => result.id \in DOMAIN rows /\ rows[result.id].tx = result.tx
  /\ w.pc \in AtRow => result.id # w.id
  /\ result.hash # None =>
       \E s \in written : s.db = DatabaseOf[p] /\ s.id = result.id /\ s.hash = result.hash
  /\ result.match = TRUE => \E s \in Sealing(p, written, result.id) : s.match = TRUE
  /\ result.status # "exception" => \A s \in Sealing(p, written, result.id) : result.match = s.match

ScriptOK(p, rows, written, w, res) ==
  /\ res \in Seq(ResultState) /\ Len(res) <= Len(KNOWN_EVENTS)
  /\ \A i \in DOMAIN res : ResultOK(p, rows, written, w, i, res[i])
  /\ w.pc # "idle" => /\ Len(res) + 1 = w.item
                      /\ \A i \in DOMAIN KNOWN_EVENTS : KNOWN_EVENTS[i] \in Logged
  /\ w.pc \in AtRow => w.item <= Len(KNOWN_EVENTS) /\ rows[w.id].tx = KNOWN_EVENTS[w.item]
  /\ w.pc \notin {"judged", "sealed"} => w.match = FALSE
  /\ w.pc = "sealed" =>
       /\ w.match = TRUE => \E s \in Sealing(p, written, w.id) : s.match = TRUE
       /\ \A s \in Sealing(p, written, w.id) : w.match = s.match

Inv ==
  /\ GlobalOK
  /\ worker \in [Process -> WorkerState] /\ results \in [Scripted -> Seq(ResultState)]
  /\ \A p \in Process : ProcessOK(p, Table(p), seals, worker[p])
  /\ \A p \in Scripted : ScriptOK(p, Table(p), seals, worker[p], results[p])

-----------------------------------------------------------------------------
(* Choices *)

LEMMA FirstIsLeast ==
  ASSUME NEW ids \in SUBSET Nat, ids # {}
  PROVE  First(ids) \in ids /\ \A j \in ids : First(ids) <= j
<1> DEFINE less == OpToRel(<, Nat)
<1>1. ASSUME NEW i \in Nat, NEW j \in Nat, i < j
      PROVE  <<i, j>> \in less
  BY <1>1 DEF OpToRel
<1>2. IsWellFoundedOn(less, Nat)
  BY NatLessThanWellFounded
<1> HIDE DEF less
<1>3. PICK i \in ids : \A j \in ids : <<j, i>> \notin less
  BY <1>2, WFMin
<1>4. ASSUME NEW j \in ids
      PROVE  i <= j
  <2>1. i \in Nat /\ j \in Nat /\ ~(j < i)
    BY <1>1, <1>3
  <2> QED
    BY <2>1
<1> QED
  BY <1>4 DEF First

-----------------------------------------------------------------------------
(* The token and its logs *)

LEMMA LogIsTyped ==
  ASSUME TokenOK, NEW i \in DOMAIN logs
  PROVE  logs[i] \in LogRecord
BY DEF TokenOK

\* A block's log is the first of those that name it, or none.
LEMMA EventLogIsTyped ==
  ASSUME TokenOK, NEW block \in 1..MaxBlock
  PROVE  EventLog(block) \in LogAnswer
<1>1. LogsOf(block) \in SUBSET Nat /\ \A i \in LogsOf(block) : i \in DOMAIN logs
  BY DEF LogsOf, TokenOK
<1>2. CASE LogsOf(block) = {}
  BY <1>2 DEF EventLog, LogAnswer
<1>3. CASE LogsOf(block) # {}
  <2>1. First(LogsOf(block)) \in DOMAIN logs
    BY <1>1, <1>3, FirstIsLeast
  <2>2. logs[First(LogsOf(block))] \in LogRecord
    BY <2>1 DEF TokenOK
  <2> QED
    BY <1>3, <2>2 DEF EventLog, LogAnswer
<1> QED
  BY <1>2, <1>3

\* A chain while a block is being filled.
ChainOK(chain) ==
  /\ chain.token \in TokenState
  /\ chain.logs \in Seq(LogRecord)
  /\ \A i \in DOMAIN chain.logs : chain.logs[i].block <= now + 1
  /\ \A i \in DOMAIN logs : i \in DOMAIN chain.logs /\ chain.logs[i] = logs[i]
  /\ \A i \in DOMAIN chain.logs : i \notin DOMAIN logs => chain.logs[i].block = now + 1
  /\ Origin(chain.logs, chain.token.by, chain.token.new)
  /\ Origin(chain.logs, chain.token.was, chain.token.old)

LEMMA ChainStarts ==
  ASSUME TokenOK
  PROVE  ChainOK(Chain)
<1>1. Chain.token = token /\ Chain.logs = logs
  BY DEF Chain
<1>2. \A i \in DOMAIN logs : logs[i].block <= now + 1
  <2>1. \A i \in DOMAIN logs : logs[i].block <= now /\ now \in Nat
    BY DEF TokenOK
  <2>2. \A i \in DOMAIN logs : logs[i].block \in Nat
    BY LogIsTyped DEF LogRecord
  <2> QED
    BY <2>1, <2>2
<1> QED
  BY <1>1, <1>2 DEF ChainOK, TokenOK

\* What the token answers with, and the update it is ascribed to.
LEMMA UiIsOneOfThem ==
  ASSUME NEW t \in TokenState, NEW block
  PROVE  /\ Ui(t, block) \in Nat /\ UiBy(t, block) \in Update \cup {None}
         /\ \/ Ui(t, block) = t.old /\ UiBy(t, block) = t.was
            \/ Ui(t, block) = t.new /\ UiBy(t, block) = t.by
BY DEF Ui, UiBy, TokenState

LEMMA UiHasOrigin ==
  ASSUME NEW t \in TokenState, NEW block, NEW ls, Origin(ls, t.by, t.new), Origin(ls, t.was, t.old)
  PROVE  Origin(ls, UiBy(t, block), Ui(t, block))
<1>1. \/ Ui(t, block) = t.old /\ UiBy(t, block) = t.was
      \/ Ui(t, block) = t.new /\ UiBy(t, block) = t.by
  BY UiIsOneOfThem
<1> QED
  BY <1>1

LEMMA AnnounceGoesOn ==
  ASSUME TokenOK, now < MaxBlock, NEW chain, ChainOK(chain), NEW tx \in Update, NEW new \in Multiplier, NEW landing
  PROVE  ChainOK(Announce(landing, chain, tx, new))
<1> DEFINE block == now + 1
           t == [old |-> Ui(chain.token, block), was |-> UiBy(chain.token, block), new |-> new, by |-> tx,
                 effective_at |-> block + Delay[tx]]
           log == [tx |-> tx, block |-> block, old |-> t.old, new |-> new, effective_at |-> t.effective_at]
           after == Announce(landing, chain, tx, new)
<1>1. block \in 1..MaxBlock /\ new \in Nat /\ block + Delay[tx] \in Nat
  BY ReferenceAssumption DEF TokenOK
<1>2. Ui(chain.token, block) \in Nat /\ UiBy(chain.token, block) \in Update \cup {None}
  BY UiIsOneOfThem DEF ChainOK
<1>3. t \in TokenState /\ log \in LogRecord
  BY <1>1, <1>2 DEF LogRecord, TokenState
<1>4. after.token = (IF tx \in landing THEN t ELSE chain.token) /\ after.logs = Append(chain.logs, log)
  BY DEF Announce
<1>5. t.old = Ui(chain.token, block) /\ t.was = UiBy(chain.token, block) /\ t.new = new /\ t.by = tx
      /\ log.tx = tx /\ log.block = block /\ log.new = new
  OBVIOUS
<1>6. Origin(chain.logs, UiBy(chain.token, block), Ui(chain.token, block))
  BY UiHasOrigin DEF ChainOK
<1> HIDE DEF t, log, after
<1>7. PICK n \in Nat : n = Len(chain.logs) /\ DOMAIN chain.logs = 1..n
  BY DEF ChainOK
<1>8. /\ after.logs \in Seq(LogRecord) /\ DOMAIN after.logs = 1..(n + 1)
      /\ \A i \in 1..n : after.logs[i] = chain.logs[i]
      /\ after.logs[n + 1] = log
  BY <1>3, <1>4, <1>7 DEF ChainOK
<1>9. \A i \in DOMAIN after.logs : i \in DOMAIN chain.logs \/ i = n + 1
  BY <1>7, <1>8
<1>10. n + 1 \in DOMAIN after.logs /\ \A i \in DOMAIN chain.logs : i \in DOMAIN after.logs /\ after.logs[i] = chain.logs[i]
  BY <1>7, <1>8
<1>11. after.token \in TokenState
  BY <1>3, <1>4 DEF ChainOK
<1>12. \A i \in DOMAIN after.logs : after.logs[i].block <= now + 1
  BY <1>1, <1>5, <1>8, <1>9, <1>10 DEF ChainOK
<1>13. \A i \in DOMAIN logs : i \in DOMAIN after.logs /\ after.logs[i] = logs[i]
  BY <1>10 DEF ChainOK
<1>14. \A i \in DOMAIN after.logs : i \notin DOMAIN logs => after.logs[i].block = now + 1
  BY <1>5, <1>8, <1>9, <1>10 DEF ChainOK
<1>15. \A by, multiplier : Origin(chain.logs, by, multiplier) => Origin(after.logs, by, multiplier)
  BY <1>10 DEF Origin
<1>16. Origin(after.logs, tx, new)
  BY <1>5, <1>8, <1>10 DEF Origin
<1>17. Origin(after.logs, after.token.by, after.token.new) /\ Origin(after.logs, after.token.was, after.token.old)
  BY <1>4, <1>5, <1>6, <1>15, <1>16 DEF ChainOK
<1>18. ChainOK(after)
  BY <1>8, <1>11, <1>12, <1>13, <1>14, <1>17 DEF ChainOK
<1> QED
  BY <1>18 DEF after

\* What a new block leaves as it was.
ChainGoesOn ==
  /\ now <= now' /\ changes <= changes'
  /\ Logged \subseteq Logged' /\ tookEffect \subseteq tookEffect'
  /\ \A i \in DOMAIN logs : i \in DOMAIN logs' /\ logs'[i] = logs[i]
  /\ \A block \in 1..now : EventLog(block)' = EventLog(block)
  /\ changes' = changes => Answers(token, now)' = Answers(token, now)

\* The logs of a past block are settled.
LEMMA PastLogsStay ==
  ASSUME TokenOK, NEW chain, ChainOK(chain), logs' = chain.logs, NEW block \in 1..now
  PROVE  EventLog(block)' = EventLog(block)
<1>1. LogsOf(block)' = LogsOf(block)
  <2>1. LogsOf(block)' = {i \in DOMAIN chain.logs : chain.logs[i].block = block}
    BY DEF LogsOf
  <2>2. block # now + 1
    BY DEF TokenOK
  <2>3. \A i \in DOMAIN chain.logs : chain.logs[i].block = block => i \in DOMAIN logs
    BY <2>2 DEF ChainOK
  <2>4. \A i \in DOMAIN logs : i \in DOMAIN chain.logs /\ chain.logs[i] = logs[i]
    BY DEF ChainOK
  <2> QED
    BY <2>1, <2>3, <2>4 DEF LogsOf
<1>2. CASE LogsOf(block) = {}
  BY <1>1, <1>2 DEF EventLog
<1>3. CASE LogsOf(block) # {}
  <2>1. LogsOf(block) \in SUBSET Nat /\ \A i \in LogsOf(block) : i \in DOMAIN logs
    BY DEF LogsOf, TokenOK
  <2>2. PICK i \in DOMAIN logs : i = First(LogsOf(block))
    BY <1>3, <2>1, FirstIsLeast
  <2>3. EventLog(block) = logs[i]
    BY <1>3, <2>2 DEF EventLog
  <2>4. EventLog(block)' = logs'[i]
    BY <1>1, <1>3, <2>2 DEF EventLog
  <2>5. logs'[i] = logs[i]
    BY DEF ChainOK
  <2> QED
    BY <2>3, <2>4, <2>5
<1> QED
  BY <1>2, <1>3

LEMMA NewBlockGoesOn ==
  ASSUME TokenOK, NEW chain, ChainOK(chain), NewBlock(chain)
  PROVE  TokenOK' /\ ChainGoesOn
<1> DEFINE by == UiBy(chain.token, now + 1)
<1>1. /\ now < MaxBlock /\ now' = now + 1 /\ now \in 1..MaxBlock /\ changes \in 0..now
      /\ token' = chain.token /\ logs' = chain.logs
      /\ tookEffect' = tookEffect \cup ({by} \ {None})
      /\ changes' = changes + IF Answers(chain.token, now + 1) = Answers(token, now) THEN 0 ELSE 1
  BY DEF NewBlock, TokenOK
<1>2. now' \in 1..MaxBlock /\ changes' \in 0..now' /\ changes <= changes' /\ now <= now'
  BY <1>1, ReferenceAssumption
<1>3. changes' = changes => Answers(chain.token, now + 1) = Answers(token, now)
  BY <1>1
<1>4. Answers(token, now)' = Answers(chain.token, now + 1)
  BY <1>1 DEF Answers, Ui
<1>5. Logged' = {chain.logs[i].tx : i \in DOMAIN chain.logs}
  BY <1>1 DEF Logged
<1>6. Logged \subseteq Logged' /\ \A i \in DOMAIN logs : i \in DOMAIN logs' /\ logs'[i] = logs[i]
  BY <1>1, <1>5 DEF Logged, ChainOK
<1>7. Origin(logs', token'.by, token'.new) /\ Origin(logs', token'.was, token'.old)
  BY <1>1 DEF ChainOK
<1>8. UiBy(token, now)' = by
  BY <1>1 DEF UiBy
<1>9. by # None => by \in Logged'
  <2>1. Origin(chain.logs, by, Ui(chain.token, now + 1))
    BY UiHasOrigin DEF ChainOK
  <2> QED
    BY <1>5, <2>1 DEF Origin
<1>10. tookEffect' \subseteq Logged' /\ (by # None => by \in tookEffect')
  BY <1>1, <1>6, <1>9 DEF TokenOK
<1>11. \A i \in DOMAIN logs' : logs'[i].block <= now'
  BY <1>1 DEF ChainOK
<1>12. TokenOK'
  <2> HIDE DEF by
  <2>1. token' \in TokenState /\ logs' \in Seq(LogRecord)
    BY <1>1 DEF ChainOK
  <2>2. UiBy(token, now)' # None => UiBy(token, now)' \in tookEffect'
    BY <1>8, <1>10
  <2> QED
    BY <1>2, <1>7, <1>10, <1>11, <2>1, <2>2 DEF TokenOK
<1> QED
  BY <1>1, <1>2, <1>3, <1>4, <1>6, <1>12, PastLogsStay DEF ChainGoesOn

LEMMA BlockGoesOn ==
  ASSUME TokenOK, Block
  PROVE  /\ TokenOK' /\ ChainGoesOn
         /\ UNCHANGED <<events, worker, results, failures, seals>>
<1>1. \E chain : ChainOK(chain) /\ NewBlock(chain)
  <2>1. CASE NewBlock(Chain)
    BY <2>1, ChainStarts
  <2>2. ASSUME NEW tx \in Update, NEW new \in Multiplier, NEW landing, NewBlock(Announce(landing, Chain, tx, new))
        PROVE  \E chain : ChainOK(chain) /\ NewBlock(chain)
    <3>1. now < MaxBlock
      BY <2>2 DEF NewBlock
    <3> QED
      BY <2>2, <3>1, ChainStarts, AnnounceGoesOn
  <2>3. ASSUME NEW tx \in Update, NEW ty \in Update, NEW new \in Multiplier, NEW newer \in Multiplier, NEW landing,
               NewBlock(Announce(landing, Announce(landing, Chain, tx, new), ty, newer))
        PROVE  \E chain : ChainOK(chain) /\ NewBlock(chain)
    <3>1. now < MaxBlock
      BY <2>3 DEF NewBlock
    <3>2. ChainOK(Announce(landing, Chain, tx, new))
      BY <3>1, ChainStarts, AnnounceGoesOn
    <3> QED
      BY <2>3, <3>1, <3>2, AnnounceGoesOn
  <2> QED
    BY <2>1, <2>2, <2>3 DEF Block
<1>2. PICK chain : ChainOK(chain) /\ NewBlock(chain)
  BY <1>1
<1> QED
  BY <1>2, NewBlockGoesOn DEF NewBlock


-----------------------------------------------------------------------------
(* A new block disturbs nothing *)

LEMMA RowIsTyped ==
  ASSUME NEW d, NEW rows, TableOK(d, rows), NEW i \in DOMAIN rows
  PROVE  rows[i] \in EventRow
BY DEF TableOK

LEMMA BlockKeepsTable ==
  ASSUME TokenOK, TokenOK', ChainGoesOn, NEW d, NEW rows, TableOK(d, rows)
  PROVE  TableOK(d, rows)'
<1>1. \A i \in DOMAIN rows : rows[i].block_number \in Nat
  BY RowIsTyped DEF EventRow
<1>2. now \in Nat /\ now' \in Nat /\ now <= now'
  BY DEF TokenOK, ChainGoesOn
<1>3. \A i \in DOMAIN rows : rows[i].block_number <= now'
  BY <1>1, <1>2 DEF TableOK
<1> QED
  BY <1>3 DEF TableOK, ChainGoesOn

LEMMA EarnedStaysEarned ==
  ASSUME ChainGoesOn
  PROVE  /\ \A multiplier : UiEarned(multiplier) => UiEarned(multiplier)'
         /\ \A log : Coincides(log) => Coincides(log)'
         /\ \A log, tx, at : Earned(log, tx, at) => Earned(log, tx, at)'
<1>1. \A multiplier : UiEarned(multiplier) => UiEarned(multiplier)'
  BY DEF UiEarned, ChainGoesOn
<1>2. \A log : Coincides(log) => Coincides(log)'
  BY DEF Coincides, ChainGoesOn
<1>3. \A log, tx, at : Earned(log, tx, at) => Earned(log, tx, at)'
  BY <1>2 DEF Earned, ChainGoesOn
<1> QED
  BY <1>1, <1>2, <1>3

LEMMA BlockKeepsReads ==
  ASSUME TokenOK, TokenOK', ChainGoesOn, NEW p, NEW written, NEW rows, TableOK(DatabaseOf[p], rows),
         NEW w, WorkerOK(p, rows, written, w), ReadOK(rows, w)
  PROVE  ReadOK(rows, w)'
<1>1. /\ changes \in Nat /\ changes' \in Nat /\ changes <= changes' /\ w.begun \in Nat
      /\ tookEffect \subseteq tookEffect'
  BY DEF TokenOK, ChainGoesOn, WorkerOK, WorkerState
<1>2. w.pc \in Verifying \ {"ask"} => w.status \in Status /\ w.log = EventLog(rows[w.id].block_number)'
  <2> SUFFICES ASSUME w.pc \in Verifying \ {"ask"}
               PROVE  w.status \in Status /\ w.log = EventLog(rows[w.id].block_number)'
    OBVIOUS
  <2>1. w.id \in DOMAIN rows
    BY DEF WorkerOK, AtRow
  <2>2. PICK block : block = rows[w.id].block_number
    OBVIOUS
  <2>3. block \in 1..now
    <3>1. rows[w.id] \in EventRow /\ rows[w.id].block_number <= now
      BY <2>1 DEF TableOK
    <3> QED
      BY <2>2, <3>1 DEF EventRow, TokenOK
  <2> QED
    BY <2>2, <2>3 DEF ReadOK, ChainGoesOn
<1>3. w.begun <= changes /\ w.begun = changes' => w.begun = changes /\ changes' = changes
  BY <1>1
<1>4. changes' = changes =>
        /\ Ui(token, now)' = Ui(token, now)
        /\ token'.new = token.new /\ token'.effective_at = token.effective_at
  BY DEF ChainGoesOn, Answers
<1>5. Verifying = {"ask", "asked_log", "asked_ui", "asked_new", "asked_all", "judged"}
  BY DEF Verifying
<1>6. w.pc \in Verifying \ {"ask", "asked_log"} =>
        /\ w.begun <= changes' /\ UiEarned(w.ui)'
        /\ w.begun = changes' => w.ui = Ui(token, now)'
  BY <1>1, <1>3, <1>4, EarnedStaysEarned DEF ReadOK
<1>7. w.pc \in {"asked_new", "asked_all", "judged"} => (w.begun = changes' => w.new = token'.new)
  BY <1>3, <1>4, <1>5 DEF ReadOK
<1>8. w.pc \in {"asked_all", "judged"} => (w.begun = changes' => w.effective_at = token'.effective_at)
  BY <1>3, <1>4, <1>5 DEF ReadOK
<1>9. w.pc = "judged" => (w.match = TRUE => Earned(w.log, rows[w.id].tx, w.at)')
  BY EarnedStaysEarned DEF ReadOK
<1> QED
  BY <1>2, <1>6, <1>7, <1>8, <1>9 DEF ReadOK

LEMMA BlockKeepsFacts ==
  ASSUME TokenOK, TokenOK', ChainGoesOn, NEW s \in SealState, FactsOK(s)
  PROVE  FactsOK(s)'
<1>1. /\ s.ended \in Nat /\ s.begun \in Nat /\ s.block \in 1..now
      /\ changes \in Nat /\ changes' \in Nat /\ changes <= changes' /\ now' \in Nat /\ now <= now'
  BY DEF SealState, FactsOK, TokenOK, ChainGoesOn
<1>2. EventLog(s.block)' = EventLog(s.block)
  <2>1. PICK block \in 1..now : block = s.block
    BY <1>1
  <2> QED
    BY <2>1 DEF ChainGoesOn
<1>3. s.begun <= s.ended /\ s.ended <= changes' /\ s.block <= now'
  BY <1>1 DEF FactsOK, TokenOK
<1>4. s.begun = changes' => s.begun = changes /\ changes' = changes
  <2>1. s.begun <= s.ended /\ s.ended <= changes
    BY DEF FactsOK
  <2> QED
    BY <1>1, <2>1
<1>5. s.begun = changes' => Answers(token, now)' =
        <<s.hash.record.onchain_ui_multiplier, s.hash.record.onchain_new_ui_multiplier,
          s.hash.record.onchain_effective_at>>
  BY <1>4 DEF FactsOK, ChainGoesOn
<1> QED
  BY <1>2, <1>3, <1>5 DEF FactsOK

LEMMA BlockInv ==
  ASSUME Inv, Block
  PROVE  Inv'
<1>1. /\ TokenOK' /\ ChainGoesOn /\ TokenOK /\ GlobalOK
      /\ events' = events /\ worker' = worker /\ results' = results /\ failures' = failures /\ seals' = seals
  BY BlockGoesOn DEF Inv, GlobalOK
<1>2. ASSUME NEW d \in Database
      PROVE  TableOK(d, events[d])'
  <2>1. PICK rows : rows = events[d]
    OBVIOUS
  <2>2. TableOK(d, rows)'
    BY <1>1, <2>1, BlockKeepsTable DEF GlobalOK
  <2>3. events'[d] = rows
    BY <1>1, <2>1
  <2> QED
    BY <2>2, <2>3 DEF TableOK
<1>3. ASSUME NEW p \in Process
      PROVE  ProcessOK(p, Table(p), seals, worker[p])'
  <2>1. PICK rows, written, w : rows = Table(p) /\ written = seals /\ w = worker[p]
    OBVIOUS
  <2>2. DatabaseOf[p] \in Database
    BY ReferenceAssumption
  <2>3. TableOK(DatabaseOf[p], rows) /\ WorkerOK(p, rows, written, w) /\ ReadOK(rows, w)
    BY <1>1, <2>1, <2>2 DEF Inv, GlobalOK, Table, ProcessOK
  <2>4. ReadOK(rows, w)'
    BY <1>1, <2>3, BlockKeepsReads
  <2>5. WorkerOK(p, rows, written, w)'
    BY <2>3 DEF WorkerOK, Unsealed
  <2>6. rows = Table(p)' /\ written = seals' /\ w = worker'[p]
    BY <1>1, <2>1 DEF Table
  <2> QED
    BY <2>4, <2>5, <2>6 DEF ProcessOK, ReadOK, WorkerOK, Unsealed
<1>4. ASSUME NEW p \in Scripted
      PROVE  ScriptOK(p, Table(p), seals, worker[p], results[p])'
  BY <1>1 DEF Inv, ScriptOK, ResultOK, Sealing, ChainGoesOn, Table
<1>5. SealsOK'
  <2>1. \A s \in seals : s \in SealState /\ FactsOK(s) /\ PlaceOK(s)
    BY <1>1 DEF GlobalOK, SealsOK
  <2>2. \A s \in seals : FactsOK(s)'
    BY <1>1, <2>1, BlockKeepsFacts
  <2>3. \A s \in seals : PlaceOK(s)'
    BY <1>1, <2>1 DEF PlaceOK
  <2> QED
    BY <1>1, <2>1, <2>2, <2>3 DEF SealsOK
<1>6. MatchIsEarned'
  BY <1>1, EarnedStaysEarned DEF GlobalOK, MatchIsEarned, ChainGoesOn
<1>7. QuietFactsSealAlike' /\ NobodySealsTwice' /\ HashesOK'
  BY <1>1 DEF GlobalOK, QuietFactsSealAlike, NobodySealsTwice, HashesOK
<1> QED
  BY <1>1, <1>2, <1>3, <1>4, <1>5, <1>6, <1>7 DEF Inv, GlobalOK

-----------------------------------------------------------------------------
(* What a step of one process has to show *)

\* The rows that were there are the same rows, and none loses its hash.
Keeps(rows, after) ==
  \A i \in DOMAIN rows :
    /\ i \in DOMAIN after
    /\ after[i].tx = rows[i].tx /\ after[i].block_number = rows[i].block_number
    /\ rows[i].reference_model_hash # None => after[i].reference_model_hash # None

HashesStay(rows, after) ==
  \A i \in DOMAIN after :
    after[i].reference_model_hash = IF i \in DOMAIN rows THEN rows[i].reference_model_hash ELSE None

AttemptsStay(rows, after) ==
  \A i \in DOMAIN rows : after[i].reference_model_verify_attempts = rows[i].reference_model_verify_attempts

\* Seals are added, by another process.
SealsOfOthers(q, written, more) == written \subseteq more /\ \A s \in more : s \in written \/ s.process # q

LEMMA ExternalStays ==
  ASSUME UNCHANGED external
  PROVE  /\ now' = now /\ token' = token /\ logs' = logs /\ tookEffect' = tookEffect /\ changes' = changes
         /\ Logged' = Logged /\ \A block : EventLog(block)' = EventLog(block)
         /\ \A log : Coincides(log)' = Coincides(log)
         /\ \A multiplier : UiEarned(multiplier)' = UiEarned(multiplier)
         /\ \A log, tx, at : Earned(log, tx, at)' = Earned(log, tx, at)
<1>1. now' = now /\ token' = token /\ logs' = logs /\ tookEffect' = tookEffect /\ changes' = changes
  BY DEF external
<1>2. \A block : EventLog(block)' = EventLog(block)
  BY <1>1 DEF EventLog, LogsOf
<1>3. \A log : Coincides(log)' = Coincides(log)
  BY <1>1 DEF Coincides
<1>4. \A log, tx, at : Earned(log, tx, at)' = Earned(log, tx, at)
  BY <1>1, <1>3 DEF Earned
<1> QED
  BY <1>1, <1>2, <1>3, <1>4 DEF Logged, UiEarned

LEMMA ProcessGoesOn ==
  ASSUME UNCHANGED external, NEW p, NEW rows, NEW written, NEW w, ProcessOK(p, rows, written, w)
  PROVE  ProcessOK(p, rows, written, w)'
<1>1. WorkerOK(p, rows, written, w)'
  BY DEF ProcessOK, WorkerOK, Unsealed
<1>2. /\ token' = token /\ changes' = changes /\ Ui(token, now)' = Ui(token, now)
      /\ \A block : EventLog(block)' = EventLog(block)
      /\ \A multiplier : UiEarned(multiplier)' = UiEarned(multiplier)
      /\ \A log, tx, at : Earned(log, tx, at)' = Earned(log, tx, at)
  BY ExternalStays DEF Ui
<1>3. ReadOK(rows, w)'
  BY <1>2 DEF ProcessOK, ReadOK
<1> QED
  BY <1>1, <1>3 DEF ProcessOK

LEMMA ScriptGoesOnWithIt ==
  ASSUME UNCHANGED external, NEW p, NEW rows, NEW written, NEW w, NEW res, ScriptOK(p, rows, written, w, res)
  PROVE  ScriptOK(p, rows, written, w, res)'
BY ExternalStays DEF ScriptOK, ResultOK, Sealing

LEMMA GlobalStays ==
  ASSUME GlobalOK, UNCHANGED external, UNCHANGED seals, failures' \in 0..MaxFailures,
         NEW d \in Database, NEW after, events' = [events EXCEPT ![d] = after],
         TableOK(d, after), Keeps(events[d], after), HashesStay(events[d], after)
  PROVE  GlobalOK'
<1>1. /\ now' = now /\ token' = token /\ logs' = logs /\ tookEffect' = tookEffect /\ changes' = changes
      /\ Logged' = Logged /\ \A block : EventLog(block)' = EventLog(block)
      /\ \A log : Coincides(log)' = Coincides(log)
  BY ExternalStays
<1>2. TokenOK'
  BY <1>1 DEF GlobalOK, TokenOK, UiBy
<1>3. /\ events \in [Database -> Seq(EventRow)] /\ after \in Seq(EventRow)
      /\ events'[d] = after /\ \A c \in Database : c # d => events'[c] = events[c]
      /\ events' \in [Database -> Seq(EventRow)]
  BY DEF GlobalOK, TableOK
<1>4. ASSUME NEW c \in Database
      PROVE  TableOK(c, events[c])'
  <2>1. PICK rows : rows = events'[c]
    OBVIOUS
  <2>2. TableOK(c, rows)
    BY <1>3, <2>1 DEF GlobalOK
  <2> QED
    BY <1>1, <2>1, <2>2 DEF TableOK
<1>5. ASSUME NEW s \in seals
      PROVE  s \in SealState /\ FactsOK(s)' /\ PlaceOK(s)'
  <2>1. s \in SealState /\ FactsOK(s) /\ PlaceOK(s) /\ s.db \in Database
    BY DEF GlobalOK, SealsOK, SealState
  <2>2. FactsOK(s)'
    BY <1>1, <2>1 DEF FactsOK, Answers, Ui
  <2>3. PlaceOK(s)'
    BY <1>3, <2>1 DEF PlaceOK, Keeps
  <2> QED
    BY <2>1, <2>2, <2>3
<1>6. SealsOK'
  BY <1>5 DEF SealsOK
<1>7. HashesOK'
  <2>1. ASSUME NEW c \in Database, NEW i \in DOMAIN events'[c], events'[c][i].reference_model_hash # None
        PROVE  \E s \in seals : s.db = c /\ s.id = i /\ s.hash = events'[c][i].reference_model_hash
    <3>1. i \in DOMAIN events[c] /\ events'[c][i].reference_model_hash = events[c][i].reference_model_hash
      BY <1>3, <2>1 DEF HashesStay
    <3> QED
      BY <2>1, <3>1 DEF GlobalOK, HashesOK
  <2> QED
    BY <2>1 DEF HashesOK
<1>8. MatchIsEarned'
  BY <1>1 DEF GlobalOK, MatchIsEarned
<1>9. QuietFactsSealAlike' /\ NobodySealsTwice'
  BY DEF GlobalOK, QuietFactsSealAlike, NobodySealsTwice
<1> QED
  BY <1>2, <1>3, <1>4, <1>6, <1>7, <1>8, <1>9 DEF GlobalOK

\* A process keeps what it has while others change the table.
LEMMA ProcessKept ==
  ASSUME NEW q \in Process, NEW rows, NEW after, Keeps(rows, after),
         q \in Live => AttemptsStay(rows, after), NEW written, NEW more, SealsOfOthers(q, written, more),
         NEW w, ProcessOK(q, rows, written, w)
  PROVE  ProcessOK(q, after, more, w)
<1>1. \A i : Unsealed(q, written, i) => Unsealed(q, more, i)
  BY DEF Unsealed, SealsOfOthers
<1>2. \A i \in DOMAIN rows : i \in DOMAIN after
  BY DEF Keeps
<1>3. w.rows \subseteq DOMAIN rows /\ (w.pc \in AtRow => w.id \in DOMAIN rows)
  BY DEF ProcessOK, WorkerOK
<1>4. WorkerOK(q, after, more, w)
  <2>1. w.rows \subseteq DOMAIN after /\ (w.pc \in AtRow => w.id \in DOMAIN after)
    BY <1>2, <1>3
  <2>2. ASSUME q \in Live, w.pc \in Verifying, NEW i \in w.rows \cup {w.id}
        PROVE  /\ after[i].reference_model_verify_attempts < MAX_REFERENCE_MODEL_ATTEMPTS
               /\ Unsealed(q, more, i)
    <3>1. i \in DOMAIN rows
      BY <1>3, <2>2 DEF AtRow
    <3> QED
      BY <1>1, <2>2, <3>1 DEF ProcessOK, WorkerOK, AttemptsStay
  <2> QED
    BY <1>1, <2>1, <2>2 DEF ProcessOK, WorkerOK
<1>5. w.pc \in Verifying => after[w.id].block_number = rows[w.id].block_number /\ after[w.id].tx = rows[w.id].tx
  BY <1>3 DEF AtRow, Keeps
<1>6. ReadOK(after, w)
  BY <1>5 DEF ProcessOK, ReadOK, Verifying
<1> QED
  BY <1>4, <1>6 DEF ProcessOK

LEMMA ScriptKept ==
  ASSUME NEW q \in Process, NEW rows, NEW after, Keeps(rows, after),
         NEW written, NEW more, SealsOfOthers(q, written, more),
         NEW w, ProcessOK(q, rows, written, w), NEW res, ScriptOK(q, rows, written, w, res)
  PROVE  ScriptOK(q, after, more, w, res)
<1>1. \A i : Sealing(q, more, i) = Sealing(q, written, i)
  BY DEF Sealing, SealsOfOthers
<1>2. ASSUME NEW i \in DOMAIN res
      PROVE  ResultOK(q, after, more, w, i, res[i])
  <2>1. ResultOK(q, rows, written, w, i, res[i])
    BY DEF ScriptOK
  <2> QED
    BY <1>1, <2>1 DEF ResultOK, Keeps, SealsOfOthers
<1>3. w.pc \in AtRow => after[w.id].tx = rows[w.id].tx
  BY DEF ProcessOK, WorkerOK, Keeps
<1> QED
  BY <1>1, <1>2, <1>3 DEF ScriptOK

LEMMA StepOf ==
  ASSUME Inv, NEW p \in Process, UNCHANGED external, GlobalOK', NEW after, NEW w, NEW more,
         events' = [events EXCEPT ![DatabaseOf[p]] = after], worker' = [worker EXCEPT ![p] = w], seals' = more,
         Keeps(Table(p), after), p \in Live \/ AttemptsStay(Table(p), after), \A q \in Process : q # p => SealsOfOthers(q, seals, more),
         ProcessOK(p, after, more, w),
         results' \in [Scripted -> Seq(ResultState)],
         \A q \in Scripted : q # p => results'[q] = results[q],
         p \in Scripted => ScriptOK(p, after, more, w, results'[p])
  PROVE  Inv'
<1>1. /\ events \in [Database -> Seq(EventRow)] /\ worker \in [Process -> WorkerState]
      /\ DatabaseOf \in [Process -> Database] /\ w \in WorkerState
  BY ReferenceAssumption DEF Inv, GlobalOK, ProcessOK, WorkerOK
<1>2. /\ worker' \in [Process -> WorkerState] /\ worker'[p] = w
      /\ \A q \in Process : q # p => worker'[q] = worker[q]
      /\ Table(p)' = after
      /\ \A q \in Process : Table(q)' = IF DatabaseOf[q] = DatabaseOf[p] THEN after ELSE Table(q)
  BY <1>1 DEF Table
<1>3. ASSUME NEW q \in Process, q # p
      PROVE  /\ Keeps(Table(q), Table(q)')
             /\ q \in Live => AttemptsStay(Table(q), Table(q)')
  <2>1. CASE DatabaseOf[q] = DatabaseOf[p]
    <3>1. Table(q)' = after /\ Table(q) = Table(p)
      BY <1>2, <2>1 DEF Table
    <3>2. q \in Live => p \notin Live
      BY <1>3, <2>1, ReferenceAssumption
    <3> QED
      BY <3>1, <3>2
  <2>2. CASE DatabaseOf[q] # DatabaseOf[p]
    <3>1. Table(q)' = Table(q)
      BY <1>2, <2>2
    <3> QED
      BY <3>1 DEF Keeps, AttemptsStay
  <2> QED
    BY <2>1, <2>2
<1>4. ASSUME NEW q \in Process
      PROVE  /\ ProcessOK(q, Table(q), seals, worker[q])'
             /\ q \in Scripted => ScriptOK(q, Table(q), seals, worker[q], results[q])'
  <2>1. PICK rows, written, qw, qres :
          rows = Table(q)' /\ written = seals' /\ qw = worker'[q] /\ qres = results'[q]
    OBVIOUS
  <2>2. ProcessOK(q, rows, written, qw) /\ (q \in Scripted => ScriptOK(q, rows, written, qw, qres))
    <3>1. CASE q = p
      BY <1>2, <2>1, <3>1
    <3>2. CASE q # p
      <4>1. PICK before, old : before = Table(q) /\ old = seals
        OBVIOUS
      <4>2. /\ ProcessOK(q, before, old, qw)
            /\ q \in Scripted => ScriptOK(q, before, old, qw, qres)
        BY <1>2, <2>1, <3>2, <4>1 DEF Inv
      <4>3. /\ Keeps(before, rows) /\ (q \in Live => AttemptsStay(before, rows))
            /\ SealsOfOthers(q, old, written)
        BY <1>3, <2>1, <3>2, <4>1
      <4> QED
        BY <3>2, <4>2, <4>3, ProcessKept, ScriptKept
    <3> QED
      BY <3>1, <3>2
  <2>3. ProcessOK(q, rows, written, qw)' /\ (q \in Scripted => ScriptOK(q, rows, written, qw, qres)')
    BY <2>2, ProcessGoesOn, ScriptGoesOnWithIt
  <2>4. ProcessOK(q, Table(q), seals, worker[q])'
    BY <2>1, <2>3 DEF ProcessOK, WorkerOK, ReadOK, Unsealed
  <2>5. q \in Scripted => ScriptOK(q, Table(q), seals, worker[q], results[q])'
    BY <2>1, <2>3 DEF ScriptOK, ResultOK, Sealing
  <2> QED
    BY <2>4, <2>5
<1>5. Scripted \subseteq Process
  BY DEF Process
<1> QED
  BY <1>2, <1>4, <1>5 DEF Inv

LEMMA UnsealedSeals ==
  ASSUME NEW written
  PROVE  \A q \in Process : SealsOfOthers(q, written, written)
BY DEF SealsOfOthers

\* A step of a loop that writes no hash.
LEMMA LoopStep ==
  ASSUME Inv, NEW p \in Live, UNCHANGED external, UNCHANGED seals, results' = results, failures' \in 0..MaxFailures,
         NEW after, NEW w, NEW written, written = seals,
         events' = [events EXCEPT ![DatabaseOf[p]] = after], worker' = [worker EXCEPT ![p] = w],
         TableOK(DatabaseOf[p], after), Keeps(Table(p), after), HashesStay(Table(p), after),
         ProcessOK(p, after, written, w)
  PROVE  Inv'
<1>1. p \in Process /\ p \notin Scripted /\ DatabaseOf[p] \in Database /\ Table(p) = events[DatabaseOf[p]]
  BY ReferenceAssumption DEF Table, Process
<1>2. GlobalOK'
  BY <1>1, GlobalStays DEF Inv
<1>3. \A q \in Process : SealsOfOthers(q, seals, written)
  BY UnsealedSeals
<1>4. results' \in [Scripted -> Seq(ResultState)] /\ seals' = written
  BY DEF Inv
<1> QED
  BY <1>1, <1>2, <1>3, <1>4, StepOf

\* A step of a script that writes no hash.
LEMMA ScriptStep ==
  ASSUME Inv, NEW p \in Scripted, UNCHANGED external, UNCHANGED seals, failures' \in 0..MaxFailures,
         NEW after, NEW w, NEW res, NEW written, written = seals,
         events' = [events EXCEPT ![DatabaseOf[p]] = after], worker' = [worker EXCEPT ![p] = w],
         results' = [results EXCEPT ![p] = res],
         TableOK(DatabaseOf[p], after), Keeps(Table(p), after), HashesStay(Table(p), after),
         AttemptsStay(Table(p), after), ProcessOK(p, after, written, w), ScriptOK(p, after, written, w, res)
  PROVE  Inv'
<1>1. p \in Process /\ DatabaseOf[p] \in Database /\ Table(p) = events[DatabaseOf[p]]
  BY ReferenceAssumption DEF Table, Process
<1>2. GlobalOK'
  BY <1>1, GlobalStays DEF Inv
<1>3. \A q \in Process : SealsOfOthers(q, seals, written)
  BY UnsealedSeals
<1>4. /\ results' \in [Scripted -> Seq(ResultState)] /\ results'[p] = res /\ seals' = written
      /\ \A q \in Scripted : q # p => results'[q] = results[q]
  BY DEF Inv, ScriptOK
<1> QED
  BY <1>1, <1>2, <1>3, <1>4, StepOf

\* What is known of a process.
LEMMA InvOf ==
  ASSUME Inv, NEW p \in Process
  PROVE  /\ GlobalOK /\ TokenOK /\ DatabaseOf[p] \in Database
         /\ Table(p) = events[DatabaseOf[p]] /\ TableOK(DatabaseOf[p], Table(p))
         /\ worker \in [Process -> WorkerState] /\ ProcessOK(p, Table(p), seals, worker[p])
         /\ p \in Live => p \notin Scripted
         /\ p \in Scripted => p \notin Live /\ ScriptOK(p, Table(p), seals, worker[p], results[p])
BY ReferenceAssumption DEF Inv, GlobalOK, Table

LEMMA MoreFailures ==
  ASSUME Inv, failures < MaxFailures, failures' = failures + 1
  PROVE  failures' \in 0..MaxFailures
BY ReferenceAssumption DEF Inv, GlobalOK

\* A table that nobody touches.
LEMMA RowsAsTheyWere ==
  ASSUME Inv, NEW p \in Process, UNCHANGED events, NEW rows, rows = Table(p)
  PROVE  /\ events' = [events EXCEPT ![DatabaseOf[p]] = rows] /\ TableOK(DatabaseOf[p], rows)
         /\ Keeps(Table(p), rows) /\ HashesStay(Table(p), rows) /\ AttemptsStay(Table(p), rows)
<1>1. rows = events[DatabaseOf[p]] /\ events \in [Database -> Seq(EventRow)]
  BY InvOf DEF GlobalOK
<1> QED
  BY <1>1, InvOf DEF Keeps, HashesStay, AttemptsStay

-----------------------------------------------------------------------------
(* Rows that are added and rows that are changed *)

LEMMA LoggedAreUpdates ==
  ASSUME TokenOK, NEW tx \in Logged
  PROVE  tx \in Update
<1>1. PICK i \in DOMAIN logs : tx = logs[i].tx
  BY DEF Logged
<1> QED
  BY <1>1, LogIsTyped DEF LogRecord

Inserted(rows, tx, block) == Append(rows, Row(Len(rows) + 1, tx, block))

LEMMA InsertedRow ==
  ASSUME TokenOK, NEW d \in Database, NEW rows, TableOK(d, rows), Len(rows) < MaxRows[d],
         NEW tx \in Logged, NEW block \in 1..now, NEW n, n = Len(rows) + 1,
         NEW after, after = Inserted(rows, tx, block)
  PROVE  /\ TableOK(d, after) /\ Keeps(rows, after) /\ HashesStay(rows, after) /\ AttemptsStay(rows, after)
         /\ n \in Nat /\ n # 0 /\ n \notin DOMAIN rows /\ n \in DOMAIN after /\ after[n].tx = tx
<1> DEFINE row == Row(n, tx, block)
<1>1. Len(rows) \in Nat /\ DOMAIN rows = 1..Len(rows) /\ n \in Nat /\ rows \in Seq(EventRow)
  BY DEF TableOK
<1>2. row.id = n /\ row.tx = tx /\ row.block_number = block /\ row.reference_model_hash = None
  BY DEF Row
<1>3. row \in EventRow
  <2>1. tx \in Update
    BY LoggedAreUpdates
  <2>2. block \in 1..MaxBlock
    BY ReferenceAssumption DEF TokenOK
  <2> QED
    BY <1>1, <2>1, <2>2 DEF Row, EventRow, MAX_REFERENCE_MODEL_ATTEMPTS, Status
<1>4. after = Append(rows, row)
  BY DEF Inserted
<1> HIDE DEF row
<1>5. /\ after \in Seq(EventRow) /\ DOMAIN after = 1..n /\ Len(after) = n
      /\ \A i \in 1..Len(rows) : after[i] = rows[i]
      /\ after[n] = row
  BY <1>1, <1>3, <1>4
<1>6. \A i \in DOMAIN after : i = n \/ i \in DOMAIN rows
  BY <1>1, <1>5
<1>7. n \notin DOMAIN rows /\ n \in DOMAIN after /\ n # 0 /\ \A i \in DOMAIN rows : i \in DOMAIN after /\ after[i] = rows[i]
  BY <1>1, <1>5
<1>8. Len(after) <= MaxRows[d]
  BY <1>1, <1>5, ReferenceAssumption
<1>9. ASSUME NEW i \in DOMAIN after
      PROVE  after[i].id = i /\ after[i].tx \in Logged /\ after[i].block_number <= now
  <2>1. CASE i = n
    BY <1>2, <1>5, <2>1 DEF TokenOK
  <2>2. CASE i # n
    BY <1>6, <1>7, <2>2 DEF TableOK
  <2> QED
    BY <2>1, <2>2
<1>10. TableOK(d, after)
  BY <1>5, <1>8, <1>9 DEF TableOK
<1>11. Keeps(rows, after) /\ AttemptsStay(rows, after)
  BY <1>7 DEF Keeps, AttemptsStay
<1>12. HashesStay(rows, after)
  BY <1>2, <1>5, <1>6, <1>7 DEF HashesStay
<1> QED
  BY <1>1, <1>2, <1>5, <1>7, <1>10, <1>11, <1>12

LEMMA ChangedRow ==
  ASSUME NEW d, NEW rows, TableOK(d, rows), NEW id \in DOMAIN rows, NEW row \in EventRow,
         row.id = rows[id].id, row.tx = rows[id].tx, row.block_number = rows[id].block_number,
         NEW after, after = [rows EXCEPT ![id] = row]
  PROVE  /\ TableOK(d, after) /\ DOMAIN after = DOMAIN rows /\ after[id] = row
         /\ \A i \in DOMAIN rows : i # id => after[i] = rows[i]
<1>1. rows \in Seq(EventRow)
  BY DEF TableOK
<1>2. /\ after \in Seq(EventRow) /\ DOMAIN after = DOMAIN rows /\ Len(after) = Len(rows) /\ after[id] = row
      /\ \A i \in DOMAIN rows : i # id => after[i] = rows[i]
  BY <1>1
<1>3. \A i \in DOMAIN after : after[i].id = i /\ after[i].tx \in Logged /\ after[i].block_number <= now
  BY <1>2 DEF TableOK
<1> QED
  BY <1>2, <1>3 DEF TableOK

LEMMA RestatusedRow ==
  ASSUME NEW d, NEW rows, TableOK(d, rows), NEW id \in DOMAIN rows, NEW status \in Status,
         NEW after, after = [rows EXCEPT ![id].status = status]
  PROVE  TableOK(d, after) /\ Keeps(rows, after) /\ HashesStay(rows, after) /\ AttemptsStay(rows, after)
<1>1. PICK row : row = [rows[id] EXCEPT !.status = status]
  OBVIOUS
<1>2. rows[id] \in EventRow
  BY RowIsTyped
<1>3. /\ row \in EventRow /\ row.id = rows[id].id /\ row.tx = rows[id].tx /\ row.block_number = rows[id].block_number
      /\ row.reference_model_hash = rows[id].reference_model_hash
      /\ row.reference_model_verify_attempts = rows[id].reference_model_verify_attempts
  BY <1>1, <1>2 DEF EventRow
<1>4. after = [rows EXCEPT ![id] = row]
  BY <1>1
<1>5. /\ TableOK(d, after) /\ DOMAIN after = DOMAIN rows /\ after[id] = row
      /\ \A i \in DOMAIN rows : i # id => after[i] = rows[i]
  <2>1. PICK more : more = [rows EXCEPT ![id] = row]
    OBVIOUS
  <2>2. /\ TableOK(d, more) /\ DOMAIN more = DOMAIN rows /\ more[id] = row
        /\ \A i \in DOMAIN rows : i # id => more[i] = rows[i]
    BY <1>3, <2>1, ChangedRow
  <2> QED
    BY <1>4, <2>1, <2>2
<1> QED
  BY <1>3, <1>5 DEF Keeps, HashesStay, AttemptsStay

\* A check changes no more than the status of its row.
LEMMA CheckedRow ==
  ASSUME Inv, NEW p \in Process, NEW id, id \in DOMAIN Table(p), NEW outcomes \in SUBSET Status,
         CheckRow(p, id, outcomes)
  PROVE  \E after :
           /\ events' = [events EXCEPT ![DatabaseOf[p]] = after] /\ TableOK(DatabaseOf[p], after)
           /\ Keeps(Table(p), after) /\ HashesStay(Table(p), after) /\ AttemptsStay(Table(p), after)
<1>1. PICK rows : rows = Table(p)
  OBVIOUS
<1>2. TableOK(DatabaseOf[p], rows) /\ rows = events[DatabaseOf[p]] /\ id \in DOMAIN rows
  BY <1>1, InvOf
<1>3. CASE UNCHANGED events
  BY <1>1, <1>3, RowsAsTheyWere
<1>4. ASSUME NEW status \in outcomes, SetStatus(p, id, status)
      PROVE  \E after :
               /\ events' = [events EXCEPT ![DatabaseOf[p]] = after] /\ TableOK(DatabaseOf[p], after)
               /\ Keeps(rows, after) /\ HashesStay(rows, after) /\ AttemptsStay(rows, after)
  <2>1. PICK after : after = [rows EXCEPT ![id].status = status]
    OBVIOUS
  <2>2. events' = [events EXCEPT ![DatabaseOf[p]] = after]
    BY <1>2, <1>4, <2>1 DEF SetStatus
  <2>3. TableOK(DatabaseOf[p], after) /\ Keeps(rows, after) /\ HashesStay(rows, after) /\ AttemptsStay(rows, after)
    BY <1>2, <2>1, RestatusedRow
  <2> QED
    BY <2>2, <2>3
<1> QED
  BY <1>1, <1>3, <1>4 DEF CheckRow

-----------------------------------------------------------------------------
(* Where a process goes next *)

IdleFields ==
  /\ Idle.pc = "idle" /\ Idle.rows = {} /\ Idle.item = 0 /\ Idle.id = 0 /\ Idle.status = None /\ Idle.log = None
  /\ Idle.ui = 0 /\ Idle.new = 0 /\ Idle.effective_at = 0 /\ Idle.begun = 0 /\ Idle.match = FALSE /\ Idle.at = 0

LEMMA IdleIsTyped == Idle \in WorkerState /\ IdleFields
BY DEF Idle, WorkerState, IdleFields

\* A process that verifies nothing.
LEMMA Resting ==
  ASSUME NEW p \in Process, NEW rows, NEW written, NEW w \in WorkerState,
         w.pc \in IF p \in Live THEN {"idle", "filtering", "confirming"} ELSE {"idle", "insert"},
         w.id = 0, w.rows \subseteq DOMAIN rows
  PROVE  ProcessOK(p, rows, written, w)
<1>1. w.pc \notin AtRow
  BY DEF AtRow, Screening, Verifying
<1>2. WorkerOK(p, rows, written, w)
  BY <1>1, ReferenceAssumption DEF WorkerOK, AtRow
<1>3. ReadOK(rows, w)
  BY <1>1 DEF ReadOK, AtRow, Verifying
<1> QED
  BY <1>2, <1>3 DEF ProcessOK

\* A loop goes on with rows that it has not sealed.
LEMMA VisitOK ==
  ASSUME NEW p \in Live, NEW rows, rows \in Seq(EventRow), NEW written, NEW ids \in SUBSET (DOMAIN rows),
         \A i \in ids : /\ rows[i].reference_model_verify_attempts < MAX_REFERENCE_MODEL_ATTEMPTS
                        /\ Unsealed(p, written, i)
  PROVE  ProcessOK(p, rows, written, Visit(ids))
<1>1. DOMAIN rows \subseteq Nat /\ p \in Process /\ p \notin Scripted
  BY ReferenceAssumption DEF Process
<1>2. CASE ids = {}
  <2>1. Visit(ids) = Idle
    BY <1>2 DEF Visit
  <2>2. ProcessOK(p, rows, written, Idle)
    BY <1>1, IdleIsTyped, Resting DEF IdleFields
  <2> QED
    BY <2>1, <2>2
<1>3. CASE ids # {}
  <2>1. PICK first : first = First(ids)
    OBVIOUS
  <2>2. first \in ids
    BY <1>1, <1>3, <2>1, FirstIsLeast
  <2>3. PICK w : w = Visit(ids)
    OBVIOUS
  <2>4. w = [Idle EXCEPT !.pc = "ask", !.rows = ids \ {first}, !.id = first]
    BY <1>3, <2>1, <2>3 DEF Visit
  <2>5. w \in WorkerState /\ w.pc = "ask" /\ w.rows = ids \ {first} /\ w.id = first
    BY <1>1, <2>2, <2>4 DEF Idle, WorkerState, AtRow, Verifying
  <2>6. WorkerOK(p, rows, written, w)
    BY <1>1, <2>2, <2>5 DEF WorkerOK, AtRow, Verifying
  <2>7. ReadOK(rows, w)
    BY <2>5 DEF ReadOK
  <2> QED
    BY <2>3, <2>6, <2>7 DEF ProcessOK
<1> QED
  BY <1>2, <1>3

\* A script goes on with its list.
InsertsAt(item) == [Idle EXCEPT !.pc = "insert", !.item = item]

LEMMA InsertsAtIsTyped ==
  ASSUME NEW item \in Nat
  PROVE  /\ InsertsAt(item) \in WorkerState /\ InsertsAt(item).pc = "insert"
         /\ InsertsAt(item).item = item /\ InsertsAt(item).id = 0 /\ InsertsAt(item).rows = {}
         /\ InsertsAt(item).match = FALSE
BY DEF InsertsAt, Idle, WorkerState

-----------------------------------------------------------------------------
(* The live loop *)

\* A loop that is at no row, in a table that has the rows it had.
LEMMA LoopRests ==
  ASSUME NEW p \in Live, NEW rows, NEW after, Keeps(rows, after), NEW written, NEW w \in WorkerState,
         w.pc \in {"idle", "filtering", "confirming"}, w.id = 0, w.rows \subseteq DOMAIN rows
  PROVE  ProcessOK(p, after, written, w)
<1>1. p \in Process /\ w.rows \subseteq DOMAIN after
  BY DEF Process, Keeps
<1> QED
  BY <1>1, Resting

LEMMA DetectInv ==
  ASSUME Inv, NEW p \in Live, NEW tx \in Update, NEW block \in 1..MaxBlock, Detect(p, tx, block)
  PROVE  Inv'
<1>1. PICK d, rows, w, written, n, after :
        /\ d = DatabaseOf[p] /\ rows = Table(p) /\ w = worker[p] /\ written = seals /\ n = Len(rows) + 1
        /\ after = Inserted(rows, tx, block)
  OBVIOUS
<1>2. p \in Process
  BY DEF Process
<1>3. /\ TokenOK /\ d \in Database /\ rows = events[d] /\ TableOK(d, rows) /\ ProcessOK(p, rows, written, w)
      /\ worker \in [Process -> WorkerState]
  BY <1>1, <1>2, InvOf
<1>4. /\ Len(rows) < MaxRows[d] /\ tx \in Logged /\ block \in 1..now
      /\ events' = [events EXCEPT ![d] = after] /\ worker' = worker /\ results' = results
      /\ failures' = failures /\ UNCHANGED external /\ UNCHANGED seals /\ w.pc = "idle"
  BY <1>1, <1>3 DEF Detect, Insert, Inserted, Logged
<1>5. TableOK(d, after) /\ Keeps(rows, after) /\ HashesStay(rows, after)
  <2>1. after = Inserted(rows, tx, block) /\ n = Len(rows) + 1
    BY <1>1
  <2>2. TokenOK /\ d \in Database /\ TableOK(d, rows) /\ Len(rows) < MaxRows[d] /\ tx \in Logged /\ block \in 1..now
    BY <1>3, <1>4
  <2> QED
    BY <2>1, <2>2, InsertedRow
<1>6. ProcessOK(p, after, written, w)
  <2>1. w \in WorkerState /\ w.rows \subseteq DOMAIN rows /\ w.id = 0
    BY <1>3, <1>4 DEF ProcessOK, WorkerOK, AtRow, Screening, Verifying
  <2> QED
    BY <1>4, <1>5, <2>1, LoopRests
<1>7. worker' = [worker EXCEPT ![p] = w] /\ failures' \in 0..MaxFailures
  BY <1>1, <1>2, <1>3, <1>4 DEF Inv, GlobalOK
<1> QED
  BY <1>1, <1>4, <1>5, <1>6, <1>7, LoopStep

\* A phase begins: its query, and nothing else.
LEMMA PhaseBegins ==
  ASSUME Inv, NEW p \in Live, NEW w, ProcessOK(p, Table(p), seals, w), worker' = [worker EXCEPT ![p] = w],
         UNCHANGED <<external, events, results, failures, seals>>
  PROVE  Inv'
<1>1. PICK rows, written : rows = Table(p) /\ written = seals
  OBVIOUS
<1>2. p \in Process
  BY DEF Process
<1>3. /\ events' = [events EXCEPT ![DatabaseOf[p]] = rows] /\ TableOK(DatabaseOf[p], rows)
      /\ Keeps(Table(p), rows) /\ HashesStay(Table(p), rows)
  BY <1>1, <1>2, RowsAsTheyWere
<1>4. /\ failures' \in 0..MaxFailures /\ UNCHANGED external /\ UNCHANGED seals /\ results' = results
  BY DEF Inv, GlobalOK
<1> QED
  BY <1>1, <1>3, <1>4, LoopStep

LEMMA QueryInv ==
  ASSUME Inv, NEW p \in Live, Tick(p) \/ ConfirmPhase(p)
  PROVE  Inv'
<1>1. PICK rows, written, old : rows = Table(p) /\ written = seals /\ old = worker[p]
  OBVIOUS
<1>2. p \in Process
  BY DEF Process
<1>3. TableOK(DatabaseOf[p], rows) /\ ProcessOK(p, rows, written, old) /\ old \in WorkerState
  BY <1>1, <1>2, InvOf
<1>4. PICK pc \in {"filtering", "confirming"}, ids \in SUBSET (DOMAIN rows) :
        /\ old.pc \in {"idle", "filtering"} /\ worker' = [worker EXCEPT ![p] = [old EXCEPT !.pc = pc, !.rows = ids]]
        /\ UNCHANGED <<external, events, results, failures, seals>>
  <2>1. \A statuses : RowsIn(p, statuses) \in SUBSET (DOMAIN rows)
    BY <1>1 DEF RowsIn
  <2>2. CASE Tick(p)
    <3>1. PICK pc, ids : pc = "filtering" /\ ids = RowsIn(p, PendingStatus)
      OBVIOUS
    <3>2. /\ old.pc = "idle" /\ worker' = [worker EXCEPT ![p] = [old EXCEPT !.pc = pc, !.rows = ids]]
          /\ UNCHANGED <<external, events, results, failures, seals>>
      BY <1>1, <2>2, <3>1 DEF Tick
    <3> QED
      BY <2>1, <3>1, <3>2
  <2>3. CASE ConfirmPhase(p)
    <3>1. PICK pc, ids : pc = "confirming" /\ ids = RowsIn(p, {"confirmed_not_filtered"})
      OBVIOUS
    <3>2. /\ old.pc = "filtering" /\ worker' = [worker EXCEPT ![p] = [old EXCEPT !.pc = pc, !.rows = ids]]
          /\ UNCHANGED <<external, events, results, failures, seals>>
      BY <1>1, <2>3, <3>1 DEF ConfirmPhase
    <3> QED
      BY <2>1, <3>1, <3>2
  <2> QED
    BY <2>2, <2>3
<1>5. PICK w : w = [old EXCEPT !.pc = pc, !.rows = ids]
  OBVIOUS
<1>6. old.id = 0
  BY <1>3, <1>4 DEF ProcessOK, WorkerOK, AtRow, Screening, Verifying
<1>7. DOMAIN rows \subseteq Nat
  BY <1>3 DEF TableOK
<1>8. w \in WorkerState /\ w.pc = pc /\ w.rows = ids /\ w.id = 0
  BY <1>3, <1>4, <1>5, <1>6, <1>7 DEF WorkerState
<1>9. Keeps(rows, rows)
  BY DEF Keeps
<1>10. ProcessOK(p, rows, written, w)
  BY <1>4, <1>8, <1>9, LoopRests
<1> QED
  BY <1>1, <1>4, <1>5, <1>10, PhaseBegins

LEMMA CheckNextInv ==
  ASSUME Inv, NEW p \in Live, FilterRow(p) \/ ConfirmRow(p)
  PROVE  Inv'
<1>1. PICK rows, written, old, id : rows = Table(p) /\ written = seals /\ old = worker[p] /\ id = First(old.rows)
  OBVIOUS
<1>2. p \in Process
  BY DEF Process
<1>3. TableOK(DatabaseOf[p], rows) /\ ProcessOK(p, rows, written, old) /\ old \in WorkerState
  BY <1>1, <1>2, InvOf
<1>4. PICK outcomes \in SUBSET Status :
        /\ old.pc \in {"filtering", "confirming"} /\ old.rows # {} /\ CheckRow(p, id, outcomes)
        /\ worker' = [worker EXCEPT ![p].rows = @ \ {First(@)}]
        /\ UNCHANGED external /\ UNCHANGED seals /\ results' = results /\ failures' = failures
  <2>1. FilterOutcome \in SUBSET Status /\ {"l1_confirmed"} \in SUBSET Status
    BY DEF FilterOutcome, Status
  <2>2. CASE FilterRow(p)
    BY <1>1, <2>1, <2>2 DEF FilterRow, CheckNext
  <2>3. CASE ConfirmRow(p)
    BY <1>1, <2>1, <2>3 DEF ConfirmRow, CheckNext
  <2> QED
    BY <2>2, <2>3
<1>5. old.rows \subseteq DOMAIN rows /\ old.id = 0 /\ old.rows \in SUBSET Nat
  BY <1>3, <1>4 DEF ProcessOK, WorkerOK, AtRow, Screening, Verifying, WorkerState
<1>6. PICK after :
        /\ events' = [events EXCEPT ![DatabaseOf[p]] = after] /\ TableOK(DatabaseOf[p], after)
        /\ Keeps(rows, after) /\ HashesStay(rows, after)
  <2>1. id \in DOMAIN Table(p)
    <3>1. id \in old.rows
      BY <1>1, <1>4, <1>5, FirstIsLeast
    <3> QED
      BY <1>1, <1>5, <3>1
  <2> QED
    BY <1>1, <1>2, <1>4, <2>1, CheckedRow
<1>7. PICK w : w = [old EXCEPT !.rows = @ \ {id}]
  OBVIOUS
<1>8. w \in WorkerState /\ w.pc = old.pc /\ w.rows \subseteq DOMAIN rows /\ w.id = 0
  BY <1>3, <1>5, <1>7 DEF WorkerState
<1>9. ProcessOK(p, after, written, w)
  BY <1>4, <1>6, <1>8, LoopRests
<1>10. worker' = [worker EXCEPT ![p] = w] /\ failures' \in 0..MaxFailures
  BY <1>1, <1>4, <1>7 DEF Inv, GlobalOK
<1> QED
  BY <1>1, <1>4, <1>6, <1>9, <1>10, LoopStep

\* What the phase verifies has no hash, so nobody has sealed it.
LEMMA ReferencePhaseInv ==
  ASSUME Inv, NEW p \in Live, ReferencePhase(p)
  PROVE  Inv'
<1>1. PICK rows, written, ids : rows = Table(p) /\ written = seals /\ ids = {i \in DOMAIN rows : Awaiting(rows[i])}
  OBVIOUS
<1>2. p \in Process
  BY DEF Process
<1>3. GlobalOK /\ DatabaseOf[p] \in Database /\ TableOK(DatabaseOf[p], rows) /\ rows = events[DatabaseOf[p]]
  BY <1>1, <1>2, InvOf
<1>4. ASSUME NEW i \in ids
      PROVE  /\ rows[i].reference_model_verify_attempts < MAX_REFERENCE_MODEL_ATTEMPTS
             /\ Unsealed(p, written, i)
  <2>1. /\ rows[i].reference_model_hash = None
        /\ rows[i].reference_model_verify_attempts < MAX_REFERENCE_MODEL_ATTEMPTS
    BY <1>1, <1>4 DEF Awaiting
  <2>2. ASSUME NEW s \in written, s.process = p
        PROVE  s.id # i
    BY <1>1, <1>3, <2>1, <2>2 DEF GlobalOK, SealsOK, PlaceOK
  <2> QED
    BY <2>1, <2>2 DEF Unsealed
<1>5. ids \in SUBSET (DOMAIN rows) /\ rows \in Seq(EventRow)
  BY <1>1, <1>3 DEF TableOK
<1>6. ProcessOK(p, rows, written, Visit(ids))
  BY <1>4, <1>5, VisitOK
<1>7. worker' = [worker EXCEPT ![p] = Visit(ids)] /\ UNCHANGED <<external, events, results, failures, seals>>
  BY <1>1 DEF ReferencePhase
<1> QED
  BY <1>1, <1>6, <1>7, PhaseBegins

\* A failure counts against the row that was being verified, and no other.
LEMMA LoopFailsInv ==
  ASSUME Inv, NEW p \in Live, LoopFails(p)
  PROVE  Inv'
<1>1. PICK d, rows, written, old, id :
        d = DatabaseOf[p] /\ rows = Table(p) /\ written = seals /\ old = worker[p] /\ id = old.id
  OBVIOUS
<1>2. p \in Process
  BY DEF Process
<1>3. TableOK(d, rows) /\ rows = events[d] /\ ProcessOK(p, rows, written, old)
  BY <1>1, <1>2, InvOf
<1>4. /\ old.pc \in Verifying /\ failures < MaxFailures /\ failures' = failures + 1
      /\ events' = [events EXCEPT ![d][id].reference_model_verify_attempts = @ + 1]
      /\ worker' = [worker EXCEPT ![p] = Visit(old.rows)]
      /\ UNCHANGED external /\ UNCHANGED seals /\ results' = results
  BY <1>1 DEF LoopFails
<1>5. /\ id \in DOMAIN rows /\ old.rows \in SUBSET (DOMAIN rows) /\ id \notin old.rows
      /\ \A i \in old.rows \cup {id} :
           /\ rows[i].reference_model_verify_attempts < MAX_REFERENCE_MODEL_ATTEMPTS
           /\ Unsealed(p, written, i)
  BY <1>1, <1>3, <1>4 DEF ProcessOK, WorkerOK, AtRow
<1>6. PICK row, after :
        /\ row = [rows[id] EXCEPT !.reference_model_verify_attempts = @ + 1]
        /\ after = [rows EXCEPT ![id] = row]
  OBVIOUS
<1>7. /\ row \in EventRow /\ row.id = rows[id].id /\ row.tx = rows[id].tx
      /\ row.block_number = rows[id].block_number
      /\ row.reference_model_hash = rows[id].reference_model_hash
  <2>1. rows[id] \in EventRow
    BY <1>3, <1>5, RowIsTyped
  <2>2. rows[id].reference_model_verify_attempts < MAX_REFERENCE_MODEL_ATTEMPTS
    BY <1>5
  <2> QED
    BY <1>6, <2>1, <2>2 DEF EventRow, MAX_REFERENCE_MODEL_ATTEMPTS
<1>8. /\ TableOK(d, after) /\ DOMAIN after = DOMAIN rows /\ after[id] = row
      /\ \A i \in DOMAIN rows : i # id => after[i] = rows[i]
  <2>1. after = [rows EXCEPT ![id] = row] /\ id \in DOMAIN rows /\ TableOK(d, rows)
    BY <1>3, <1>5, <1>6
  <2> QED
    BY <1>7, <2>1, ChangedRow
<1>9. Keeps(rows, after) /\ HashesStay(rows, after)
  BY <1>7, <1>8 DEF Keeps, HashesStay
<1>10. ProcessOK(p, after, written, Visit(old.rows))
  <2>1. after \in Seq(EventRow) /\ old.rows \in SUBSET (DOMAIN after)
    BY <1>5, <1>8 DEF TableOK
  <2>2. \A i \in old.rows :
          /\ after[i].reference_model_verify_attempts < MAX_REFERENCE_MODEL_ATTEMPTS
          /\ Unsealed(p, written, i)
    BY <1>5, <1>8
  <2> QED
    BY <2>1, <2>2, VisitOK
<1>11. events' = [events EXCEPT ![d] = after]
  BY <1>3, <1>4, <1>6
<1> QED
  BY <1>1, <1>4, <1>8, <1>9, <1>10, <1>11, MoreFailures, LoopStep

-----------------------------------------------------------------------------
(* The calls of verify_event *)

\* A call that answers: the process has read more, and nothing else changes.
LEMMA StepOfRead ==
  ASSUME Inv, NEW p \in Process, NEW old, old = worker[p], NEW w \in WorkerState,
         w.id = old.id, w.item = old.item, w.rows = old.rows, old.pc \in Verifying \ {"judged"},
         w.pc \in Verifying, w.pc = "judged" \/ w.match = old.match, ReadOK(Table(p), w),
         worker' = [worker EXCEPT ![p] = w], UNCHANGED <<external, events, results, failures, seals>>
  PROVE  Inv'
<1>1. PICK rows, written : rows = Table(p) /\ written = seals
  OBVIOUS
<1>2. WorkerOK(p, rows, written, old)
  BY <1>1, InvOf DEF ProcessOK
<1>3. WorkerOK(p, rows, written, w)
  BY <1>2 DEF WorkerOK, AtRow, Verifying
<1>4. ProcessOK(p, rows, written, w)
  BY <1>1, <1>3 DEF ProcessOK
<1>5. /\ UNCHANGED external /\ UNCHANGED seals /\ UNCHANGED events /\ results' = results /\ failures' \in 0..MaxFailures
  BY DEF Inv, GlobalOK
<1>6. /\ events' = [events EXCEPT ![DatabaseOf[p]] = rows] /\ TableOK(DatabaseOf[p], rows)
      /\ Keeps(Table(p), rows) /\ HashesStay(Table(p), rows) /\ AttemptsStay(Table(p), rows)
  BY <1>1, <1>5, RowsAsTheyWere
<1>7. CASE p \in Live
  BY <1>1, <1>4, <1>5, <1>6, <1>7, LoopStep
<1>8. CASE p \in Scripted
  <2>1. PICK res : res = results[p] /\ ScriptOK(p, rows, written, old, res)
    BY <1>1, <1>8, InvOf
  <2>2. \A i \in DOMAIN res : ResultOK(p, rows, written, w, i, res[i])
    BY <2>1 DEF ScriptOK, ResultOK, AtRow
  <2>3. /\ old.pc # "idle" /\ w.pc # "idle" /\ old.pc \in AtRow \ {"judged", "sealed"} /\ w.pc \in AtRow /\ w.pc # "sealed"
    BY DEF Verifying, AtRow
  <2>4. w.pc # "judged" => w.match = FALSE
    <3>1. old.match = FALSE
      BY <2>1, <2>3, Zenon DEF ScriptOK
    <3> QED
      BY <3>1, Zenon
  <2>5. w.pc \notin {"judged", "sealed"} => w.match = FALSE
    BY <2>4, Zenon
  <2>6. /\ res \in Seq(ResultState) /\ Len(res) <= Len(KNOWN_EVENTS) /\ Len(res) + 1 = w.item
        /\ \A i \in DOMAIN KNOWN_EVENTS : KNOWN_EVENTS[i] \in Logged
        /\ w.item <= Len(KNOWN_EVENTS) /\ rows[w.id].tx = KNOWN_EVENTS[w.item]
    BY <2>1, <2>3 DEF ScriptOK
  <2>7. ScriptOK(p, rows, written, w, res)
    BY <2>2, <2>3, <2>5, <2>6, Zenon DEF ScriptOK
  <2>8. results' = [results EXCEPT ![p] = res]
    BY <1>5, <1>8, <2>1 DEF Inv
  <2> QED
    BY <1>1, <1>4, <1>5, <1>6, <1>8, <2>7, <2>8, ScriptStep
<1> QED
  BY <1>7, <1>8 DEF Process

\* A process that verifies is at a row.
LEMMA VerifiesARow ==
  ASSUME Inv, NEW p \in Process, NEW rows, rows = Table(p), NEW w, w = worker[p], w.pc \in Verifying
  PROVE  /\ TokenOK /\ TableOK(DatabaseOf[p], rows) /\ w \in WorkerState /\ ReadOK(rows, w)
         /\ w.id \in DOMAIN rows /\ w.id \in Nat /\ rows[w.id] \in EventRow
         /\ rows[w.id].block_number \in 1..now
<1>1. TokenOK /\ TableOK(DatabaseOf[p], rows) /\ ProcessOK(p, rows, seals, w)
  BY InvOf
<1>2. w \in WorkerState /\ w.id \in DOMAIN rows /\ ReadOK(rows, w)
  BY <1>1 DEF ProcessOK, WorkerOK, AtRow
<1>3. rows[w.id] \in EventRow /\ rows[w.id].block_number <= now
  BY <1>1, <1>2 DEF TableOK
<1>4. rows[w.id].block_number \in 1..now
  BY <1>1, <1>3 DEF EventRow, TokenOK
<1>5. w.id \in Nat
  BY <1>2 DEF WorkerState
<1> QED
  BY <1>1, <1>2, <1>3, <1>4, <1>5

LEMMA ReadEventInv ==
  ASSUME Inv, NEW p \in Process, ReadEvent(p)
  PROVE  Inv'
<1>1. PICK rows, old, row, log :
        rows = Table(p) /\ old = worker[p] /\ row = rows[old.id] /\ log = EventLog(row.block_number)
  OBVIOUS
<1>2. PICK w : w = [old EXCEPT !.pc = "asked_log", !.status = row.status, !.log = log]
  OBVIOUS
<1>3. /\ old.pc = "ask" /\ worker' = [worker EXCEPT ![p] = w]
      /\ UNCHANGED <<external, events, results, failures, seals>>
  BY <1>1, <1>2 DEF ReadEvent, Stored
<1>4. TokenOK /\ old \in WorkerState /\ row \in EventRow
  BY <1>1, <1>3, VerifiesARow DEF Verifying
<1>5. log \in LogAnswer /\ row.status \in Status
  <2>1. row.block_number \in 1..MaxBlock /\ row.status \in Status
    BY <1>4 DEF EventRow
  <2> QED
    BY <1>1, <1>4, <2>1, EventLogIsTyped
<1>6. /\ w \in WorkerState /\ w.pc = "asked_log" /\ w.id = old.id /\ w.item = old.item /\ w.rows = old.rows
      /\ w.status = row.status /\ w.log = log /\ w.match = old.match
  BY <1>2, <1>4, <1>5 DEF WorkerState, AtRow, Verifying
<1>7. ReadOK(rows, w)
  BY <1>1, <1>5, <1>6 DEF ReadOK
<1> QED
  BY <1>1, <1>3, <1>6, <1>7, StepOfRead DEF Verifying

LEMMA ReadUiInv ==
  ASSUME Inv, NEW p \in Process, ReadUi(p)
  PROVE  Inv'
<1>1. PICK rows, old : rows = Table(p) /\ old = worker[p]
  OBVIOUS
<1>2. PICK w : w = [old EXCEPT !.pc = "asked_ui", !.ui = Ui(token, now), !.begun = changes]
  OBVIOUS
<1>3. /\ old.pc = "asked_log" /\ worker' = [worker EXCEPT ![p] = w]
      /\ UNCHANGED <<external, events, results, failures, seals>>
  BY <1>1, <1>2 DEF ReadUi
<1>4. TokenOK /\ old \in WorkerState /\ ReadOK(rows, old)
  BY <1>1, <1>3, VerifiesARow DEF Verifying
<1>5. Ui(token, now) \in Nat /\ changes \in Nat
  BY <1>4, UiIsOneOfThem DEF TokenOK
<1>6. /\ w \in WorkerState /\ w.pc = "asked_ui" /\ w.id = old.id /\ w.item = old.item /\ w.rows = old.rows
      /\ w.status = old.status /\ w.log = old.log /\ w.ui = Ui(token, now) /\ w.begun = changes
      /\ w.match = old.match
  BY <1>2, <1>4, <1>5 DEF WorkerState, AtRow, Verifying
<1>7. UiEarned(Ui(token, now))
  <2>1. Origin(logs, UiBy(token, now), Ui(token, now))
    BY <1>4, UiHasOrigin DEF TokenOK
  <2>2. UiBy(token, now) # None => UiBy(token, now) \in tookEffect
    BY <1>4 DEF TokenOK
  <2>3. CASE UiBy(token, now) = None /\ Ui(token, now) = INITIAL_MULTIPLIER
    BY <2>3 DEF UiEarned
  <2>4. ASSUME NEW i \in DOMAIN logs, logs[i].tx = UiBy(token, now), logs[i].new = Ui(token, now)
        PROVE  UiEarned(Ui(token, now))
    <3>1. logs[i].tx # None
      BY <1>4, LogIsTyped, ReferenceAssumption DEF LogRecord
    <3> QED
      BY <2>2, <2>4, <3>1 DEF UiEarned
  <2> QED
    BY <2>1, <2>3, <2>4 DEF Origin
<1>8. ReadOK(rows, w)
  <2>1. w.begun <= changes
    BY <1>5, <1>6
  <2> QED
    BY <1>3, <1>4, <1>6, <1>7, <2>1 DEF ReadOK, Verifying
<1> QED
  BY <1>1, <1>3, <1>6, <1>8, StepOfRead DEF Verifying

LEMMA ReadNewInv ==
  ASSUME Inv, NEW p \in Process, ReadNew(p)
  PROVE  Inv'
<1>1. PICK rows, old : rows = Table(p) /\ old = worker[p]
  OBVIOUS
<1>2. PICK w : w = [old EXCEPT !.pc = "asked_new", !.new = token.new]
  OBVIOUS
<1>3. /\ old.pc = "asked_ui" /\ worker' = [worker EXCEPT ![p] = w]
      /\ UNCHANGED <<external, events, results, failures, seals>>
  BY <1>1, <1>2 DEF ReadNew
<1>4. TokenOK /\ old \in WorkerState /\ ReadOK(rows, old)
  BY <1>1, <1>3, VerifiesARow DEF Verifying
<1>5. token.new \in Nat
  BY <1>4 DEF TokenOK, TokenState
<1>6. /\ w \in WorkerState /\ w.pc = "asked_new" /\ w.id = old.id /\ w.item = old.item /\ w.rows = old.rows
      /\ w.status = old.status /\ w.log = old.log /\ w.ui = old.ui /\ w.begun = old.begun /\ w.new = token.new
      /\ w.match = old.match
  BY <1>2, <1>4, <1>5 DEF WorkerState, AtRow, Verifying
<1>7. ReadOK(rows, w)
  BY <1>3, <1>4, <1>6 DEF ReadOK, Verifying
<1> QED
  BY <1>1, <1>3, <1>6, <1>7, StepOfRead DEF Verifying

LEMMA ReadEffectiveAtInv ==
  ASSUME Inv, NEW p \in Process, ReadEffectiveAt(p)
  PROVE  Inv'
<1>1. PICK rows, old : rows = Table(p) /\ old = worker[p]
  OBVIOUS
<1>2. PICK w : w = [old EXCEPT !.pc = "asked_all", !.effective_at = token.effective_at]
  OBVIOUS
<1>3. /\ old.pc = "asked_new" /\ worker' = [worker EXCEPT ![p] = w]
      /\ UNCHANGED <<external, events, results, failures, seals>>
  BY <1>1, <1>2 DEF ReadEffectiveAt
<1>4. TokenOK /\ old \in WorkerState /\ ReadOK(rows, old)
  BY <1>1, <1>3, VerifiesARow DEF Verifying
<1>5. token.effective_at \in Nat
  BY <1>4 DEF TokenOK, TokenState
<1>6. /\ w \in WorkerState /\ w.pc = "asked_all" /\ w.id = old.id /\ w.item = old.item /\ w.rows = old.rows
      /\ w.status = old.status /\ w.log = old.log /\ w.ui = old.ui /\ w.begun = old.begun /\ w.new = old.new
      /\ w.effective_at = token.effective_at /\ w.match = old.match
  BY <1>2, <1>4, <1>5 DEF WorkerState, AtRow, Verifying
<1>7. ReadOK(rows, w)
  BY <1>3, <1>4, <1>6 DEF ReadOK, Verifying
<1> QED
  BY <1>1, <1>3, <1>6, <1>7, StepOfRead DEF Verifying

LEMMA EventLogIsLogged ==
  ASSUME TokenOK, NEW block, EventLog(block).tx # None
  PROVE  \E i \in DOMAIN logs : EventLog(block) = logs[i]
<1>1. LogsOf(block) # {}
  BY DEF EventLog, NoLog
<1>2. LogsOf(block) \in SUBSET Nat /\ \A i \in LogsOf(block) : i \in DOMAIN logs
  BY DEF LogsOf, TokenOK
<1>3. First(LogsOf(block)) \in DOMAIN logs
  BY <1>1, <1>2, FirstIsLeast
<1> QED
  BY <1>1, <1>3 DEF EventLog

\* What matches is the row's own log, and the token's multiplier was its own if its
\* effectiveAt is over: one that took effect, or one of the same value.
LEMMA MatchedIsEarned ==
  ASSUME TokenOK, NEW rows, NEW w, ReadOK(rows, w), w.pc = "asked_all", NEW tx \in Update,
         w.log.tx = tx, ~NeverTookEffect(w)
  PROVE  Earned(w.log, tx, now)
<1>1. w.log = EventLog(rows[w.id].block_number) /\ UiEarned(w.ui)
  BY DEF ReadOK, Verifying
<1>2. tx # None
  BY ReferenceAssumption
<1>3. PICK i \in DOMAIN logs : w.log = logs[i]
  BY <1>1, <1>2, EventLogIsLogged
<1>4. ASSUME now >= w.log.effective_at
      PROVE  tx \in tookEffect \/ Coincides(w.log)
  <2>1. w.ui = w.log.new
    BY <1>2, <1>4 DEF NeverTookEffect, Passed
  <2>2. CASE w.ui = INITIAL_MULTIPLIER
    BY <2>1, <2>2 DEF Coincides
  <2>3. ASSUME NEW j \in DOMAIN logs, logs[j].tx \in tookEffect, logs[j].new = w.ui
        PROVE  tx \in tookEffect \/ Coincides(w.log)
    BY <2>1, <2>3 DEF Coincides
  <2> QED
    BY <1>1, <2>2, <2>3 DEF UiEarned
<1> QED
  BY <1>4 DEF Earned

LEMMA JudgeInv ==
  ASSUME Inv, NEW p \in Process, Judge(p)
  PROVE  Inv'
<1>1. PICK rows, old, row : rows = Table(p) /\ old = worker[p] /\ row = rows[old.id]
  OBVIOUS
<1>2. PICK match \in BOOLEAN : match = (~NeverTookEffect(old) /\ old.log.tx = row.tx)
  BY Zenon
<1>3. PICK w : w = [old EXCEPT !.pc = "judged", !.at = now, !.match = match]
  OBVIOUS
<1>4. /\ old.pc = "asked_all" /\ UNCHANGED <<external, events, results, failures, seals>>
      /\ worker' = [worker EXCEPT ![p] = w]
  <2>1. Stored(p) = row
    BY <1>1 DEF Stored
  <2> QED
    BY <1>1, <1>2, <1>3, <2>1, Zenon DEF Judge
<1>5. TokenOK /\ old \in WorkerState /\ row \in EventRow /\ ReadOK(rows, old)
  BY <1>1, <1>4, VerifiesARow DEF Verifying
<1>6. row.tx \in Update /\ now \in Nat
  BY <1>5 DEF EventRow, TokenOK
<1>7. /\ w \in WorkerState /\ w.pc = "judged" /\ w.id = old.id /\ w.item = old.item /\ w.rows = old.rows
      /\ w.status = old.status /\ w.log = old.log /\ w.ui = old.ui /\ w.begun = old.begun /\ w.new = old.new
      /\ w.effective_at = old.effective_at /\ w.match = match /\ w.at = now
  BY <1>3, <1>5, <1>6 DEF WorkerState, AtRow, Verifying
<1>8. w.match = TRUE => Earned(w.log, rows[w.id].tx, w.at)
  <2>1. match = TRUE => Earned(old.log, row.tx, now)
    <3>1. match = TRUE => ~NeverTookEffect(old) /\ old.log.tx = row.tx
      BY <1>2, Zenon
    <3> QED
      BY <1>4, <1>5, <1>6, <3>1, MatchedIsEarned
  <2> QED
    BY <1>1, <1>7, <2>1
<1>9. ReadOK(rows, w)
  BY <1>4, <1>5, <1>7, <1>8 DEF ReadOK, Verifying
<1> QED
  BY <1>1, <1>4, <1>7, <1>9, StepOfRead DEF Verifying

-----------------------------------------------------------------------------
(* The script *)

\* A script that is at a row.
LEMMA ScriptAtRow ==
  ASSUME NEW p \in Scripted, NEW rows, NEW written, NEW w \in WorkerState,
         w.pc \in Screening \cup {"ask", "sealed"}, w.id \in DOMAIN rows, w.rows \subseteq DOMAIN rows,
         w.pc # "sealed" => Unsealed(p, written, w.id)
  PROVE  ProcessOK(p, rows, written, w)
<1>1. p \notin Live /\ w.pc \in AtRow /\ w.pc \notin {"filtering", "confirming"}
  BY ReferenceAssumption DEF AtRow, Screening, Verifying
<1>2. w.pc \in Screening \cup Verifying => w.pc # "sealed"
  BY DEF Screening, Verifying
<1>3. WorkerOK(p, rows, written, w)
  BY <1>1, <1>2 DEF WorkerOK
<1>4. ReadOK(rows, w)
  BY DEF ReadOK, Screening, Verifying
<1> QED
  BY <1>3, <1>4 DEF ProcessOK

LEMMA NothingSealed ==
  ASSUME NEW p, NEW written, NEW id, Unsealed(p, written, id)
  PROVE  Sealing(p, written, id) = {}
BY DEF Unsealed, Sealing

\* The loops around the checks.
LEMMA ScriptMoves ==
  ASSUME Inv, NEW p \in Scripted, NEW old, old = worker[p], old.pc \in Screening,
         NEW pc \in Screening \cup {"ask"}, Goto(p, pc), NEW after,
         events' = [events EXCEPT ![DatabaseOf[p]] = after], TableOK(DatabaseOf[p], after),
         Keeps(Table(p), after), HashesStay(Table(p), after), AttemptsStay(Table(p), after),
         UNCHANGED <<external, results, failures, seals>>
  PROVE  Inv'
<1>1. PICK rows, written, res, w :
        rows = Table(p) /\ written = seals /\ res = results[p] /\ w = [old EXCEPT !.pc = pc]
  OBVIOUS
<1>2. p \in Process
  BY DEF Process
<1>3. ProcessOK(p, rows, written, old) /\ ScriptOK(p, rows, written, old, res)
  BY <1>1, <1>2, InvOf
<1>4. SealsOfOthers(p, written, written)
  BY <1>2, UnsealedSeals
<1>5. Keeps(rows, after) /\ AttemptsStay(rows, after)
  BY <1>1
<1>6. ProcessOK(p, after, written, old)
  BY <1>2, <1>3, <1>4, <1>5, ProcessKept
<1>7. ScriptOK(p, after, written, old, res)
  BY <1>2, <1>3, <1>4, <1>5, ScriptKept
<1>8. old \in WorkerState /\ old.id \in DOMAIN after /\ old.rows \subseteq DOMAIN after /\ Unsealed(p, written, old.id)
  BY <1>6 DEF ProcessOK, WorkerOK, AtRow
<1>9. /\ w \in WorkerState /\ w.pc = pc /\ w.id = old.id /\ w.item = old.item /\ w.rows = old.rows
      /\ w.match = old.match
  BY <1>1, <1>8 DEF WorkerState, AtRow, Screening, Verifying
<1>10. ProcessOK(p, after, written, w)
  BY <1>8, <1>9, ScriptAtRow
<1>11. \A i \in DOMAIN res : ResultOK(p, after, written, w, i, res[i])
  BY <1>7, <1>9 DEF ScriptOK, ResultOK, AtRow
<1>12. /\ old.pc # "idle" /\ w.pc # "sealed"
       /\ old.pc \in AtRow \ {"judged", "sealed"} /\ w.pc \in AtRow \ {"judged", "sealed"}
  BY <1>9 DEF AtRow, Screening, Verifying
<1>13. w.match = FALSE
  BY <1>7, <1>9, <1>12, Zenon DEF ScriptOK
<1>14. /\ res \in Seq(ResultState) /\ Len(res) <= Len(KNOWN_EVENTS) /\ Len(res) + 1 = w.item
       /\ \A i \in DOMAIN KNOWN_EVENTS : KNOWN_EVENTS[i] \in Logged
       /\ w.item <= Len(KNOWN_EVENTS) /\ after[w.id].tx = KNOWN_EVENTS[w.item]
  BY <1>7, <1>9, <1>12 DEF ScriptOK
<1>15. ScriptOK(p, after, written, w, res)
  BY <1>11, <1>12, <1>13, <1>14, Zenon DEF ScriptOK
<1>16. /\ worker' = [worker EXCEPT ![p] = w] /\ results' = [results EXCEPT ![p] = res]
       /\ failures' \in 0..MaxFailures /\ UNCHANGED external /\ UNCHANGED seals
  BY <1>1 DEF Goto, Inv, GlobalOK
<1> QED
  BY <1>1, <1>10, <1>15, <1>16, ScriptStep

LEMMA ScriptLooksInv ==
  ASSUME Inv, NEW p \in Scripted, ScriptScreens(p) \/ ScriptGoesOn(p) \/ ScriptReadsConfirmed(p)
  PROVE  Inv'
<1>1. PICK rows : rows = Table(p)
  OBVIOUS
<1>2. p \in Process /\ UNCHANGED events /\ UNCHANGED <<external, results, failures, seals>>
  BY DEF Process, ScriptScreens, ScriptGoesOn, ScriptReadsConfirmed
<1>3. /\ events' = [events EXCEPT ![DatabaseOf[p]] = rows] /\ TableOK(DatabaseOf[p], rows)
      /\ Keeps(Table(p), rows) /\ HashesStay(Table(p), rows) /\ AttemptsStay(Table(p), rows)
  BY <1>1, <1>2, RowsAsTheyWere
<1>4. PICK old : old = worker[p] /\ old.pc \in Screening
  BY DEF ScriptScreens, ScriptGoesOn, ScriptReadsConfirmed, Screening
<1>5. PICK pc \in Screening \cup {"ask"} : Goto(p, pc)
  <2>1. CASE ScriptScreens(p)
    BY <2>1 DEF ScriptScreens, Screening
  <2>2. CASE ScriptGoesOn(p)
    BY <2>2 DEF ScriptGoesOn, Screening
  <2>3. CASE ScriptReadsConfirmed(p)
    BY <2>3 DEF ScriptReadsConfirmed, Screening
  <2> QED
    BY <2>1, <2>2, <2>3
<1> QED
  BY <1>2, <1>3, <1>4, <1>5, ScriptMoves

LEMMA ScriptChecksInv ==
  ASSUME Inv, NEW p \in Scripted, ScriptFilters(p) \/ ScriptConfirms(p)
  PROVE  Inv'
<1>1. PICK old, id : old = worker[p] /\ id = old.id
  OBVIOUS
<1>2. p \in Process
  BY DEF Process
<1>3. PICK pc \in Screening, outcomes \in SUBSET Status :
        /\ old.pc \in Screening /\ CheckRow(p, id, outcomes) /\ Goto(p, pc)
        /\ UNCHANGED <<external, results, failures, seals>>
  <2>1. FilterOutcome \in SUBSET Status /\ {"l1_confirmed"} \in SUBSET Status /\ {"screen", "confirm"} \subseteq Screening
    BY DEF FilterOutcome, Status, Screening
  <2>2. CASE ScriptFilters(p)
    BY <1>1, <2>1, <2>2 DEF ScriptFilters, Screening
  <2>3. CASE ScriptConfirms(p)
    BY <1>1, <2>1, <2>3 DEF ScriptConfirms, Screening
  <2> QED
    BY <2>2, <2>3
<1>4. id \in DOMAIN Table(p)
  BY <1>1, <1>2, <1>3, InvOf DEF ProcessOK, WorkerOK, AtRow
<1>5. PICK after :
        /\ events' = [events EXCEPT ![DatabaseOf[p]] = after] /\ TableOK(DatabaseOf[p], after)
        /\ Keeps(Table(p), after) /\ HashesStay(Table(p), after) /\ AttemptsStay(Table(p), after)
  BY <1>2, <1>3, <1>4, CheckedRow
<1> QED
  BY <1>1, <1>3, <1>5, ScriptMoves

\* A script that is at a row or about to insert one is at its place in the list.
LEMMA ScriptIsAt ==
  ASSUME Inv, NEW p \in Scripted, NEW old, old = worker[p], old.pc # "idle", old.item <= Len(KNOWN_EVENTS)
  PROVE  /\ old \in WorkerState /\ old.item \in DOMAIN KNOWN_EVENTS /\ old.item \in Nat /\ old.id \in Nat
         /\ KNOWN_EVENTS[old.item] \in Update /\ KNOWN_EVENTS[old.item] \in Logged
         /\ old.id # 0 => old.id \in DOMAIN Table(p) /\ Table(p)[old.id].tx = KNOWN_EVENTS[old.item]
<1>1. PICK rows, written, res : rows = Table(p) /\ written = seals /\ res = results[p]
  OBVIOUS
<1>2. ProcessOK(p, rows, written, old) /\ ScriptOK(p, rows, written, old, res)
  BY <1>1, InvOf DEF Process
<1>3. old \in WorkerState /\ old.item \in Nat /\ old.id \in Nat
  BY <1>2 DEF ProcessOK, WorkerOK, WorkerState
<1>4. Len(res) + 1 = old.item /\ Len(res) \in Nat
  BY <1>2 DEF ScriptOK
<1>5. old.item \in DOMAIN KNOWN_EVENTS
  BY <1>3, <1>4, ReferenceAssumption
<1>6. KNOWN_EVENTS[old.item] \in Update
  BY <1>5, ReferenceAssumption
<1>7. KNOWN_EVENTS[old.item] \in Logged
  BY <1>2, <1>5 DEF ScriptOK
<1>8. old.id # 0 => old.id \in DOMAIN rows /\ rows[old.id].tx = KNOWN_EVENTS[old.item]
  BY <1>2 DEF ProcessOK, WorkerOK, ScriptOK
<1> QED
  BY <1>1, <1>3, <1>5, <1>6, <1>7, <1>8

\* What a result says of the script's own verification of its row.
VerdictOK(p, written, id, result) ==
  /\ result.match = TRUE => \E s \in Sealing(p, written, id) : s.match = TRUE
  /\ result.status # "exception" => \A s \in Sealing(p, written, id) : result.match = s.match

\* The script notes a result and goes on with its list.
LEMMA ScriptNotes ==
  ASSUME Inv, NEW p \in Scripted, NEW old, old = worker[p], old.pc # "idle", old.item <= Len(KNOWN_EVENTS),
         NEW result \in ResultState, result.tx = KNOWN_EVENTS[old.item], result.id = old.id,
         result.hash # None => \E s \in seals : s.db = DatabaseOf[p] /\ s.id = old.id /\ s.hash = result.hash,
         VerdictOK(p, seals, old.id, result),
         results' = [results EXCEPT ![p] = Append(@, result)], worker' = [worker EXCEPT ![p] = NextItem(p)],
         UNCHANGED external, UNCHANGED events, UNCHANGED seals, failures' \in 0..MaxFailures
  PROVE  Inv'
<1>1. PICK rows, written, res, next :
        rows = Table(p) /\ written = seals /\ res = results[p] /\ next = NextItem(p)
  OBVIOUS
<1>2. p \in Process /\ p \notin Live
  BY ReferenceAssumption DEF Process
<1>3. ProcessOK(p, rows, written, old) /\ ScriptOK(p, rows, written, old, res)
  BY <1>1, <1>2, InvOf
<1>4. /\ old.item \in Nat /\ (old.id # 0 => old.id \in DOMAIN rows /\ rows[old.id].tx = KNOWN_EVENTS[old.item])
  BY <1>1, ScriptIsAt
<1>5. /\ next \in WorkerState /\ next.pc = "insert" /\ next.item = old.item + 1 /\ next.id = 0 /\ next.rows = {}
      /\ next.match = FALSE
  <2>1. next = InsertsAt(old.item + 1) /\ old.item + 1 \in Nat
    BY <1>1, <1>4 DEF NextItem, InsertsAt
  <2> QED
    BY <2>1, InsertsAtIsTyped
<1>6. next.pc \notin AtRow /\ next.pc # "idle" /\ next.pc # "sealed"
  BY <1>5 DEF AtRow, Screening, Verifying
<1>7. ProcessOK(p, rows, written, next)
  BY <1>2, <1>5, Resting
<1>8. PICK n \in Nat : n = Len(res) /\ DOMAIN res = 1..n
  BY <1>3 DEF ScriptOK
<1>9. n + 1 = old.item
  BY <1>3, <1>8 DEF ScriptOK
<1>10. PICK more : more = Append(res, result)
  OBVIOUS
<1>11. /\ more \in Seq(ResultState) /\ DOMAIN more = 1..(n + 1) /\ Len(more) = n + 1
       /\ \A i \in 1..n : more[i] = res[i]
       /\ more[n + 1] = result
  BY <1>3, <1>8, <1>10 DEF ScriptOK
<1>12. ResultOK(p, rows, written, next, n + 1, result)
  <2>1. VerdictOK(p, written, result.id, result)
    BY <1>1
  <2>2. /\ result.tx = KNOWN_EVENTS[n + 1] /\ next.pc \notin AtRow
        /\ result.id # 0 => result.id \in DOMAIN rows /\ rows[result.id].tx = result.tx
        /\ result.hash # None =>
             \E s \in written : s.db = DatabaseOf[p] /\ s.id = result.id /\ s.hash = result.hash
    BY <1>1, <1>4, <1>6, <1>9
  <2> QED
    BY <2>1, <2>2, Zenon DEF ResultOK, VerdictOK
<1>13. ASSUME NEW i \in DOMAIN more
       PROVE  ResultOK(p, rows, written, next, i, more[i])
  <2>1. CASE i = n + 1
    BY <1>11, <1>12, <2>1
  <2>2. CASE i # n + 1
    <3>1. i \in DOMAIN res /\ more[i] = res[i]
      BY <1>8, <1>11, <1>13, <2>2
    <3>2. ResultOK(p, rows, written, old, i, res[i])
      BY <1>3, <3>1 DEF ScriptOK
    <3> QED
      BY <1>6, <3>1, <3>2 DEF ResultOK
  <2> QED
    BY <2>1, <2>2
<1>14. ScriptOK(p, rows, written, next, more)
  <2>1. \A i \in DOMAIN KNOWN_EVENTS : KNOWN_EVENTS[i] \in Logged
    BY <1>3 DEF ScriptOK
  <2>2. Len(more) + 1 = next.item /\ Len(more) <= Len(KNOWN_EVENTS)
    BY <1>5, <1>9, <1>11
  <2> QED
    BY <1>5, <1>6, <1>11, <1>13, <2>1, <2>2 DEF ScriptOK
<1>15. /\ events' = [events EXCEPT ![DatabaseOf[p]] = rows] /\ TableOK(DatabaseOf[p], rows)
       /\ Keeps(Table(p), rows) /\ HashesStay(Table(p), rows) /\ AttemptsStay(Table(p), rows)
  BY <1>1, <1>2, RowsAsTheyWere
<1>16. worker' = [worker EXCEPT ![p] = next] /\ results' = [results EXCEPT ![p] = more]
  BY <1>1, <1>10
<1> QED
  BY <1>1, <1>7, <1>14, <1>15, <1>16, ScriptStep

\* A result without a hash and without a verdict.
LEMMA ScriptNotesNothing ==
  ASSUME Inv, NEW p \in Scripted, NEW old, old = worker[p], old.pc # "idle", old.item <= Len(KNOWN_EVENTS),
         NEW status \in Status \cup {"timeout", "exception"},
         status # "exception" => Unsealed(p, seals, old.id),
         results' = [results EXCEPT ![p] = Append(@, Result(p, status, None, None))],
         worker' = [worker EXCEPT ![p] = NextItem(p)],
         UNCHANGED external, UNCHANGED events, UNCHANGED seals, failures' \in 0..MaxFailures
  PROVE  Inv'
<1>1. PICK none : none = None /\ none \in Hash \cup {None} /\ none \in BOOLEAN \cup {None}
  OBVIOUS
<1>2. PICK result : result = Result(p, status, none, none)
  OBVIOUS
<1>3. /\ result \in ResultState /\ result.tx = KNOWN_EVENTS[old.item] /\ result.id = old.id
      /\ result.status = status /\ result.hash = none /\ result.match = none
  <2>1. KNOWN_EVENTS[old.item] \in Update /\ old.id \in Nat
    BY ScriptIsAt
  <2>2. result = [tx |-> KNOWN_EVENTS[old.item], id |-> old.id, status |-> status, hash |-> none, match |-> none]
    BY <1>2 DEF Result
  <2> QED
    BY <1>1, <2>1, <2>2 DEF ResultState
<1>4. result.match # TRUE
  BY <1>1, <1>3, ReferenceAssumption, Zenon
<1>5. results' = [results EXCEPT ![p] = Append(@, result)]
  BY <1>1, <1>2
<1>6. result.match = TRUE => \E s \in Sealing(p, seals, old.id) : s.match = TRUE
  BY <1>4, Zenon
<1>7. result.status # "exception" => \A s \in Sealing(p, seals, old.id) : result.match = s.match
  BY <1>3, NothingSealed
<1>8. result.hash # None => \E s \in seals : s.db = DatabaseOf[p] /\ s.id = old.id /\ s.hash = result.hash
  BY <1>1, <1>3
<1>9. VerdictOK(p, seals, old.id, result)
  BY <1>6, <1>7, Zenon DEF VerdictOK
<1> QED
  BY <1>3, <1>5, <1>8, <1>9, ScriptNotes

LEMMA ScriptGivesUpInv ==
  ASSUME Inv, NEW p \in Scripted, ScriptGivesUp(p) \/ ScriptTimesOut(p)
  PROVE  Inv'
<1>1. PICK old, rows, written, res : old = worker[p] /\ rows = Table(p) /\ written = seals /\ res = results[p]
  OBVIOUS
<1>2. PICK status \in Status \cup {"timeout", "exception"} :
        status # "exception" /\ old.pc \in Screening /\ Report(p, status, None, None)
  BY <1>1 DEF ScriptGivesUp, ScriptTimesOut, Screening, Status
<1>3. ProcessOK(p, rows, written, old) /\ ScriptOK(p, rows, written, old, res)
  BY <1>1, InvOf DEF Process
<1>4. old.pc \in AtRow /\ old.pc # "idle"
  BY <1>2 DEF AtRow, Screening
<1>5. Unsealed(p, written, old.id)
  BY <1>2, <1>3 DEF ProcessOK, WorkerOK
<1>6. old.item <= Len(KNOWN_EVENTS)
  BY <1>3, <1>4 DEF ScriptOK
<1>7. /\ results' = [results EXCEPT ![p] = Append(@, Result(p, status, None, None))]
      /\ worker' = [worker EXCEPT ![p] = NextItem(p)]
      /\ UNCHANGED external /\ UNCHANGED events /\ UNCHANGED seals /\ failures' \in 0..MaxFailures
  BY <1>2 DEF Report, Inv, GlobalOK
<1> QED
  BY <1>1, <1>2, <1>4, <1>5, <1>6, <1>7, ScriptNotesNothing

LEMMA RunIsNotOver ==
  ASSUME Inv, NEW p \in Scripted, NEW old, old = worker[p], old.pc # "idle", ~RunIsOver(p)
  PROVE  old.item <= Len(KNOWN_EVENTS)
<1>1. PICK rows, written, res : rows = Table(p) /\ written = seals /\ res = results[p]
  OBVIOUS
<1>2. ProcessOK(p, rows, written, old) /\ ScriptOK(p, rows, written, old, res)
  BY <1>1, InvOf DEF Process
<1>3. old.item \in Nat /\ Len(KNOWN_EVENTS) \in Nat
  BY <1>2, ReferenceAssumption DEF ProcessOK, WorkerOK, WorkerState
<1>4. CASE old.pc = "insert"
  BY <1>3, <1>4 DEF RunIsOver
<1>5. CASE old.pc \in AtRow
  BY <1>2, <1>5 DEF ScriptOK
<1>6. old.pc = "insert" \/ old.pc \in AtRow
  BY <1>2, ReferenceAssumption DEF ProcessOK, WorkerOK, WorkerState
<1> QED
  BY <1>4, <1>5, <1>6

LEMMA ScriptExceptionInv ==
  ASSUME Inv, NEW p \in Scripted, ScriptException(p)
  PROVE  Inv'
<1>1. PICK old, status : old = worker[p] /\ status = "exception" /\ status \in Status \cup {"timeout", "exception"}
  OBVIOUS
<1>2. /\ old.pc # "idle" /\ ~RunIsOver(p) /\ failures < MaxFailures /\ failures' = failures + 1
      /\ results' = [results EXCEPT ![p] = Append(@, Result(p, status, None, None))]
      /\ worker' = [worker EXCEPT ![p] = NextItem(p)]
      /\ UNCHANGED external /\ UNCHANGED events /\ UNCHANGED seals
  BY <1>1 DEF ScriptException, AfterException
<1>3. old.item <= Len(KNOWN_EVENTS) /\ failures' \in 0..MaxFailures
  BY <1>1, <1>2, RunIsNotOver, MoreFailures
<1> QED
  BY <1>1, <1>2, <1>3, ScriptNotesNothing

\* The report's hash is the one of the row by now, its verdict that of the script.
LEMMA ScriptReportsInv ==
  ASSUME Inv, NEW p \in Scripted, ScriptReports(p)
  PROVE  Inv'
<1>1. PICK d, old, rows, written, res, row, id :
        /\ d = DatabaseOf[p] /\ old = worker[p] /\ rows = Table(p) /\ written = seals /\ res = results[p]
        /\ id = old.id /\ row = rows[id]
  OBVIOUS
<1>2. p \in Process
  BY DEF Process
<1>3. /\ GlobalOK /\ d \in Database /\ rows = events[d] /\ TableOK(d, rows)
      /\ ProcessOK(p, rows, written, old) /\ ScriptOK(p, rows, written, old, res)
  BY <1>1, <1>2, InvOf
<1>4. old.pc = "sealed" /\ old.pc \in AtRow /\ old.pc # "idle"
  BY <1>1 DEF ScriptReports, AtRow
<1>5. id \in DOMAIN rows /\ row \in EventRow /\ old.item <= Len(KNOWN_EVENTS)
  <2>1. id \in DOMAIN rows /\ old.item <= Len(KNOWN_EVENTS)
    BY <1>1, <1>3, <1>4 DEF ProcessOK, WorkerOK, ScriptOK
  <2> QED
    BY <1>1, <1>3, <2>1, RowIsTyped
<1>6. PICK status \in Status \cup {"timeout", "exception"}, hash \in Hash \cup {None} :
        status = row.status /\ status # "exception" /\ hash = row.reference_model_hash
  BY <1>5 DEF EventRow, Status
<1>7. PICK match \in BOOLEAN \cup {None} : match = old.match
  <2>1. old.match \in BOOLEAN
    BY <1>3, Zenon DEF ProcessOK, WorkerOK, WorkerState
  <2> QED
    BY <2>1, Zenon
<1>8. PICK result : result = Result(p, status, hash, match)
  OBVIOUS
<1>9. /\ result \in ResultState /\ result.tx = KNOWN_EVENTS[old.item] /\ result.id = id
      /\ result.status = status /\ result.hash = hash /\ result.match = match
  <2>1. KNOWN_EVENTS[old.item] \in Update /\ id \in Nat
    BY <1>1, <1>4, <1>5, ScriptIsAt
  <2>2. result = [tx |-> KNOWN_EVENTS[old.item], id |-> id, status |-> status, hash |-> hash, match |-> match]
    BY <1>1, <1>8 DEF Result
  <2> QED
    BY <1>7, <2>1, <2>2 DEF ResultState
<1>10. result.hash # None => \E s \in seals : s.db = DatabaseOf[p] /\ s.id = old.id /\ s.hash = result.hash
  <2>1. events[d][id].reference_model_hash = result.hash /\ id \in DOMAIN events[d]
    BY <1>1, <1>3, <1>5, <1>6, <1>9
  <2>2. HashesOK
    BY <1>3 DEF GlobalOK
  <2>3. result.hash # None => \E s \in seals : s.db = d /\ s.id = id /\ s.hash = result.hash
    BY <1>3, <2>1, <2>2 DEF HashesOK
  <2> QED
    BY <1>1, <2>3
<1>11. old.match = TRUE => \E s \in Sealing(p, written, old.id) : s.match = TRUE
  BY <1>3, <1>4 DEF ScriptOK
<1>12. \A s \in Sealing(p, written, old.id) : old.match = s.match
  BY <1>3, <1>4 DEF ScriptOK
<1>13. result.match = TRUE => \E s \in Sealing(p, seals, old.id) : s.match = TRUE
  BY <1>1, <1>7, <1>9, <1>11, Zenon
<1>14. result.status # "exception" => \A s \in Sealing(p, seals, old.id) : result.match = s.match
  BY <1>1, <1>7, <1>9, <1>12, Zenon
<1>15. /\ results' = [results EXCEPT ![p] = Append(@, result)] /\ worker' = [worker EXCEPT ![p] = NextItem(p)]
       /\ UNCHANGED external /\ UNCHANGED events /\ UNCHANGED seals /\ failures' \in 0..MaxFailures
  <2>1. Result(p, Stored(p).status, Stored(p).reference_model_hash, worker[p].match) = result
    <3>1. Stored(p) = row
      BY <1>1 DEF Stored
    <3> QED
      BY <1>1, <1>6, <1>7, <1>8, <3>1, Zenon
  <2> QED
    BY <2>1 DEF ScriptReports, Report, Inv, GlobalOK
<1>16. VerdictOK(p, seals, old.id, result)
  BY <1>13, <1>14, Zenon DEF VerdictOK
<1> QED
  BY <1>1, <1>4, <1>5, <1>9, <1>10, <1>15, <1>16, ScriptNotes

\* A failed call ends the verification without a match and without a hash.
LEMMA ScriptFailsInv ==
  ASSUME Inv, NEW p \in Scripted, ScriptFails(p)
  PROVE  Inv'
<1>1. PICK old, rows, written, res, w :
        /\ old = worker[p] /\ rows = Table(p) /\ written = seals /\ res = results[p]
        /\ w = [old EXCEPT !.pc = "sealed"]
  OBVIOUS
<1>2. p \in Process
  BY DEF Process
<1>3. ProcessOK(p, rows, written, old) /\ ScriptOK(p, rows, written, old, res)
  BY <1>1, <1>2, InvOf
<1>4. /\ old.pc \in Verifying \ {"judged"} /\ failures < MaxFailures /\ failures' = failures + 1
      /\ worker' = [worker EXCEPT ![p] = w] /\ results' = results
      /\ UNCHANGED external /\ UNCHANGED events /\ UNCHANGED seals
  BY <1>1 DEF ScriptFails, Goto
<1>5. old.pc \in AtRow \ {"judged", "sealed"} /\ old.pc # "idle"
  BY <1>4 DEF AtRow, Verifying
<1>6. /\ old \in WorkerState /\ old.id \in DOMAIN rows /\ old.rows \subseteq DOMAIN rows
      /\ Unsealed(p, written, old.id)
  BY <1>3, <1>4, <1>5 DEF ProcessOK, WorkerOK
<1>7. /\ w \in WorkerState /\ w.pc = "sealed" /\ w.id = old.id /\ w.item = old.item /\ w.rows = old.rows
      /\ w.match = old.match
  BY <1>1, <1>6 DEF WorkerState, AtRow
<1>8. ProcessOK(p, rows, written, w)
  BY <1>6, <1>7, ScriptAtRow
<1>9. w.match # TRUE
  <2>1. old.match = FALSE
    BY <1>3, <1>5, Zenon DEF ScriptOK
  <2> QED
    BY <1>7, <2>1, Zenon
<1>10. Sealing(p, written, w.id) = {}
  BY <1>6, <1>7, NothingSealed
<1>11. /\ w.match = TRUE => \E s \in Sealing(p, written, w.id) : s.match = TRUE
       /\ \A s \in Sealing(p, written, w.id) : w.match = s.match
  <2>1. w.match = TRUE => \E s \in Sealing(p, written, w.id) : s.match = TRUE
    BY <1>9, Zenon
  <2> QED
    BY <1>10, <2>1
<1>12. \A i \in DOMAIN res : ResultOK(p, rows, written, w, i, res[i])
  BY <1>3, <1>5, <1>7 DEF ScriptOK, ResultOK
<1>13. /\ res \in Seq(ResultState) /\ Len(res) <= Len(KNOWN_EVENTS) /\ Len(res) + 1 = w.item
       /\ \A i \in DOMAIN KNOWN_EVENTS : KNOWN_EVENTS[i] \in Logged
       /\ w.item <= Len(KNOWN_EVENTS) /\ rows[w.id].tx = KNOWN_EVENTS[w.item]
  BY <1>3, <1>5, <1>7 DEF ScriptOK
<1>14. w.pc \in {"judged", "sealed"}
  BY <1>7
<1>15. ScriptOK(p, rows, written, w, res)
  BY <1>11, <1>12, <1>13, <1>14, Zenon DEF ScriptOK
<1>16. /\ events' = [events EXCEPT ![DatabaseOf[p]] = rows] /\ TableOK(DatabaseOf[p], rows)
       /\ Keeps(Table(p), rows) /\ HashesStay(Table(p), rows) /\ AttemptsStay(Table(p), rows)
  BY <1>1, <1>2, <1>4, RowsAsTheyWere
<1>17. results' = [results EXCEPT ![p] = res] /\ failures' \in 0..MaxFailures
  BY <1>1, <1>4, MoreFailures DEF Inv
<1> QED
  BY <1>1, <1>4, <1>8, <1>15, <1>16, <1>17, ScriptStep

LEMMA ScriptStartInv ==
  ASSUME Inv, NEW p \in Scripted, ScriptStart(p)
  PROVE  Inv'
<1>1. PICK rows, written, item, w, res :
        /\ rows = Table(p) /\ written = seals /\ item = 1 /\ item \in Nat /\ w = InsertsAt(item) /\ res = <<>>
  OBVIOUS
<1>2. p \in Process /\ p \notin Live
  BY ReferenceAssumption DEF Process
<1>3. /\ worker' = [worker EXCEPT ![p] = w] /\ results' = [results EXCEPT ![p] = res]
      /\ UNCHANGED external /\ UNCHANGED events /\ UNCHANGED seals /\ failures' = failures
      /\ \A i \in DOMAIN KNOWN_EVENTS : KNOWN_EVENTS[i] \in Logged
  BY <1>1 DEF ScriptStart, InsertsAt
<1>4. w \in WorkerState /\ w.pc = "insert" /\ w.item = 1 /\ w.id = 0 /\ w.rows = {} /\ w.match = FALSE
  BY <1>1, InsertsAtIsTyped
<1>5. ProcessOK(p, rows, written, w)
  BY <1>2, <1>4, Resting
<1>6. ScriptOK(p, rows, written, w, res)
  <2>1. res \in Seq(ResultState) /\ Len(res) = 0 /\ DOMAIN res = {} /\ Len(KNOWN_EVENTS) \in Nat
    BY <1>1, ReferenceAssumption
  <2>2. w.pc \notin AtRow /\ w.pc # "sealed"
    BY <1>4 DEF AtRow, Screening, Verifying
  <2> QED
    BY <1>3, <1>4, <2>1, <2>2 DEF ScriptOK
<1>7. /\ events' = [events EXCEPT ![DatabaseOf[p]] = rows] /\ TableOK(DatabaseOf[p], rows)
      /\ Keeps(Table(p), rows) /\ HashesStay(Table(p), rows) /\ AttemptsStay(Table(p), rows)
  BY <1>1, <1>2, <1>3, RowsAsTheyWere
<1>8. failures' \in 0..MaxFailures
  BY <1>3 DEF Inv, GlobalOK
<1> QED
  BY <1>1, <1>3, <1>5, <1>6, <1>7, <1>8, ScriptStep

\* A process that stops, at its end or at any other place, leaves its table and its
\* results as they are.
LEMMA StopsInv ==
  ASSUME Inv, NEW p \in Process, worker' = [worker EXCEPT ![p] = Idle], UNCHANGED <<external, events, results, seals>>,
         failures' \in 0..MaxFailures
  PROVE  Inv'
<1>1. PICK rows, written, w : rows = Table(p) /\ written = seals /\ w = Idle
  OBVIOUS
<1>2. UNCHANGED external /\ UNCHANGED events /\ UNCHANGED seals /\ results' = results
  OBVIOUS
<1>3. w \in WorkerState /\ w.pc = "idle" /\ w.id = 0 /\ w.rows = {} /\ w.match = FALSE
  BY <1>1, IdleIsTyped DEF IdleFields
<1>4. ProcessOK(p, rows, written, w)
  BY <1>3, Resting
<1>5. /\ events' = [events EXCEPT ![DatabaseOf[p]] = rows] /\ TableOK(DatabaseOf[p], rows)
      /\ Keeps(Table(p), rows) /\ HashesStay(Table(p), rows) /\ AttemptsStay(Table(p), rows)
  BY <1>1, <1>2, RowsAsTheyWere
<1>6. CASE p \in Live
  BY <1>1, <1>2, <1>4, <1>5, <1>6, LoopStep
<1>7. CASE p \in Scripted
  <2>1. PICK old, res : old = worker[p] /\ res = results[p] /\ ScriptOK(p, rows, written, old, res)
    BY <1>1, <1>7, InvOf
  <2>2. w.pc \notin AtRow
    BY <1>3 DEF AtRow, Screening, Verifying
  <2>3. \A i \in DOMAIN res : ResultOK(p, rows, written, w, i, res[i])
    BY <2>1, <2>2 DEF ScriptOK, ResultOK
  <2>4. ScriptOK(p, rows, written, w, res)
    BY <1>3, <2>1, <2>2, <2>3 DEF ScriptOK
  <2>5. results' = [results EXCEPT ![p] = res]
    BY <1>2, <1>7, <2>1 DEF Inv
  <2> QED
    BY <1>1, <1>2, <1>4, <1>5, <1>7, <2>4, <2>5, ScriptStep
<1> QED
  BY <1>6, <1>7 DEF Process

LEMMA ScriptEndInv ==
  ASSUME Inv, NEW p \in Scripted, ScriptEnd(p)
  PROVE  Inv'
<1>1. failures' \in 0..MaxFailures
  BY DEF ScriptEnd, Inv, GlobalOK
<1> QED
  BY <1>1, StopsInv DEF ScriptEnd, Process

LEMMA DiesInv ==
  ASSUME Inv, NEW p \in Process, Dies(p)
  PROVE  Inv'
<1>1. failures' \in 0..MaxFailures
  BY MoreFailures DEF Dies
<1> QED
  BY <1>1, StopsInv DEF Dies

LEMMA ScriptInsertInv ==
  ASSUME Inv, NEW p \in Scripted, ScriptInsert(p)
  PROVE  Inv'
<1>1. PICK d, rows, written, old, res, n, tx, block :
        /\ d = DatabaseOf[p] /\ rows = Table(p) /\ written = seals /\ old = worker[p] /\ res = results[p]
        /\ n = Len(rows) + 1 /\ tx = KNOWN_EVENTS[old.item] /\ block = LogOf(tx).block
  OBVIOUS
<1>2. p \in Process /\ p \notin Live
  BY ReferenceAssumption DEF Process
<1>3. /\ GlobalOK /\ TokenOK /\ d \in Database /\ rows = events[d] /\ TableOK(d, rows)
      /\ ProcessOK(p, rows, written, old) /\ ScriptOK(p, rows, written, old, res)
  BY <1>1, <1>2, InvOf
<1>4. /\ old.pc = "insert" /\ ~RunIsOver(p) /\ Len(rows) < MaxRows[d]
      /\ UNCHANGED external /\ UNCHANGED seals /\ results' = results /\ failures' = failures
  BY <1>1 DEF ScriptInsert
<1>5. old.pc # "idle" /\ old.pc \notin AtRow
  BY <1>4 DEF AtRow, Screening, Verifying
<1>6. old.item <= Len(KNOWN_EVENTS)
  BY <1>1, <1>4, <1>5, RunIsNotOver
<1>7. old \in WorkerState /\ tx \in Logged /\ old.rows \subseteq DOMAIN rows
  BY <1>1, <1>3, <1>5, <1>6, ScriptIsAt DEF ProcessOK, WorkerOK
<1>8. block \in 1..now
  <2>1. PICK i \in DOMAIN logs : LogOf(tx) = logs[i]
    BY <1>7 DEF Logged, LogOf
  <2>2. block \in 1..MaxBlock
    BY <1>1, <1>3, <2>1, LogIsTyped DEF LogRecord
  <2> QED
    BY <1>1, <1>3, <2>1, <2>2 DEF TokenOK
<1>9. PICK after : after = Inserted(rows, tx, block)
  OBVIOUS
<1>10. /\ TableOK(d, after) /\ Keeps(rows, after) /\ HashesStay(rows, after) /\ AttemptsStay(rows, after)
       /\ n \in Nat /\ n # 0 /\ n \notin DOMAIN rows /\ n \in DOMAIN after /\ after[n].tx = tx
  <2>1. n = Len(rows) + 1
    BY <1>1
  <2> QED
    BY <1>3, <1>4, <1>7, <1>8, <1>9, <2>1, InsertedRow
<1>11. PICK w : w = [old EXCEPT !.pc = "screen", !.id = n]
  OBVIOUS
<1>12. /\ w \in WorkerState /\ w.pc = "screen" /\ w.id = n /\ w.item = old.item /\ w.rows = old.rows
       /\ w.match = old.match
  BY <1>7, <1>10, <1>11 DEF WorkerState, AtRow, Screening
<1>13. /\ events' = [events EXCEPT ![d] = after] /\ worker' = [worker EXCEPT ![p] = w]
  BY <1>1, <1>3, <1>9, <1>11 DEF ScriptInsert, Insert, Inserted
<1>14. Unsealed(p, written, n)
  BY <1>1, <1>3, <1>10 DEF Unsealed, GlobalOK, SealsOK, PlaceOK
<1>15. w.rows \subseteq DOMAIN after
  BY <1>7, <1>10, <1>12 DEF Keeps
<1>16. ProcessOK(p, after, written, w)
  BY <1>10, <1>12, <1>14, <1>15, ScriptAtRow DEF Screening
<1>17. ASSUME NEW i \in DOMAIN res
       PROVE  ResultOK(p, after, written, w, i, res[i])
  <2>1. ResultOK(p, rows, written, old, i, res[i])
    BY <1>3, <1>17 DEF ScriptOK
  <2> QED
    BY <1>10, <1>12, <2>1 DEF ResultOK, Keeps
<1>18. w.match = FALSE
  <2>1. old.match = FALSE
    BY <1>3, <1>4, Zenon DEF ScriptOK
  <2> QED
    BY <1>12, <2>1, Zenon
<1>19. /\ res \in Seq(ResultState) /\ Len(res) <= Len(KNOWN_EVENTS) /\ Len(res) + 1 = w.item
       /\ \A i \in DOMAIN KNOWN_EVENTS : KNOWN_EVENTS[i] \in Logged
       /\ w.item <= Len(KNOWN_EVENTS) /\ after[w.id].tx = KNOWN_EVENTS[w.item]
  BY <1>1, <1>3, <1>5, <1>6, <1>10, <1>12 DEF ScriptOK
<1>20. w.pc # "sealed"
  BY <1>12
<1>21. ScriptOK(p, after, written, w, res)
  BY <1>17, <1>18, <1>19, <1>20, Zenon DEF ScriptOK
<1>22. /\ results' = [results EXCEPT ![p] = res] /\ failures' \in 0..MaxFailures
  BY <1>1, <1>4 DEF Inv, GlobalOK
<1> QED
  BY <1>1, <1>4, <1>10, <1>13, <1>16, <1>21, <1>22, ScriptStep

-----------------------------------------------------------------------------
(* A hash is written *)

\* Two seals of the same facts, of whatever rows.
LEMMA HashesAgree ==
  ASSUME NEW s \in SealState, NEW u \in SealState, FactsOK(s), FactsOK(u), s.tx = u.tx, s.block = u.block,
         s.hash.event_store_status = u.hash.event_store_status, s.begun = changes, u.begun = changes
  PROVE  s.hash = u.hash
<1>1. s.hash \in Hash /\ u.hash \in Hash /\ s.hash.tx_hash = u.hash.tx_hash
  BY DEF SealState, FactsOK
<1>2. PICK g, h : g = s.hash.record /\ h = u.hash.record /\ g \in FactRecord /\ h \in FactRecord
  BY <1>1 DEF Hash
<1>3. g.block_number = h.block_number /\ g.log = h.log
  BY <1>2 DEF FactsOK
<1>4. /\ g.onchain_ui_multiplier = h.onchain_ui_multiplier
      /\ g.onchain_new_ui_multiplier = h.onchain_new_ui_multiplier
      /\ g.onchain_effective_at = h.onchain_effective_at
  BY <1>2 DEF FactsOK, Answers
<1>5. g = h
  BY <1>2, <1>3, <1>4 DEF FactRecord
<1>6. PICK a, b : a = s.hash /\ b = u.hash
  OBVIOUS
<1>7. /\ a \in Hash /\ b \in Hash /\ a.tx_hash = b.tx_hash /\ a.event_store_status = b.event_store_status
      /\ a.record = b.record
  BY <1>1, <1>2, <1>5, <1>6
<1>8. a = b
  BY <1>7 DEF Hash
<1> QED
  BY <1>6, <1>8

MatchOK(s) ==
  s.match =>
    /\ s.hash.record.log.tx = s.tx
    /\ s.at >= s.hash.record.log.effective_at => s.tx \in tookEffect \/ Coincides(s.hash.record.log)

\* A seal that is as it should be can be added to the others.
LEMMA SealAdded ==
  ASSUME GlobalOK, UNCHANGED external, failures' = failures, NEW s \in SealState, FactsOK(s), s.ended = changes,
         MatchOK(s), seals' = seals \cup {s}, Unsealed(s.process, seals, s.id),
         s.db = DatabaseOf[s.process], s.id \in DOMAIN events[s.db],
         NEW after, events' = [events EXCEPT ![s.db] = after], TableOK(s.db, after), Keeps(events[s.db], after),
         DOMAIN after = DOMAIN events[s.db], after[s.id].tx = s.tx, after[s.id].reference_model_hash = s.hash,
         \A i \in DOMAIN after : i # s.id => after[i].reference_model_hash = events[s.db][i].reference_model_hash
  PROVE  GlobalOK'
<1>1. /\ now' = now /\ token' = token /\ logs' = logs /\ tookEffect' = tookEffect /\ changes' = changes
      /\ Logged' = Logged /\ \A block : EventLog(block)' = EventLog(block)
      /\ \A log : Coincides(log)' = Coincides(log)
  BY ExternalStays
<1>2. TokenOK' /\ failures' \in 0..MaxFailures
  BY <1>1 DEF GlobalOK, TokenOK, UiBy
<1>3. PICK d \in Database : d = s.db
  BY DEF SealState
<1>4. /\ events \in [Database -> Seq(EventRow)] /\ after \in Seq(EventRow)
      /\ events'[d] = after /\ \A c \in Database : c # d => events'[c] = events[c]
      /\ events' \in [Database -> Seq(EventRow)]
  BY <1>3 DEF GlobalOK, TableOK
<1>5. ASSUME NEW c \in Database
      PROVE  TableOK(c, events[c])'
  <2>1. PICK rows : rows = events'[c]
    OBVIOUS
  <2>2. TableOK(c, rows)
    BY <1>3, <1>4, <2>1 DEF GlobalOK
  <2> QED
    BY <1>1, <2>1, <2>2 DEF TableOK
<1>6. ASSUME NEW u \in seals'
      PROVE  u \in SealState /\ FactsOK(u)
  BY <1>6 DEF GlobalOK, SealsOK
<1>7. ASSUME NEW u \in seals'
      PROVE  FactsOK(u)' /\ PlaceOK(u)'
  <2>1. FactsOK(u)'
    BY <1>1, <1>6, <1>7 DEF FactsOK, Answers, Ui
  <2>2. CASE u = s
    <3>1. s.hash # None
      BY ReferenceAssumption DEF SealState
    <3> QED
      BY <1>3, <1>4, <2>1, <2>2, <3>1 DEF PlaceOK
  <2>3. CASE u \in seals
    <3>1. u \in SealState /\ PlaceOK(u) /\ u.db \in Database
      BY <2>3 DEF GlobalOK, SealsOK, SealState
    <3> QED
      BY <1>3, <1>4, <2>1, <3>1 DEF PlaceOK, Keeps
  <2> QED
    BY <1>7, <2>2, <2>3
<1>8. SealsOK'
  BY <1>6, <1>7 DEF SealsOK
<1>9. ASSUME NEW u \in seals', NEW v \in seals', u.tx = v.tx, u.block = v.block,
             u.hash.event_store_status = v.hash.event_store_status,
             {u.begun, u.ended} = {v.begun}, v.ended = v.begun
      PROVE  u.hash = v.hash
  <2>1. CASE u \in seals /\ v \in seals
    BY <1>9, <2>1 DEF GlobalOK, QuietFactsSealAlike
  <2>2. CASE u = s \/ v = s
    <3>1. u.begun = changes /\ v.begun = changes
      BY <1>9, <2>2
    <3> QED
      BY <1>6, <1>9, <3>1, HashesAgree
  <2> QED
    BY <2>1, <2>2
<1>10. QuietFactsSealAlike'
  BY <1>9 DEF QuietFactsSealAlike
<1>11. MatchIsEarned'
  <2>1. \A u \in seals' : MatchOK(u)
    BY DEF GlobalOK, MatchIsEarned, MatchOK
  <2> QED
    BY <1>1, <2>1 DEF MatchIsEarned, MatchOK
<1>12. NobodySealsTwice'
  BY DEF NobodySealsTwice, GlobalOK, Unsealed
<1>13. HashesOK'
  <2>1. ASSUME NEW c \in Database, NEW i \in DOMAIN events'[c], events'[c][i].reference_model_hash # None
        PROVE  \E u \in seals' : u.db = c /\ u.id = i /\ u.hash = events'[c][i].reference_model_hash
    <3>1. CASE c = d /\ i = s.id
      BY <1>3, <1>4, <3>1
    <3>2. CASE c # d \/ i # s.id
      <4>1. i \in DOMAIN events[c] /\ events'[c][i].reference_model_hash = events[c][i].reference_model_hash
        BY <1>3, <1>4, <2>1, <3>2
      <4>2. \E u \in seals : u.db = c /\ u.id = i /\ u.hash = events[c][i].reference_model_hash
        BY <2>1, <4>1 DEF GlobalOK, HashesOK
      <4> QED
        BY <4>1, <4>2
    <3> QED
      BY <3>1, <3>2
  <2> QED
    BY <2>1 DEF HashesOK
<1> QED
  BY <1>2, <1>4, <1>5, <1>8, <1>10, <1>11, <1>12, <1>13 DEF GlobalOK

\* The record that a process which has asked everything writes.
LEMMA HashIsTyped ==
  ASSUME NEW row \in EventRow, NEW w \in WorkerState, w.log \in LogAnswer, w.status \in Status,
         NEW hash, hash = HashOf(row, w)
  PROVE  /\ hash \in Hash /\ hash.tx_hash = row.tx
         /\ hash.record.block_number = row.block_number /\ hash.record.log = w.log
         /\ hash.record.onchain_ui_multiplier = w.ui /\ hash.record.onchain_new_ui_multiplier = w.new
         /\ hash.record.onchain_effective_at = w.effective_at
<1>1. PICK record : record = Record(row, w)
  OBVIOUS
<1>2. /\ record \in FactRecord /\ record.block_number = row.block_number /\ record.log = w.log
      /\ record.onchain_ui_multiplier = w.ui /\ record.onchain_new_ui_multiplier = w.new
      /\ record.onchain_effective_at = w.effective_at
  BY <1>1 DEF Record, FactRecord, EventRow, WorkerState
<1>3. /\ hash = [tx_hash |-> row.tx, event_store_status |-> w.status, record |-> record]
      /\ row.tx \in Update
  BY <1>1 DEF HashOf, EventRow
<1> QED
  BY <1>2, <1>3 DEF Hash

\* What a process writes, and the record of it.
LEMMA SealIsTyped ==
  ASSUME Inv, NEW p \in Process, NEW w, w = worker[p], w.pc = "judged",
         NEW row, row = Stored(p), NEW hash, hash = HashOf(row, w), NEW s, s = SealRecord(p, hash)
  PROVE  /\ hash \in Hash /\ s \in SealState /\ FactsOK(s) /\ s.ended = changes /\ MatchOK(s)
         /\ s.process = p /\ s.db = DatabaseOf[p] /\ s.id = w.id /\ s.tx = row.tx /\ s.hash = hash
         /\ s.match = w.match
<1>1. PICK rows, match : rows = Table(p) /\ match = w.match
  OBVIOUS
<1>2. /\ TokenOK /\ TableOK(DatabaseOf[p], rows) /\ w \in WorkerState /\ ReadOK(rows, w)
      /\ w.id \in DOMAIN rows /\ w.id \in Nat /\ rows[w.id] \in EventRow /\ rows[w.id].block_number \in 1..now
  BY <1>1, VerifiesARow DEF Verifying
<1>3. row = rows[w.id] /\ row \in EventRow
  BY <1>1, <1>2 DEF Stored
<1>4. row.tx \in Update /\ row.block_number \in 1..MaxBlock /\ row.block_number <= now
  BY <1>2, <1>3 DEF EventRow, TokenOK
<1>5. w.status \in Status /\ w.log = EventLog(row.block_number) /\ w.log \in LogAnswer
  <2>1. w.status \in Status /\ w.log = EventLog(row.block_number)
    BY <1>2, <1>3 DEF ReadOK, Verifying
  <2> QED
    BY <1>2, <1>4, <2>1, EventLogIsTyped
<1>6. /\ hash \in Hash /\ hash.tx_hash = row.tx
      /\ hash.record.block_number = row.block_number /\ hash.record.log = w.log
      /\ hash.record.onchain_ui_multiplier = w.ui /\ hash.record.onchain_new_ui_multiplier = w.new
      /\ hash.record.onchain_effective_at = w.effective_at
  BY <1>2, <1>3, <1>5, HashIsTyped
<1>7. s = [process |-> p, db |-> DatabaseOf[p], id |-> w.id, tx |-> row.tx, block |-> row.block_number,
           hash |-> hash, match |-> match, begun |-> w.begun, ended |-> changes, at |-> w.at]
  BY <1>1, Zenon DEF SealRecord
<1>8. match \in BOOLEAN
  BY <1>1, <1>2, Zenon DEF WorkerState
<1>9. w.begun \in Nat /\ w.at \in Nat /\ changes \in Nat /\ DatabaseOf[p] \in Database
  BY <1>2, ReferenceAssumption DEF WorkerState, TokenOK
<1>10. /\ s \in SealState /\ s.process = p /\ s.db = DatabaseOf[p] /\ s.id = w.id /\ s.tx = row.tx
       /\ s.block = row.block_number /\ s.hash = hash /\ s.match = match /\ s.begun = w.begun
       /\ s.ended = changes /\ s.at = w.at
  BY <1>2, <1>4, <1>6, <1>7, <1>8, <1>9 DEF SealState
<1>11. FactsOK(s)
  <2>1. w.begun <= changes /\ (w.begun = changes => Answers(token, now) = <<w.ui, w.new, w.effective_at>>)
    BY <1>2 DEF ReadOK, Answers, Verifying
  <2>2. changes <= changes
    BY <1>9
  <2> QED
    BY <1>4, <1>5, <1>6, <1>10, <2>1, <2>2 DEF FactsOK
<1>12. MatchOK(s)
  <2>1. w.match = TRUE => Earned(w.log, row.tx, w.at)
    BY <1>2, <1>3 DEF ReadOK
  <2>2. match = TRUE => Earned(w.log, row.tx, w.at)
    BY <1>1, <2>1, Zenon
  <2>3. CASE match = TRUE
    <3>1. Earned(w.log, row.tx, w.at)
      BY <2>2, <2>3
    <3> QED
      BY <1>6, <1>10, <3>1 DEF Earned, MatchOK
  <2>4. CASE match = FALSE
    BY <1>10, <2>4, Zenon DEF MatchOK
  <2> QED
    BY <1>8, <2>3, <2>4
<1>13. s.match = w.match
  BY <1>1, <1>10, Zenon
<1> QED
  BY <1>6, <1>10, <1>11, <1>12, <1>13, Zenon

\* A row gets a hash.
LEMMA HashedRow ==
  ASSUME NEW d, NEW rows, TableOK(d, rows), NEW id \in DOMAIN rows, NEW hash \in Hash,
         NEW after, after = [rows EXCEPT ![id].reference_model_hash = hash]
  PROVE  /\ TableOK(d, after) /\ Keeps(rows, after) /\ AttemptsStay(rows, after) /\ DOMAIN after = DOMAIN rows
         /\ after[id].tx = rows[id].tx /\ after[id].reference_model_hash = hash
         /\ \A i \in DOMAIN after : i # id => after[i].reference_model_hash = rows[i].reference_model_hash
<1>1. PICK row : row = [rows[id] EXCEPT !.reference_model_hash = hash]
  OBVIOUS
<1>2. rows[id] \in EventRow /\ hash # None
  BY RowIsTyped, ReferenceAssumption
<1>3. /\ row \in EventRow /\ row.id = rows[id].id /\ row.tx = rows[id].tx /\ row.block_number = rows[id].block_number
      /\ row.reference_model_hash = hash
      /\ row.reference_model_verify_attempts = rows[id].reference_model_verify_attempts
  BY <1>1, <1>2 DEF EventRow
<1>4. after = [rows EXCEPT ![id] = row]
  BY <1>1
<1>5. /\ TableOK(d, after) /\ DOMAIN after = DOMAIN rows /\ after[id] = row
      /\ \A i \in DOMAIN rows : i # id => after[i] = rows[i]
  <2>1. PICK more : more = [rows EXCEPT ![id] = row]
    OBVIOUS
  <2>2. /\ TableOK(d, more) /\ DOMAIN more = DOMAIN rows /\ more[id] = row
        /\ \A i \in DOMAIN rows : i # id => more[i] = rows[i]
    BY <1>3, <2>1, ChangedRow
  <2> QED
    BY <1>4, <2>1, <2>2
<1> QED
  BY <1>2, <1>3, <1>5 DEF Keeps, AttemptsStay

\* The seal is of a row that the process has not sealed before.  A loop goes on to
\* its next row, a script to its report.
LEMMA SealInv ==
  ASSUME Inv, NEW p \in Process, Seal(p)
  PROVE  Inv'
<1>1. PICK d, rows, written, old, row, hash, s :
        /\ d = DatabaseOf[p] /\ rows = Table(p) /\ written = seals /\ old = worker[p] /\ row = Stored(p)
        /\ hash = HashOf(row, old) /\ s = SealRecord(p, hash)
  OBVIOUS
<1>2. PICK more, after : more = written \cup {s} /\ after = [rows EXCEPT ![old.id].reference_model_hash = hash]
  OBVIOUS
<1>3. /\ old.pc = "judged" /\ UNCHANGED external /\ results' = results /\ failures' = failures
      /\ seals' = more /\ events' = [events EXCEPT ![d][old.id].reference_model_hash = hash]
      /\ IF p \in Live THEN worker' = [worker EXCEPT ![p] = Visit(@.rows)] ELSE Goto(p, "sealed")
  BY <1>1, <1>2 DEF Seal
<1>4. /\ GlobalOK /\ d \in Database /\ rows = events[d] /\ TableOK(d, rows)
      /\ worker \in [Process -> WorkerState] /\ ProcessOK(p, rows, written, old)
  BY <1>1, InvOf
<1>5. /\ old \in WorkerState /\ old.id \in DOMAIN rows /\ old.rows \subseteq DOMAIN rows
      /\ old.pc \in Verifying /\ old.pc \in AtRow
  BY <1>3, <1>4 DEF ProcessOK, WorkerOK, AtRow, Verifying
<1>6. Unsealed(p, written, old.id)
  BY <1>4, <1>5 DEF ProcessOK, WorkerOK, Process
<1>7. /\ hash \in Hash /\ s \in SealState /\ FactsOK(s) /\ s.ended = changes /\ MatchOK(s)
      /\ s.process = p /\ s.db = d /\ s.id = old.id /\ s.tx = row.tx /\ s.hash = hash /\ s.match = old.match
  <2>1. old = worker[p] /\ row = Stored(p) /\ hash = HashOf(row, old) /\ s = SealRecord(p, hash) /\ d = DatabaseOf[p]
    BY <1>1
  <2> QED
    BY <1>3, <2>1, SealIsTyped
<1>8. row = rows[old.id]
  BY <1>1 DEF Stored
<1>9. events' = [events EXCEPT ![d] = after]
  BY <1>2, <1>3, <1>4
<1>10. /\ TableOK(d, after) /\ Keeps(rows, after) /\ AttemptsStay(rows, after) /\ DOMAIN after = DOMAIN rows
       /\ after[old.id].tx = row.tx /\ after[old.id].reference_model_hash = hash
       /\ \A i \in DOMAIN after : i # old.id => after[i].reference_model_hash = rows[i].reference_model_hash
  <2>1. PICK id : id = old.id /\ id \in DOMAIN rows /\ after = [rows EXCEPT ![id].reference_model_hash = hash]
    BY <1>2, <1>5
  <2> QED
    BY <1>4, <1>7, <1>8, <2>1, HashedRow
<1>11. GlobalOK'
  <2>1. seals' = seals \cup {s} /\ Unsealed(s.process, seals, s.id)
    BY <1>1, <1>2, <1>3, <1>6, <1>7
  <2>2. s.db = DatabaseOf[s.process] /\ s.id \in DOMAIN events[s.db] /\ events' = [events EXCEPT ![s.db] = after]
    BY <1>1, <1>4, <1>5, <1>7, <1>9
  <2>3. /\ TableOK(s.db, after) /\ Keeps(events[s.db], after) /\ DOMAIN after = DOMAIN events[s.db]
        /\ after[s.id].tx = s.tx /\ after[s.id].reference_model_hash = s.hash
        /\ \A i \in DOMAIN after : i # s.id => after[i].reference_model_hash = events[s.db][i].reference_model_hash
    BY <1>4, <1>7, <1>10
  <2> QED
    BY <1>3, <1>4, <1>7, <2>1, <2>2, <2>3, SealAdded
<1>12. \A q \in Process : q # p => SealsOfOthers(q, written, more)
  BY <1>2, <1>7 DEF SealsOfOthers
<1>13. results' \in [Scripted -> Seq(ResultState)] /\ \A q \in Scripted : q # p => results'[q] = results[q]
  BY <1>3 DEF Inv
<1>14. \A i : i # old.id /\ Unsealed(p, written, i) => Unsealed(p, more, i)
  BY <1>2, <1>7 DEF Unsealed
<1>15. CASE p \in Live
  <2>1. PICK w, ids : w = Visit(ids) /\ ids = old.rows
    OBVIOUS
  <2>2. worker' = [worker EXCEPT ![p] = w]
    BY <1>1, <1>3, <1>15, <2>1
  <2>3. ASSUME NEW i \in ids
        PROVE  /\ after[i].reference_model_verify_attempts < MAX_REFERENCE_MODEL_ATTEMPTS
               /\ Unsealed(p, more, i)
    <3>1. /\ i \in DOMAIN rows /\ i # old.id /\ Unsealed(p, written, i)
          /\ rows[i].reference_model_verify_attempts < MAX_REFERENCE_MODEL_ATTEMPTS
      BY <1>4, <1>5, <1>15, <2>1, <2>3 DEF ProcessOK, WorkerOK
    <3> QED
      BY <1>10, <1>14, <3>1 DEF AttemptsStay
  <2>4. ids \in SUBSET (DOMAIN after) /\ after \in Seq(EventRow)
    BY <1>5, <1>10, <2>1 DEF TableOK
  <2>5. ProcessOK(p, after, more, w)
    BY <1>15, <2>1, <2>3, <2>4, VisitOK
  <2>6. p \notin Scripted
    BY <1>15, ReferenceAssumption
  <2> QED
    BY <1>1, <1>3, <1>9, <1>10, <1>11, <1>12, <1>13, <2>2, <2>5, <2>6, StepOf
<1>16. CASE p \in Scripted
  <2>1. PICK w, res : w = [old EXCEPT !.pc = "sealed"] /\ res = results[p]
    OBVIOUS
  <2>2. p \notin Live /\ ScriptOK(p, rows, written, old, res)
    BY <1>1, <1>16, <2>1, InvOf
  <2>3. worker' = [worker EXCEPT ![p] = w]
    BY <1>1, <1>3, <1>4, <2>1, <2>2 DEF Goto
  <2>4. /\ w \in WorkerState /\ w.pc = "sealed" /\ w.id = old.id /\ w.item = old.item /\ w.rows = old.rows
        /\ w.match = old.match
    BY <1>5, <2>1 DEF WorkerState, AtRow, Screening, Verifying
  <2>5. ProcessOK(p, after, more, w)
    <3>1. w.id \in DOMAIN after /\ w.rows \subseteq DOMAIN after
      BY <1>5, <1>10, <2>4
    <3> QED
      BY <1>16, <2>4, <3>1, ScriptAtRow
  <2>6. Sealing(p, more, w.id) = {s} /\ \A i : i # old.id => Sealing(p, more, i) = Sealing(p, written, i)
    BY <1>2, <1>6, <1>7, <2>4 DEF Sealing, Unsealed
  <2>7. ASSUME NEW i \in DOMAIN res
        PROVE  ResultOK(p, after, more, w, i, res[i])
    <3>1. PICK result : result = res[i]
      OBVIOUS
    <3>2. ResultOK(p, rows, written, old, i, result)
      BY <2>2, <3>1, <2>7 DEF ScriptOK
    <3>3. result.id # old.id
      BY <1>5, <3>2 DEF ResultOK
    <3>4. result.id # 0 => result.id \in DOMAIN after /\ after[result.id].tx = result.tx
      BY <1>10, <3>2 DEF ResultOK, Keeps
    <3>5. written \subseteq more
      BY <1>2
    <3>6. ResultOK(p, after, more, w, i, result)
      BY <2>4, <2>6, <3>2, <3>3, <3>4, <3>5 DEF ResultOK
    <3> QED
      BY <3>1, <3>6
  <2>8. /\ res \in Seq(ResultState) /\ Len(res) <= Len(KNOWN_EVENTS) /\ Len(res) + 1 = w.item
        /\ \A i \in DOMAIN KNOWN_EVENTS : KNOWN_EVENTS[i] \in Logged
        /\ w.item <= Len(KNOWN_EVENTS) /\ after[w.id].tx = KNOWN_EVENTS[w.item]
    BY <1>3, <1>5, <1>8, <1>10, <2>2, <2>4 DEF ScriptOK
  <2>9. /\ w.match = TRUE => \E u \in Sealing(p, more, w.id) : u.match = TRUE
        /\ \A u \in Sealing(p, more, w.id) : w.match = u.match
    BY <1>7, <2>4, <2>6, Zenon
  <2>10. ScriptOK(p, after, more, w, res)
    BY <2>4, <2>7, <2>8, <2>9, Zenon DEF ScriptOK
  <2>11. results'[p] = res
    BY <1>3, <2>1
  <2> QED
    BY <1>1, <1>3, <1>9, <1>10, <1>11, <1>12, <1>13, <2>3, <2>5, <2>10, <2>11, StepOf
<1> QED
  BY <1>15, <1>16 DEF Process

-----------------------------------------------------------------------------
(* The theorems *)

LEMMA InitInv == Init => Inv
<1> SUFFICES ASSUME Init
             PROVE  Inv
  OBVIOUS
<1>1. /\ now = 1 /\ logs = <<>> /\ tookEffect = {} /\ changes = 0 /\ failures = 0 /\ seals = {}
      /\ token = [old |-> 1, was |-> None, new |-> 1, by |-> None, effective_at |-> 0]
      /\ events = [d \in Database |-> <<>>] /\ worker = [p \in Process |-> Idle]
      /\ results = [p \in Scripted |-> <<>>]
  BY DEF Init, INITIAL_MULTIPLIER
<1>2. TokenOK
  <2>1. now \in 1..MaxBlock /\ changes \in 0..now /\ token \in TokenState
    BY <1>1, ReferenceAssumption DEF TokenState
  <2>2. logs \in Seq(LogRecord) /\ DOMAIN logs = {}
    BY <1>1
  <2>3. token.old = 1 /\ token.new = 1 /\ token.was = None /\ token.by = None /\ token.effective_at = 0
    BY <1>1
  <2>4. UiBy(token, now) = None
    BY <2>3 DEF UiBy
  <2> QED
    BY <1>1, <2>1, <2>2, <2>3, <2>4 DEF TokenOK, Origin, INITIAL_MULTIPLIER
<1>3. failures \in 0..MaxFailures
  BY <1>1, ReferenceAssumption
<1>4. /\ <<>> \in Seq(EventRow) /\ <<>> \in Seq(ResultState) /\ Len(<<>>) = 0 /\ DOMAIN <<>> = {}
      /\ Len(KNOWN_EVENTS) \in Nat /\ \A d \in Database : MaxRows[d] \in Nat
  BY ReferenceAssumption
<1>5. /\ events \in [Database -> Seq(EventRow)] /\ worker \in [Process -> WorkerState]
      /\ results \in [Scripted -> Seq(ResultState)]
  BY <1>1, <1>4, IdleIsTyped
<1>6. \A d \in Database : events[d] = <<>> /\ TableOK(d, events[d])
  BY <1>1, <1>4 DEF TableOK
<1>7. HashesOK /\ SealsOK /\ QuietFactsSealAlike /\ MatchIsEarned /\ NobodySealsTwice
  BY <1>1, <1>4, <1>6 DEF HashesOK, SealsOK, QuietFactsSealAlike, MatchIsEarned, NobodySealsTwice
<1>8. PICK written, idle, none : written = seals /\ idle = Idle /\ none = <<>>
  OBVIOUS
<1>9. idle \in WorkerState /\ idle.pc = "idle" /\ idle.id = 0 /\ idle.rows = {} /\ idle.match = FALSE
  BY <1>8, IdleIsTyped DEF IdleFields
<1>10. ASSUME NEW p \in Process
       PROVE  ProcessOK(p, Table(p), seals, worker[p])
  <2>1. PICK rows : rows = Table(p)
    OBVIOUS
  <2>2. ProcessOK(p, rows, written, idle)
    BY <1>9, Resting
  <2> QED
    BY <1>1, <1>8, <2>1, <2>2
<1>11. ASSUME NEW p \in Scripted
       PROVE  ScriptOK(p, Table(p), seals, worker[p], results[p])
  <2>1. PICK rows : rows = Table(p)
    OBVIOUS
  <2>2. none \in Seq(ResultState) /\ Len(none) <= Len(KNOWN_EVENTS) /\ DOMAIN none = {}
    BY <1>4, <1>8
  <2>3. ScriptOK(p, rows, written, idle, none)
    BY <1>9, <2>2 DEF ScriptOK, AtRow, Screening, Verifying
  <2> QED
    BY <1>1, <1>8, <2>1, <2>3 DEF Process
<1> QED
  BY <1>2, <1>3, <1>5, <1>6, <1>7, <1>10, <1>11 DEF Inv, GlobalOK

LEMMA NothingHappens ==
  ASSUME Inv, UNCHANGED vars
  PROVE  Inv'
<1>1. /\ UNCHANGED external /\ UNCHANGED seals
      /\ events' = events /\ worker' = worker /\ results' = results /\ failures' = failures
  BY DEF vars
<1>2. GlobalOK'
  <2>1. /\ TokenOK' /\ failures' \in 0..MaxFailures
        /\ \A block : EventLog(block)' = EventLog(block)
        /\ now' = now /\ token' = token /\ changes' = changes /\ tookEffect' = tookEffect /\ Logged' = Logged
        /\ \A log : Coincides(log)' = Coincides(log)
    BY <1>1, ExternalStays DEF Inv, GlobalOK, TokenOK, UiBy
  <2>2. SealsOK' /\ HashesOK'
    BY <1>1, <2>1 DEF Inv, GlobalOK, SealsOK, HashesOK, FactsOK, PlaceOK, Answers, Ui
  <2>3. QuietFactsSealAlike' /\ MatchIsEarned' /\ NobodySealsTwice'
    BY <1>1, <2>1 DEF Inv, GlobalOK, QuietFactsSealAlike, MatchIsEarned, NobodySealsTwice
  <2>4. \A d \in Database : TableOK(d, events[d])'
    BY <1>1, <2>1 DEF Inv, GlobalOK, TableOK
  <2> QED
    BY <1>1, <2>1, <2>2, <2>3, <2>4 DEF Inv, GlobalOK
<1>3. ASSUME NEW p \in Process
      PROVE  ProcessOK(p, Table(p), seals, worker[p])'
  <2>1. PICK rows, written, w : rows = Table(p) /\ written = seals /\ w = worker[p]
    OBVIOUS
  <2>2. ProcessOK(p, rows, written, w)'
    BY <1>1, <2>1, InvOf, ProcessGoesOn
  <2>3. rows = Table(p)' /\ written = seals' /\ w = worker'[p]
    BY <1>1, <2>1 DEF Table
  <2> QED
    BY <2>2, <2>3 DEF ProcessOK, ReadOK, WorkerOK, Unsealed
<1>4. ASSUME NEW p \in Scripted
      PROVE  ScriptOK(p, Table(p), seals, worker[p], results[p])'
  BY <1>1 DEF Inv, ScriptOK, ResultOK, Sealing, external, Logged, Table
<1> QED
  BY <1>1, <1>2, <1>3, <1>4 DEF Inv

LEMMA StepOK ==
  ASSUME Inv, Next
  PROVE  Inv'
<1>1. CASE Block
  BY <1>1, BlockInv
<1>2. ASSUME NEW p \in Live, Loop(p)
      PROVE  Inv'
  BY <1>2, DetectInv, QueryInv, CheckNextInv, ReferencePhaseInv, LoopFailsInv DEF Loop
<1>3. ASSUME NEW p \in Scripted, Script(p)
      PROVE  Inv'
  BY <1>3, ScriptStartInv, ScriptInsertInv, ScriptLooksInv, ScriptChecksInv, ScriptGivesUpInv, ScriptFailsInv,
     ScriptReportsInv, ScriptExceptionInv, ScriptEndInv DEF Script
<1>4. ASSUME NEW p \in Process, Verify(p) \/ Dies(p)
      PROVE  Inv'
  BY <1>4, ReadEventInv, ReadUiInv, ReadNewInv, ReadEffectiveAtInv, JudgeInv, SealInv, DiesInv DEF Verify
<1> QED
  BY <1>1, <1>2, <1>3, <1>4 DEF Next

LEMMA InvHolds == Spec => []Inv
<1>1. Inv /\ [Next]_vars => Inv'
  BY StepOK, NothingHappens
<1> QED
  BY <1>1, InitInv, PTL DEF Spec

\* The types of the token, the tables, the processes and the counts of the bounds: a
\* row is one of the token's transactions, at a block of the past, and a process is
\* at a row that is there.
THEOREM TypeCorrect == Spec => []TypeOK
<1>1. Inv => TypeOK
  <2> SUFFICES ASSUME Inv
               PROVE  TypeOK
    OBVIOUS
  <2>1. /\ now \in 1..MaxBlock /\ token \in TokenState /\ logs \in Seq(LogRecord) /\ tookEffect \subseteq Logged
        /\ changes \in 0..MaxBlock /\ failures \in 0..MaxFailures
    BY ReferenceAssumption DEF Inv, GlobalOK, TokenOK
  <2>2. ASSUME NEW d \in Database
        PROVE  /\ Len(events[d]) <= MaxRows[d]
               /\ \A i \in DOMAIN events[d] :
                    LET row == events[d][i] IN
                    /\ row.id = i /\ row.tx \in Logged /\ row.block_number \in 1..now /\ row.status \in Status
                    /\ row.reference_model_verify_attempts \in 0..MAX_REFERENCE_MODEL_ATTEMPTS
    <3>1. PICK rows : rows = events[d]
      OBVIOUS
    <3>2. TableOK(d, rows)
      BY <3>1 DEF Inv, GlobalOK
    <3>3. ASSUME NEW i \in DOMAIN rows
          PROVE  /\ rows[i].id = i /\ rows[i].tx \in Logged /\ rows[i].block_number \in 1..now
                 /\ rows[i].status \in Status
                 /\ rows[i].reference_model_verify_attempts \in 0..MAX_REFERENCE_MODEL_ATTEMPTS
      <4>1. /\ rows[i].block_number \in 1..MaxBlock /\ rows[i].status \in Status
            /\ rows[i].reference_model_verify_attempts \in 0..MAX_REFERENCE_MODEL_ATTEMPTS
        BY <3>2, RowIsTyped DEF EventRow
      <4> QED
        BY <2>1, <3>2, <4>1 DEF TableOK
    <3> QED
      BY <3>1, <3>2, <3>3 DEF TableOK
  <2>3. ASSUME NEW p \in Process
        PROVE  worker[p].rows \subseteq DOMAIN Table(p) /\ worker[p].id \in 0..Len(Table(p))
    <3>1. PICK rows, written, w : rows = Table(p) /\ written = seals /\ w = worker[p]
      OBVIOUS
    <3>2. TableOK(DatabaseOf[p], rows) /\ WorkerOK(p, rows, written, w)
      BY <3>1, InvOf DEF ProcessOK
    <3>3. Len(rows) \in Nat /\ DOMAIN rows = 1..Len(rows)
      BY <3>2 DEF TableOK
    <3>4. w.rows \subseteq DOMAIN rows /\ w.id \in 0..Len(rows)
      BY <3>2, <3>3 DEF WorkerOK
    <3> QED
      BY <3>1, <3>4
  <2> QED
    BY <2>1, <2>2, <2>3 DEF TypeOK, TokenState
<1> QED
  BY <1>1, InvHolds, PTL

\* Verifications of the same transaction at the same block write the same hash if
\* they read the same status and the token's answers were the same during both: a
\* hash is of the facts, and of no row number, process, order of calls or earlier
\* failure.
THEOREM QuietFactsAgree == Spec => []QuietFactsSealAlike
<1>1. Inv => QuietFactsSealAlike
  BY DEF Inv, GlobalOK
<1> QED
  BY <1>1, InvHolds, PTL

\* However the token changes between the calls of a verification, a match is of the
\* row's own log, and an update whose effectiveAt was over at the end did take
\* effect or announced a multiplier that was the token's all the same: the initial
\* one, or that of another update that took effect.  Updates may announce any
\* multipliers, the same ones included.
THEOREM MatchesAreEarned == Spec => []MatchIsEarned
<1>1. Inv => MatchIsEarned
  BY DEF Inv, GlobalOK
<1> QED
  BY <1>1, InvHolds, PTL

\* No process verifies a row to the end twice, however many processes share the
\* table, whatever they write to it, and wherever they fail or die.
THEOREM SealedOnce == Spec => []NobodySealsTwice
<1>1. Inv => NobodySealsTwice
  BY DEF Inv, GlobalOK
<1> QED
  BY <1>1, InvHolds, PTL

\* A run of the backfill script, on a table that a live loop and other scripts write
\* too, reports every event of its list, each in its place, whatever failed before
\* it; a match that it reports is its own verification's, and a hash that it reports
\* was written to the row.
THEOREM ReportsAreTrue == Spec => []ReportIsTrue
<1>1. Inv => ReportIsTrue
  <2> SUFFICES ASSUME Inv, NEW p \in Scripted
               PROVE  /\ RunIsOver(p) => Len(results[p]) = Len(KNOWN_EVENTS)
                      /\ \A i \in DOMAIN results[p] :
                           LET result == results[p][i]
                               sealed == {s \in seals : s.db = DatabaseOf[p] /\ s.id = result.id}
                               own == {s \in sealed : s.process = p} IN
                           /\ result.tx = KNOWN_EVENTS[i]
                           /\ \A s \in sealed : s.tx = result.tx
                           /\ result.hash # None => \E s \in sealed : s.hash = result.hash
                           /\ result.match = TRUE => \E s \in own : s.match
                           /\ result.status # "exception" => \A s \in own : result.match = s.match
    BY DEF ReportIsTrue
  <2>1. PICK rows, old, written, res : rows = Table(p) /\ old = worker[p] /\ written = seals /\ res = results[p]
    OBVIOUS
  <2>2. /\ ScriptOK(p, rows, written, old, res) /\ old \in WorkerState
        /\ rows = events[DatabaseOf[p]] /\ SealsOK
    BY <2>1, InvOf DEF Process, ProcessOK, WorkerOK, GlobalOK
  <2>3. RunIsOver(p) => Len(res) = Len(KNOWN_EVENTS)
    <3>1. Len(res) \in Nat /\ Len(KNOWN_EVENTS) \in Nat /\ old.item \in Nat /\ Len(res) <= Len(KNOWN_EVENTS)
      BY <2>2, ReferenceAssumption DEF ScriptOK, WorkerState
    <3>2. RunIsOver(p) => Len(res) + 1 = old.item /\ old.item > Len(KNOWN_EVENTS)
      BY <2>1, <2>2 DEF RunIsOver, ScriptOK
    <3> QED
      BY <3>1, <3>2
  <2>4. ASSUME NEW i \in DOMAIN results[p]
        PROVE  LET result == results[p][i]
                   sealed == {s \in seals : s.db = DatabaseOf[p] /\ s.id = result.id}
                   own == {s \in sealed : s.process = p} IN
               /\ result.tx = KNOWN_EVENTS[i]
               /\ \A s \in sealed : s.tx = result.tx
               /\ result.hash # None => \E s \in sealed : s.hash = result.hash
               /\ result.match = TRUE => \E s \in own : s.match
               /\ result.status # "exception" => \A s \in own : result.match = s.match
    <3> DEFINE result == results[p][i]
               sealed == {s \in seals : s.db = DatabaseOf[p] /\ s.id = result.id}
               own == {s \in sealed : s.process = p}
    <3>1. i \in DOMAIN res /\ result = res[i]
      BY <2>1, <2>4
    <3>2. \A s : s \in sealed <=> s \in seals /\ s.db = DatabaseOf[p] /\ s.id = result.id
      OBVIOUS
    <3>3. \A s : s \in own <=> s \in sealed /\ s.process = p
      OBVIOUS
    <3> HIDE DEF result, sealed, own
    <3>4. ResultOK(p, rows, written, old, i, result)
      BY <2>2, <3>1 DEF ScriptOK
    <3>5. \A s : s \in Sealing(p, written, result.id) <=> s \in own
      BY <2>1, <2>2, <3>2, <3>3 DEF Sealing, SealsOK, PlaceOK
    <3>6. ASSUME NEW s \in sealed
          PROVE  s.tx = result.tx
      <4>1. s \in seals /\ PlaceOK(s) /\ s.id = result.id /\ s.db = DatabaseOf[p]
        BY <2>2, <3>2, <3>6 DEF SealsOK
      <4>2. result.id \in DOMAIN rows /\ rows[result.id].tx = s.tx /\ result.id # 0
        BY <2>2, <4>1, InvOf DEF PlaceOK, TableOK, Process
      <4> QED
        BY <3>4, <4>2 DEF ResultOK
    <3>7. result.tx = KNOWN_EVENTS[i] /\ (result.hash # None => \E s \in sealed : s.hash = result.hash)
      BY <2>1, <3>2, <3>4 DEF ResultOK
    <3>8. /\ result.match = TRUE => \E s \in own : s.match
          /\ result.status # "exception" => \A s \in own : result.match = s.match
      <4>1. /\ result.match = TRUE => \E s \in Sealing(p, written, result.id) : s.match = TRUE
            /\ result.status # "exception" => \A s \in Sealing(p, written, result.id) : result.match = s.match
        BY <3>4, Zenon DEF ResultOK
      <4> QED
        BY <3>5, <4>1, Zenon
    <3> QED
      BY <3>6, <3>7, <3>8, Zenon DEF result, sealed, own
  <2>5. RunIsOver(p) => Len(results[p]) = Len(KNOWN_EVENTS)
    BY <2>1, <2>3
  <2> QED
    BY <2>4, <2>5, Zenon
<1> QED
  BY <1>1, InvHolds, PTL
=============================================================================
