-------------------------- MODULE EventPipeline_proofs --------------------------
(***************************************************************************)
(* Theorems about EventPipeline, for any transactions, any feed, any       *)
(* number of rows, blocks and failures.                                    *)
(***************************************************************************)
EXTENDS EventPipeline, FiniteSetTheorems, TLAPS

False == 1..MaxBlock   \* blocks at which false is written

-----------------------------------------------------------------------------
(* What a write does to the table *)

LEMMA RowIsTyped ==
  ASSUME TypeOK, NEW i \in DOMAIN events
  PROVE  /\ i \in 1..Len(events) /\ i \in 1..MaxRows
         /\ events[i] \in EventRow /\ events[i].id = i
         /\ falses[i] \in Seq(False)
<1>1. /\ events \in Seq(EventRow) /\ Len(events) <= MaxRows /\ events[i].id = i
      /\ falses \in Seq(Seq(False)) /\ Len(falses) = Len(events)
  BY DEF TypeOK, False
<1>2. i \in 1..Len(events) /\ MaxRows \in Nat
  BY <1>1, PipelineAssumption
<1> QED
  BY <1>1, <1>2

LEMMA InsertWrites ==
  ASSUME TypeOK, Len(events) < MaxRows, NEW tx \in Tx, NEW block \in 1..MaxBlock,
         NEW source \in {"live_detection", "historical_backfill"}, Insert(tx, block, source)
  PROVE  /\ events' \in Seq(EventRow) /\ Len(events') = Len(events) + 1
         /\ falses' \in Seq(Seq(False)) /\ Len(falses') = Len(events')
         /\ DOMAIN events \subseteq DOMAIN events'
         /\ \A i \in DOMAIN events : events'[i] = events[i] /\ falses'[i] = falses[i]
         /\ \A i \in DOMAIN events' \ DOMAIN events :
              events'[i] = NewRow(tx, block, source) /\ falses'[i] = <<>> /\ i = Len(events) + 1
<1>1. /\ events \in Seq(EventRow) /\ falses \in Seq(Seq(False)) /\ Len(falses) = Len(events)
  BY DEF TypeOK, False
<1>2. Len(events) + 1 \in 1..MaxRows
  BY <1>1, PipelineAssumption
<1>3. NewRow(tx, block, source) \in EventRow
  BY <1>2 DEF NewRow, EventRow, Status, PipelineAssumption, MAX_REFERENCE_MODEL_ATTEMPTS
<1>4. events' = Append(events, NewRow(tx, block, source)) /\ falses' = Append(falses, <<>>)
  BY DEF Insert
<1>5. <<>> \in Seq(False)
  OBVIOUS
<1>6. /\ events' \in Seq(EventRow) /\ Len(events') = Len(events) + 1
      /\ \A i \in 1..Len(events) : events'[i] = events[i]
      /\ events'[Len(events) + 1] = NewRow(tx, block, source)
  BY <1>1, <1>3, <1>4
<1>7. /\ falses' \in Seq(Seq(False)) /\ Len(falses') = Len(events) + 1
      /\ \A i \in 1..Len(events) : falses'[i] = falses[i]
      /\ falses'[Len(events) + 1] = <<>>
  BY <1>1, <1>4, <1>5
<1>8. /\ DOMAIN events = 1..Len(events) /\ DOMAIN events' = 1..(Len(events) + 1)
      /\ Len(events) \in Nat
  BY <1>1, <1>6
<1> QED
  BY <1>6, <1>7, <1>8

LEMMA UpdateWrites ==
  ASSUME TypeOK, NEW id \in DOMAIN events, NEW row \in EventRow, Update(id, row)
  PROVE  /\ events' \in Seq(EventRow) /\ Len(events') = Len(events)
         /\ DOMAIN events' = DOMAIN events
         /\ \A i \in DOMAIN events : events'[i] = IF i = id THEN row ELSE events[i]
<1>1. events \in Seq(EventRow)
  BY DEF TypeOK
<1> QED
  BY <1>1 DEF Update

LEMMA AnsweredRowIsTyped ==
  ASSUME NEW row \in EventRow, NEW status \in Status, NEW count \in Nat, NEW block \in 1..MaxBlock
  PROVE  [row EXCEPT !.status = status, !.filter_check_count = count, !.last_checked_block = block] \in EventRow
BY DEF EventRow

\* The row that a filter check writes.
AnsweredRow(row, answer, block) ==
  [events[row.id] EXCEPT !.status = StatusAfter(row, answer),
                         !.filter_check_count = @ + 1,
                         !.last_checked_block = block]

LEMMA AnsweredRowFields ==
  ASSUME TypeOK, NEW row, row.id \in DOMAIN events, NEW answer \in BOOLEAN, NEW block \in 1..MaxBlock
  PROVE  LET old == events[row.id]
             new == AnsweredRow(row, answer, block)
         IN  /\ new \in EventRow
             /\ new.id = row.id /\ new.tx = old.tx
             /\ new.status = StatusAfter(row, answer)
             /\ new.filter_check_count = old.filter_check_count + 1
             /\ new.last_checked_block = block
             /\ new.reference_model_hash = old.reference_model_hash
             /\ new.reference_model_verify_attempts = old.reference_model_verify_attempts
<1>1. events[row.id] \in EventRow /\ events[row.id].id = row.id
  BY RowIsTyped
<1>2. StatusAfter(row, answer) \in Status
  BY DEF StatusAfter, Status
<1>3. events[row.id].filter_check_count + 1 \in Nat
  BY <1>1 DEF EventRow
<1>4. AnsweredRow(row, answer, block) \in EventRow
  BY <1>1, <1>2, <1>3, AnsweredRowIsTyped DEF AnsweredRow
<1> QED
  BY <1>1, <1>4 DEF AnsweredRow, EventRow

\* A filter check's write: the status from the snapshot, the count from the row.
LEMMA AnswerWrites ==
  ASSUME TypeOK, NEW row, row.id \in DOMAIN events, NEW answer \in BOOLEAN, NEW block \in 1..MaxBlock,
         WriteAnswer(row, answer, block)
  PROVE  /\ events' \in Seq(EventRow) /\ Len(events') = Len(events)
         /\ DOMAIN events' = DOMAIN events
         /\ \A i \in DOMAIN events :
              events'[i] = IF i = row.id THEN AnsweredRow(row, answer, block) ELSE events[i]
         /\ falses' \in Seq(Seq(False)) /\ Len(falses') = Len(events')
         /\ \A i \in DOMAIN events :
              falses'[i] = IF i = row.id /\ ~answer THEN Append(falses[i], block) ELSE falses[i]
<1>1. AnsweredRow(row, answer, block) \in EventRow /\ falses[row.id] \in Seq(False)
  BY RowIsTyped, AnsweredRowFields
<1>2. /\ Update(row.id, AnsweredRow(row, answer, block))
      /\ falses' = IF answer THEN falses ELSE [falses EXCEPT ![row.id] = Append(@, block)]
  BY DEF WriteAnswer, AnsweredRow
<1>3. /\ events' \in Seq(EventRow) /\ Len(events') = Len(events)
      /\ DOMAIN events' = DOMAIN events
      /\ \A i \in DOMAIN events :
           events'[i] = IF i = row.id THEN AnsweredRow(row, answer, block) ELSE events[i]
  BY <1>1, <1>2, UpdateWrites
<1>4. /\ falses \in Seq(Seq(False)) /\ Len(falses) = Len(events) /\ events \in Seq(EventRow)
  BY DEF TypeOK, False
<1>5. Append(falses[row.id], block) \in Seq(False)
  BY <1>1 DEF False
<1>6. /\ falses' \in Seq(Seq(False)) /\ Len(falses') = Len(events')
      /\ \A i \in DOMAIN events :
           falses'[i] = IF i = row.id /\ ~answer THEN Append(falses[i], block) ELSE falses[i]
  BY <1>2, <1>3, <1>4, <1>5
<1> QED
  BY <1>3, <1>6

-----------------------------------------------------------------------------
(* The inductive invariant of the types *)

\* A message is delivered only when the table has room for its candidates, and
\* they are inserted under its block.
FeedOK ==
  /\ Len(events) + Cardinality(inbox) <= MaxRows
  /\ inbox # {} => current_block # 0

\* The rows a tick has read are of the table, and each is visited once, so a row's
\* failed verifications are counted up to the limit that its snapshot was below.
LiveOK ==
  /\ live.pc \in {"filter", "answered"} => live.block # 0
  /\ live.pc = "verifying" => live.read \in Status
  /\ \A row \in live.todo : row.id \in DOMAIN events /\ row.tx = events[row.id].tx
  /\ \A row, other \in live.todo : row.id = other.id => row = other
  /\ live.pc \in {"model", "verifying"} =>
       \A row \in live.todo : events[row.id].reference_model_verify_attempts < MAX_REFERENCE_MODEL_ATTEMPTS

\* So is the row of a backfill run, from its snapshot to its write.
ReplayOK ==
  /\ replay.pc # "none" => replay.id \in DOMAIN events
  /\ replay.pc \in {"block", "check", "answered"} =>
       replay.row \in EventRow /\ replay.row.id = replay.id /\ replay.row.tx = events[replay.id].tx
  /\ replay.pc \in {"check", "answered"} => replay.block # 0
  /\ replay.pc = "verifying" => replay.read \in Status

Inv == TypeOK /\ FeedOK /\ LiveOK /\ ReplayOK

\* What every step does to the table: rows are added, never removed, and keep
\* their id and transaction; false answers are added, never taken back.
TableGoesOn ==
  /\ events' \in Seq(EventRow) /\ Len(events') <= MaxRows
  /\ \A i \in DOMAIN events' : events'[i].id = i
  /\ falses' \in Seq(Seq(False)) /\ Len(falses') = Len(events')
  /\ DOMAIN events \subseteq DOMAIN events'
  /\ \A i \in DOMAIN events : events'[i].tx = events[i].tx /\ Len(falses'[i]) >= Len(falses[i])

AttemptsKept ==
  \A i \in DOMAIN events :
    events'[i].reference_model_verify_attempts = events[i].reference_model_verify_attempts

LEMMA UnchangedGoesOn ==
  ASSUME TypeOK, UNCHANGED <<events, falses>>
  PROVE  TableGoesOn /\ AttemptsKept
<1>1. \A i \in DOMAIN events : Len(falses[i]) >= Len(falses[i])
  BY RowIsTyped
<1> QED
  BY <1>1 DEF TypeOK, TableGoesOn, AttemptsKept, False

LEMMA InsertGoesOn ==
  ASSUME TypeOK, Len(events) < MaxRows, NEW tx \in Tx, NEW block \in 1..MaxBlock,
         NEW source \in {"live_detection", "historical_backfill"}, Insert(tx, block, source)
  PROVE  TableGoesOn /\ AttemptsKept /\ Len(events') = Len(events) + 1
<1>1. /\ events' \in Seq(EventRow) /\ Len(events') = Len(events) + 1
      /\ falses' \in Seq(Seq(False)) /\ Len(falses') = Len(events')
      /\ DOMAIN events \subseteq DOMAIN events'
      /\ \A i \in DOMAIN events : events'[i] = events[i] /\ falses'[i] = falses[i]
      /\ \A i \in DOMAIN events' \ DOMAIN events : events'[i].id = i
  BY InsertWrites DEF NewRow
<1>2. Len(events') <= MaxRows
  BY <1>1, PipelineAssumption DEF TypeOK
<1>3. \A i \in DOMAIN events : events[i].id = i /\ Len(falses[i]) >= Len(falses[i])
  BY RowIsTyped
<1> QED
  BY <1>1, <1>2, <1>3 DEF TableGoesOn, AttemptsKept

LEMMA UpdateGoesOn ==
  ASSUME TypeOK, NEW id \in DOMAIN events, NEW row \in EventRow, row.id = id, row.tx = events[id].tx,
         Update(id, row), falses' = falses
  PROVE  TableGoesOn
<1>1. /\ events' \in Seq(EventRow) /\ Len(events') = Len(events)
      /\ DOMAIN events' = DOMAIN events
      /\ \A i \in DOMAIN events : events'[i] = IF i = id THEN row ELSE events[i]
  BY UpdateWrites
<1>2. \A i \in DOMAIN events : events[i].id = i /\ Len(falses[i]) >= Len(falses[i])
  BY RowIsTyped
<1> QED
  BY <1>1, <1>2 DEF TypeOK, TableGoesOn, False

LEMMA AnswerGoesOn ==
  ASSUME TypeOK, NEW row, row.id \in DOMAIN events, NEW answer \in BOOLEAN, NEW block \in 1..MaxBlock,
         WriteAnswer(row, answer, block)
  PROVE  TableGoesOn /\ AttemptsKept /\ Len(events') = Len(events)
<1>1. /\ events' \in Seq(EventRow) /\ Len(events') = Len(events)
      /\ DOMAIN events' = DOMAIN events
      /\ \A i \in DOMAIN events :
           events'[i] = IF i = row.id THEN AnsweredRow(row, answer, block) ELSE events[i]
      /\ falses' \in Seq(Seq(False)) /\ Len(falses') = Len(events')
  BY AnswerWrites
<1>2. \A i \in DOMAIN events :
        falses'[i] = IF i = row.id /\ ~answer THEN Append(falses[i], block) ELSE falses[i]
  BY AnswerWrites
<1>3. \A i \in DOMAIN events : events[i].id = i /\ falses[i] \in Seq(False)
  BY RowIsTyped
<1>4. \A i \in DOMAIN events :
        /\ events'[i].id = i /\ events'[i].tx = events[i].tx
        /\ events'[i].reference_model_verify_attempts = events[i].reference_model_verify_attempts
  <2>1. LET old == events[row.id]
            new == AnsweredRow(row, answer, block)
        IN  new.id = row.id /\ new.tx = old.tx
            /\ new.reference_model_verify_attempts = old.reference_model_verify_attempts
    BY AnsweredRowFields
  <2> QED
    BY <1>1, <1>3, <2>1
<1>5. ASSUME NEW i \in DOMAIN events
      PROVE  Len(falses'[i]) >= Len(falses[i])
  <2>1. Len(falses[i]) \in Nat /\ Len(Append(falses[i], block)) = Len(falses[i]) + 1
    BY <1>3
  <2>2. falses'[i] = falses[i] \/ falses'[i] = Append(falses[i], block)
    BY <1>2, Zenon
  <2> QED
    BY <2>1, <2>2
<1> QED
  BY <1>1, <1>4, <1>5 DEF TypeOK, TableGoesOn, AttemptsKept

\* The L1 confirmation and the seal of a row.
LEMMA ConfirmGoesOn ==
  ASSUME TypeOK, NEW row, row.id \in DOMAIN events, L1Confirm(row), falses' = falses
  PROVE  TableGoesOn /\ AttemptsKept /\ Len(events') = Len(events)
<1>1. CASE row.tx \in logged
  <2> DEFINE new == [events[row.id] EXCEPT !.status = "l1_confirmed"]
  <2>1. events[row.id] \in EventRow /\ events[row.id].id = row.id
    BY RowIsTyped
  <2>2. /\ new \in EventRow /\ new.id = row.id /\ new.tx = events[row.id].tx
        /\ new.reference_model_verify_attempts = events[row.id].reference_model_verify_attempts
    BY <2>1 DEF EventRow, Status
  <2>3. Update(row.id, new)
    BY <1>1 DEF L1Confirm
  <2> HIDE DEF new
  <2> QED
    BY <2>2, <2>3, UpdateGoesOn, UpdateWrites DEF AttemptsKept
<1>2. CASE row.tx \notin logged
  BY <1>2, UnchangedGoesOn DEF L1Confirm
<1> QED
  BY <1>1, <1>2

LEMMA SealGoesOn ==
  ASSUME TypeOK, NEW id \in DOMAIN events, NEW status \in Status, SealHash(id, status), falses' = falses
  PROVE  TableGoesOn /\ AttemptsKept /\ Len(events') = Len(events)
<1> DEFINE new == [events[id] EXCEPT !.reference_model_hash = status]
<1>1. events[id] \in EventRow /\ events[id].id = id
  BY RowIsTyped
<1>2. /\ new \in EventRow /\ new.id = id /\ new.tx = events[id].tx
      /\ new.reference_model_verify_attempts = events[id].reference_model_verify_attempts
  BY <1>1 DEF EventRow
<1>3. Update(id, new)
  BY DEF SealHash
<1> HIDE DEF new
<1> QED
  BY <1>2, <1>3, UpdateGoesOn, UpdateWrites DEF AttemptsKept

ReadStep ==
  \/ Feed \/ Wake \/ NextPhase \/ LiveDies \/ Restart
  \/ \E row \in live.todo : LiveSkip(row) \/ LiveAsk(row) \/ LiveReread(row)
  \/ ReplayLook \/ ReplayBlock \/ ReplayDecided \/ ReplayAsk \/ ReplayReread \/ ReplayCallFails
  \/ NewBlock \/ (\E tx \in Tx : ListFiltered(tx) \/ LogAppears(tx))

LEMMA ReadStepReads == ReadStep => UNCHANGED <<events, falses>>
BY DEF ReadStep, Feed, FeedMessage, Wake, NextPhase, LiveDies, Restart, LiveSkip, LiveAsk, LiveReread, others,
       liveSide, chain, ReplayLook, ReplayBlock, ReplayDecided, ReplayAsk, ReplayReread, ReplayCallFails,
       NewBlock, ListFiltered, LogAppears

LEMMA RoomToInsert ==
  ASSUME Inv
  PROVE  /\ IsFiniteSet(inbox) /\ Cardinality(inbox) \in Nat /\ Len(events) \in Nat
         /\ inbox # {} => Len(events) < MaxRows
         /\ \A tx \in inbox : Cardinality(inbox \ {tx}) = Cardinality(inbox) - 1
<1>1. IsFiniteSet(inbox)
  BY FS_Subset, PipelineAssumption DEF Inv, TypeOK
<1>2. Cardinality(inbox) \in Nat /\ (inbox # {} => Cardinality(inbox) # 0)
  BY <1>1, FS_CardinalityType, FS_EmptySet
<1>3. Len(events) \in Nat
  BY DEF Inv, TypeOK
<1>4. \A tx \in inbox : Cardinality(inbox \ {tx}) = Cardinality(inbox) - 1
  BY <1>1, FS_RemoveElement
<1> QED
  BY <1>1, <1>2, <1>3, <1>4, PipelineAssumption DEF Inv, FeedOK

LEMMA LiveWritesTable ==
  ASSUME Inv, NEW row \in live.todo, LiveWrite(row) \/ LiveL1(row) \/ LiveSeal(row)
  PROVE  TableGoesOn /\ AttemptsKept /\ Len(events') = Len(events)
<1>1. row.id \in DOMAIN events
  BY DEF Inv, LiveOK
<1>2. CASE LiveWrite(row)
  <2>1. live.answer \in BOOLEAN /\ live.block \in 1..MaxBlock
    BY <1>2 DEF LiveWrite, Visiting, Inv, TypeOK, LiveState, LiveOK
  <2> QED
    BY <1>1, <1>2, <2>1, AnswerGoesOn DEF LiveWrite, Inv
<1>3. CASE LiveL1(row)
  BY <1>1, <1>3, ConfirmGoesOn DEF LiveL1, Inv
<1>4. CASE LiveSeal(row)
  <2>1. live.read \in Status
    BY <1>4 DEF LiveSeal, Visiting, Inv, LiveOK
  <2> QED
    BY <1>1, <1>4, <2>1, SealGoesOn DEF LiveSeal, Inv
<1> QED
  BY <1>2, <1>3, <1>4

\* A failed verification is counted once, and only on the row that failed.
LEMMA LiveCallFailsTable ==
  ASSUME Inv, NEW row \in live.todo, LiveCallFails(row)
  PROVE  /\ TableGoesOn /\ Len(events') = Len(events)
         /\ \A i \in DOMAIN events :
              i # row.id =>
                events'[i].reference_model_verify_attempts = events[i].reference_model_verify_attempts
<1>1. row.id \in DOMAIN events /\ falses' = falses
  BY DEF Inv, LiveOK, LiveCallFails
<1>2. CASE UNCHANGED events
  BY <1>1, <1>2, UnchangedGoesOn DEF Inv, AttemptsKept
<1>3. CASE ~UNCHANGED events
  <2> DEFINE new == [events[row.id] EXCEPT !.reference_model_verify_attempts = @ + 1]
  <2>1. Visiting("verifying", row) /\ Update(row.id, new)
    BY <1>3 DEF LiveCallFails
  <2>2. events[row.id] \in EventRow /\ events[row.id].id = row.id
    BY <1>1, RowIsTyped DEF Inv
  <2>3. events[row.id].reference_model_verify_attempts < MAX_REFERENCE_MODEL_ATTEMPTS
    BY <2>1 DEF Visiting, Inv, LiveOK
  <2>4. new \in EventRow /\ new.id = row.id /\ new.tx = events[row.id].tx
    BY <2>2, <2>3 DEF EventRow, MAX_REFERENCE_MODEL_ATTEMPTS
  <2> HIDE DEF new
  <2> QED
    BY <1>1, <2>1, <2>4, UpdateGoesOn, UpdateWrites DEF Inv
<1> QED
  BY <1>2, <1>3

LEMMA ReplayWritesTable ==
  ASSUME Inv, ReplaySetSource \/ ReplayWrite \/ ReplayL1 \/ ReplaySeal
  PROVE  TableGoesOn /\ AttemptsKept /\ Len(events') = Len(events)
<1>1. replay.id \in DOMAIN events
  BY DEF ReplaySetSource, ReplayWrite, ReplayL1, ReplaySeal, Inv, ReplayOK
<1>2. events[replay.id] \in EventRow /\ events[replay.id].id = replay.id
  BY <1>1, RowIsTyped DEF Inv
<1>3. CASE ReplaySetSource
  <2> DEFINE new == [events[replay.id] EXCEPT !.source = "historical_backfill"]
  <2>1. Update(replay.id, new) /\ falses' = falses
    BY <1>3 DEF ReplaySetSource, Stored
  <2>2. /\ new \in EventRow /\ new.id = replay.id /\ new.tx = events[replay.id].tx
        /\ new.reference_model_verify_attempts = events[replay.id].reference_model_verify_attempts
    BY <1>2 DEF EventRow
  <2> HIDE DEF new
  <2> QED
    BY <1>1, <2>1, <2>2, UpdateGoesOn, UpdateWrites DEF Inv, AttemptsKept
<1>4. CASE ReplayWrite
  <2>1. replay.answer \in BOOLEAN /\ replay.block \in 1..MaxBlock /\ replay.row.id = replay.id
    BY <1>4 DEF ReplayWrite, Inv, TypeOK, ReplayState, ReplayOK
  <2>2. WriteAnswer(replay.row, replay.answer, replay.block)
    BY <1>4 DEF ReplayWrite
  <2> QED
    BY <1>1, <2>1, <2>2, AnswerGoesOn DEF Inv
<1>5. CASE ReplayL1
  <2>1. falses' = falses /\ (UNCHANGED events \/ L1Confirm(events[replay.id]))
    BY <1>5 DEF ReplayL1, Stored
  <2> QED
    BY <1>1, <1>2, <2>1, ConfirmGoesOn, UnchangedGoesOn DEF Inv
<1>6. CASE ReplaySeal
  <2>1. replay.read \in Status /\ SealHash(replay.id, replay.read) /\ falses' = falses
    BY <1>6 DEF ReplaySeal, Inv, ReplayOK
  <2> QED
    BY <1>1, <2>1, SealGoesOn DEF Inv
<1> QED
  BY <1>3, <1>4, <1>5, <1>6

InsertStep == FeedInserts \/ \E tx \in BackfillTx : ReplayInsert(tx)

LEMMA InsertStepTable ==
  ASSUME Inv, InsertStep
  PROVE  TableGoesOn /\ AttemptsKept /\ Len(events') = Len(events) + 1
<1>1. CASE FeedInserts
  <2> PICK tx \in Tx : FeedInsert(tx)
    BY <1>1 DEF FeedInserts
  <2>1. Len(events) < MaxRows
    BY RoomToInsert DEF FeedInsert
  <2>2. current_block \in 1..MaxBlock
    BY DEF FeedInsert, Inv, TypeOK, FeedOK
  <2> QED
    BY <2>1, <2>2, InsertGoesOn DEF FeedInsert, Inv
<1>2. ASSUME NEW tx \in BackfillTx, ReplayInsert(tx)
      PROVE  TableGoesOn /\ AttemptsKept /\ Len(events') = Len(events) + 1
  <2>1. Len(events) < MaxRows
    BY <1>2, RoomToInsert, PipelineAssumption DEF ReplayInsert
  <2>2. BLOCK_NUMBER \in 1..MaxBlock /\ tx \in Tx
    BY PipelineAssumption DEF BLOCK_NUMBER
  <2> QED
    BY <1>2, <2>1, <2>2, InsertGoesOn DEF ReplayInsert, Inv
<1> QED
  BY <1>1, <1>2 DEF InsertStep

\* The four ways a step can treat the table.
LEMMA NextSplits ==
  ASSUME Next
  PROVE  \/ ReadStep \/ InsertStep \/ LiveCallsFail
         \/ \E row \in live.todo : LiveWrite(row) \/ LiveL1(row) \/ LiveSeal(row)
         \/ ReplaySetSource \/ ReplayWrite \/ ReplayL1 \/ ReplaySeal
BY DEF Next, LiveStep, ReplayStep, ReadStep, InsertStep

LEMMA NextTable ==
  ASSUME Inv, Next
  PROVE  /\ TableGoesOn
         /\ LiveCallsFail \/ AttemptsKept
         /\ InsertStep \/ Len(events') = Len(events)
<1>1. CASE ReadStep
  BY <1>1, ReadStepReads, UnchangedGoesOn DEF Inv
<1>2. CASE ~ReadStep
  BY <1>2, NextSplits, LiveWritesTable, LiveCallFailsTable, ReplayWritesTable, InsertStepTable DEF LiveCallsFail
<1> QED
  BY <1>1, <1>2

LEMMA NextFeed ==
  ASSUME Inv, Next
  PROVE  FeedOK' /\ current_block' \in 0..MaxBlock /\ inbox' \subseteq Tx
<1>1. /\ current_block \in 0..MaxBlock /\ inbox \subseteq Tx /\ 0 \in 0..MaxBlock
      /\ FeedOK /\ IsFiniteSet(inbox) /\ Cardinality(inbox) \in Nat /\ Len(events) \in Nat
  BY RoomToInsert, PipelineAssumption DEF Inv, TypeOK
<1>2. CASE Feed
  <2> PICK seq \in 1..MaxBlock : FeedMessage(seq)
    BY <1>2 DEF Feed
  <2>1. events' = events /\ current_block' = seq /\ inbox' = Carried(seq) /\ WithinBounds(seq)
    BY DEF FeedMessage
  <2> QED
    BY <2>1, PipelineAssumption DEF WithinBounds, FeedOK, Carried
<1>3. CASE FeedInserts
  <2> PICK tx \in Tx : FeedInsert(tx)
    BY <1>3 DEF FeedInserts
  <2>1. tx \in inbox /\ inbox' = inbox \ {tx} /\ current_block' = current_block
    BY DEF FeedInsert
  <2>2. Len(events') = Len(events) + 1
    BY <1>3, InsertStepTable DEF InsertStep
  <2>3. Cardinality(inbox') = Cardinality(inbox) - 1
    BY <2>1, RoomToInsert
  <2> QED
    BY <1>1, <2>1, <2>2, <2>3, PipelineAssumption DEF FeedOK
<1>4. ASSUME NEW tx \in BackfillTx, ReplayInsert(tx)
      PROVE  FeedOK' /\ current_block' \in 0..MaxBlock /\ inbox' \subseteq Tx
  <2>1. /\ current_block' = current_block /\ inbox' = inbox
        /\ Len(events) + Cardinality(inbox) < MaxRows
    BY <1>4 DEF ReplayInsert, liveSide
  <2>2. Len(events') = Len(events) + 1
    BY <1>4, InsertStepTable DEF InsertStep
  <2> QED
    BY <1>1, <2>1, <2>2, PipelineAssumption DEF FeedOK
<1>5. CASE LiveDies
  <2>1. current_block' = 0 /\ inbox' = {} /\ events' = events
    BY <1>5 DEF LiveDies
  <2>2. Cardinality(inbox') = 0
    BY <2>1, FS_EmptySet
  <2> QED
    BY <1>1, <2>1, <2>2, PipelineAssumption DEF FeedOK
<1>6. CASE ~Feed /\ ~InsertStep /\ ~LiveDies
  <2>1. current_block' = current_block /\ inbox' = inbox
    BY <1>6 DEF Next, InsertStep, LiveStep, LiveCallsFail, ReplayStep, Wake, NextPhase, LiveSkip, LiveAsk, LiveWrite,
       LiveL1, LiveReread, LiveSeal, LiveCallFails, Restart, ReplaySetSource, ReplayLook, ReplayBlock,
       ReplayDecided, ReplayAsk, ReplayWrite, ReplayL1, ReplayReread, ReplaySeal, ReplayCallFails, NewBlock,
       ListFiltered, LogAppears, others, liveSide
  <2>2. Len(events') = Len(events)
    BY <1>6, NextTable
  <2> QED
    BY <1>1, <2>1, <2>2 DEF FeedOK
<1> QED
  BY <1>2, <1>3, <1>4, <1>5, <1>6 DEF InsertStep

LEMMA SelectedRows ==
  ASSUME TypeOK, NEW status
  PROVE  /\ Select(status) \subseteq EventRow
         /\ \A row \in Select(status) : row.id \in DOMAIN events /\ row = events[row.id]
BY RowIsTyped DEF Select, Rows

LEMMA LoopAtRest ==
  /\ Down \in LiveState /\ Down.pc = "down" /\ Down.todo = {}
  /\ Asleep \in LiveState /\ Asleep.pc = "asleep" /\ Asleep.todo = {}
<1>1. Down \in LiveState /\ Down.pc = "down" /\ Down.todo = {}
  BY PipelineAssumption DEF Down, LiveState
<1> QED
  BY <1>1 DEF Asleep, LiveState

\* What a step of the loop does to its own state.
LEMMA LiveSteps ==
  ASSUME Inv, TableGoesOn, AttemptsKept, LiveStep
  PROVE  live' \in LiveState /\ LiveOK'
<1>1. live \in LiveState /\ LiveOK /\ current_block \in 0..MaxBlock
  BY DEF Inv, TypeOK
<1>2. /\ \A row \in live.todo : row.id \in DOMAIN events' /\ row.tx = events'[row.id].tx
      /\ \A row \in live.todo :
           events'[row.id].reference_model_verify_attempts = events[row.id].reference_model_verify_attempts
  BY <1>1 DEF LiveOK, TableGoesOn, AttemptsKept
<1>3. CASE Wake \/ NextPhase
  <2>1. Rows \subseteq EventRow /\ \A row \in Rows : row.id \in DOMAIN events /\ row = events[row.id]
    BY RowIsTyped DEF Rows, Inv
  <2>2. /\ live' \in LiveState
        /\ live'.pc \in {"asleep", "filter", "l1", "model"} /\ live'.todo \subseteq Rows
        /\ live'.pc = "filter" => live'.block # 0
        /\ live'.pc = "model" => \A row \in live'.todo : Awaiting(row)
    <3>1. CASE Wake
      BY <1>1, <2>1, <3>1, LoopAtRest DEF Wake, Select, LiveState
    <3>2. CASE NextPhase
      <4>1. CASE live' = [Asleep EXCEPT !.pc = "l1", !.todo = Select(ToL1)]
        BY <2>1, <4>1, LoopAtRest DEF Select, LiveState
      <4>2. CASE live' = [Asleep EXCEPT !.pc = "model", !.todo = {r \in Select(ToModel) : Awaiting(r)}]
        BY <2>1, <4>2, LoopAtRest DEF Select, LiveState
      <4>3. CASE live' = Asleep
        BY <4>3, LoopAtRest
      <4> QED
        BY <3>2, <4>1, <4>2, <4>3 DEF NextPhase
    <3> QED
      BY <1>3, <3>1, <3>2
  <2>3. \A row \in live'.todo : row.id \in DOMAIN events' /\ row.tx = events'[row.id].tx
    BY <2>1, <2>2 DEF TableGoesOn
  <2>4. live'.pc = "model" => \A row \in live'.todo :
          events'[row.id].reference_model_verify_attempts < MAX_REFERENCE_MODEL_ATTEMPTS
    BY <2>1, <2>2 DEF Awaiting, AttemptsKept
  <2>5. \A row, other \in live'.todo : row.id = other.id => row = other
    BY <2>1, <2>2
  <2> QED
    BY <2>2, <2>3, <2>4, <2>5 DEF LiveOK
<1>4. ASSUME NEW row \in live.todo, LiveSkip(row) \/ LiveAsk(row) \/ LiveWrite(row) \/ LiveL1(row) \/ LiveSeal(row)
      PROVE  live' \in LiveState /\ LiveOK'
  <2>1. live.todo \ {row} \subseteq EventRow
    BY <1>1 DEF LiveState
  <2>2. live' \in LiveState
    <3>1. CASE LiveSkip(row) \/ LiveL1(row)
      BY <1>1, <2>1, <3>1 DEF LiveState, LiveSkip, LiveL1, Visited
    <3>2. CASE LiveAsk(row)
      <4>1. PICK answer \in BOOLEAN : live' = [live EXCEPT !.pc = "answered", !.answer = answer]
        <5>1. live' = [live EXCEPT !.pc = "answered", !.answer = row.tx \in filterList]
          BY <3>2 DEF LiveAsk
        <5>2. (row.tx \in filterList) \in BOOLEAN
          OBVIOUS
        <5> QED
          BY <5>1, <5>2, Zenon
      <4> QED
        BY <1>1, <4>1 DEF LiveState
    <3>3. CASE LiveWrite(row)
      BY <1>1, <2>1, <3>3 DEF LiveState, LiveWrite
    <3>4. CASE LiveSeal(row)
      BY <1>1, <2>1, <3>4 DEF LiveState, LiveSeal
    <3> QED
      BY <1>4, <3>1, <3>2, <3>3, <3>4
  <2>3. /\ live'.todo \subseteq live.todo /\ live'.block = live.block
        /\ live'.pc \in {"filter", "answered"} => live.pc \in {"filter", "answered"}
        /\ live'.pc = "model" => live.pc \in {"model", "verifying"}
        /\ live'.pc # "verifying"
    BY <1>1, <1>4 DEF LiveState, LiveSkip, LiveAsk, LiveWrite, LiveL1, LiveSeal, Visited, Visiting
  <2> QED
    BY <1>1, <1>2, <2>2, <2>3 DEF LiveOK
<1>5. ASSUME NEW row \in live.todo, LiveReread(row)
      PROVE  live' \in LiveState /\ LiveOK'
  <2>1. row.id \in DOMAIN events
    BY <1>1 DEF LiveOK
  <2>2. events[row.id].status \in Status
    BY <2>1, RowIsTyped DEF Inv, EventRow
  <2>3. live' \in LiveState /\ live'.read \in Status
    BY <1>1, <1>5, <2>2 DEF LiveState, LiveReread
  <2>4. live'.todo = live.todo /\ live'.pc = "verifying" /\ live.pc = "model"
    BY <1>1, <1>5 DEF LiveState, LiveReread, Visiting
  <2> QED
    BY <1>1, <1>2, <2>3, <2>4 DEF LiveOK
<1> QED
  BY <1>3, <1>4, <1>5 DEF LiveStep

LEMMA NextLive ==
  ASSUME Inv, Next
  PROVE  live' \in LiveState /\ LiveOK'
<1>1. live \in LiveState /\ LiveOK /\ TableGoesOn
  BY NextTable DEF Inv, TypeOK
<1>2. CASE LiveStep
  <2>1. ~LiveCallsFail => AttemptsKept
    BY NextTable
  <2>2. AttemptsKept
    <3>1. CASE \E row \in live.todo : LiveWrite(row) \/ LiveL1(row) \/ LiveSeal(row)
      BY <3>1, LiveWritesTable
    <3>2. CASE ReadStep
      BY <3>2, ReadStepReads, UnchangedGoesOn DEF Inv
    <3> QED
      BY <1>2, <3>1, <3>2 DEF LiveStep, ReadStep
  <2> QED
    BY <1>1, <1>2, <2>2, LiveSteps
<1>3. ASSUME NEW row \in live.todo, LiveCallFails(row)
      PROVE  live' \in LiveState /\ LiveOK'
  <2>1. \A i \in DOMAIN events :
          i # row.id => events'[i].reference_model_verify_attempts = events[i].reference_model_verify_attempts
    BY <1>3, LiveCallFailsTable
  <2>2. live' \in LiveState
    BY <1>1, <1>3 DEF LiveState, LiveCallFails
  <2>3. /\ live'.todo = live.todo \ {row} /\ live'.block = live.block
        /\ live'.pc = "filter" => live.pc = "filter"
        /\ live'.pc = "model" => live.pc \in {"model", "verifying"}
        /\ live'.pc \notin {"answered", "verifying"}
    BY <1>1, <1>3 DEF LiveState, LiveCallFails, Visiting
  <2> QED
    BY <1>1, <2>1, <2>2, <2>3 DEF LiveOK, TableGoesOn
<1>4. CASE LiveDies \/ Restart
  <2>1. live' = Down \/ live' = Asleep
    BY <1>4 DEF LiveDies, Restart
  <2> QED
    BY <2>1, LoopAtRest DEF LiveOK
<1>5. CASE ~LiveStep /\ ~LiveCallsFail /\ ~LiveDies /\ ~Restart
  <2>1. live' = live
    BY <1>5 DEF Next, ReplayStep, Feed, FeedMessage, FeedInserts, FeedInsert, ReplayInsert, ReplaySetSource,
       ReplayLook, ReplayBlock, ReplayDecided, ReplayAsk, ReplayWrite, ReplayL1, ReplayReread, ReplaySeal,
       ReplayCallFails, NewBlock, ListFiltered, LogAppears, liveSide
  <2>2. AttemptsKept
    BY <1>5, NextTable
  <2> QED
    BY <1>1, <2>1, <2>2 DEF LiveOK, TableGoesOn, AttemptsKept
<1> QED
  BY <1>2, <1>3, <1>4, <1>5 DEF LiveCallsFail

LEMMA NextReplay ==
  ASSUME Inv, Next
  PROVE  replay' \in ReplayState /\ ReplayOK'
<1>1. replay \in ReplayState /\ ReplayOK /\ TableGoesOn /\ head \in 1..MaxBlock
  BY NextTable DEF Inv, TypeOK
<1>2. /\ replay.pc # "none" => replay.id \in DOMAIN events' /\ replay.id \in DOMAIN events
      /\ replay.id \in DOMAIN events => events'[replay.id].tx = events[replay.id].tx
  BY <1>1 DEF ReplayOK, TableGoesOn
<1>3. NoReplay \in ReplayState /\ NoReplay.pc = "none"
  BY PipelineAssumption DEF NoReplay, ReplayState
<1>4. /\ NextIteration \in ReplayState /\ NextIteration.pc = "filter" /\ NextIteration.id = replay.id
  BY <1>1, <1>3 DEF NextIteration, ReplayState
<1>5. CASE replay' = NoReplay
  BY <1>3, <1>5 DEF ReplayOK
<1>6. CASE replay' = NextIteration /\ replay.pc # "none"
  BY <1>2, <1>4, <1>6 DEF ReplayOK
<1>7. ASSUME NEW tx \in BackfillTx, ReplayInsert(tx)
      PROVE  replay' \in ReplayState /\ ReplayOK'
  <2>1. Len(events') = Len(events) + 1
    BY <1>7, InsertStepTable DEF InsertStep
  <2>2. Len(events) + 1 \in 0..MaxRows /\ Len(events) + 1 \in DOMAIN events'
    BY <1>1, <2>1, PipelineAssumption DEF TableGoesOn, Inv, TypeOK
  <2>3. replay' = [NoReplay EXCEPT !.pc = "set_source", !.id = Len(events) + 1]
    BY <1>7 DEF ReplayInsert
  <2>4. replay' \in ReplayState /\ replay'.pc = "set_source" /\ replay'.id = Len(events) + 1
    <3> DEFINE id == Len(events) + 1
    <3>1. id \in 0..MaxRows /\ replay' = [NoReplay EXCEPT !.pc = "set_source", !.id = id]
      BY <2>2, <2>3
    <3> HIDE DEF id
    <3>2. replay' \in ReplayState /\ replay'.pc = "set_source" /\ replay'.id = id
      BY <1>3, <3>1 DEF ReplayState
    <3> QED
      BY <3>2 DEF id
  <2> QED
    BY <2>2, <2>4 DEF ReplayOK
<1>8. CASE ReplayLook
  <2>1. Stored \in EventRow /\ Stored.id = replay.id /\ replay.pc = "filter"
    BY <1>2, <1>8, RowIsTyped DEF ReplayLook, Stored, Inv
  <2>2. CASE replay' = [replay EXCEPT !.pc = "block", !.row = Stored, !.tries = @ + 1]
             /\ replay.tries # MAX_ITERATIONS
    <3>1. replay.tries + 1 \in 0..MAX_ITERATIONS
      BY <1>1, <2>2, PipelineAssumption DEF ReplayState
    <3>2. /\ replay' \in ReplayState /\ replay'.pc = "block" /\ replay'.id = replay.id
          /\ replay'.row = Stored
      BY <1>1, <2>1, <2>2, <3>1 DEF ReplayState
    <3> QED
      BY <1>2, <2>1, <3>2 DEF ReplayOK, Stored
  <2>3. CASE replay' = [replay EXCEPT !.pc = "decided"]
    <3>1. replay' \in ReplayState /\ replay'.pc = "decided" /\ replay'.id = replay.id
      BY <1>1, <2>3 DEF ReplayState
    <3> QED
      BY <1>2, <2>1, <3>1 DEF ReplayOK
  <2> QED
    BY <1>5, <1>8, <2>2, <2>3 DEF ReplayLook
<1>9. CASE ReplayBlock
  <2>1. replay' = [replay EXCEPT !.pc = "check", !.block = head] /\ replay.pc = "block" /\ head \in 0..MaxBlock
    BY <1>1, <1>9 DEF ReplayBlock
  <2>2. /\ replay' \in ReplayState /\ replay'.pc = "check" /\ replay'.id = replay.id
        /\ replay'.row = replay.row /\ replay'.block = head
    BY <1>1, <2>1 DEF ReplayState
  <2> QED
    BY <1>1, <1>2, <2>1, <2>2 DEF ReplayOK
<1>10. CASE ReplayAsk
  <2>1. CASE replay' = [replay EXCEPT !.pc = "answered", !.answer = replay.row.tx \in filterList]
    <3>1. (replay.row.tx \in filterList) \in BOOLEAN
      OBVIOUS
    <3>2. PICK answer \in BOOLEAN : replay' = [replay EXCEPT !.pc = "answered", !.answer = answer]
      BY <2>1, <3>1, Zenon
    <3>3. replay.pc = "check"
      BY <1>10 DEF ReplayAsk
    <3>4. /\ replay' \in ReplayState /\ replay'.pc = "answered" /\ replay'.id = replay.id
          /\ replay'.row = replay.row /\ replay'.block = replay.block
      BY <1>1, <3>2 DEF ReplayState
    <3> QED
      BY <1>1, <1>2, <3>3, <3>4 DEF ReplayOK
  <2> QED
    BY <1>6, <1>10, <2>1 DEF ReplayAsk
<1>11. CASE ReplayReread
  <2>1. Stored.status \in Status /\ replay.pc = "model"
    BY <1>2, <1>11, RowIsTyped DEF ReplayReread, Stored, Inv, EventRow
  <2>2. replay' = [replay EXCEPT !.pc = "verifying", !.read = Stored.status]
    BY <1>11 DEF ReplayReread
  <2>3. /\ replay' \in ReplayState /\ replay'.pc = "verifying" /\ replay'.id = replay.id
        /\ replay'.read = Stored.status
    BY <1>1, <2>1, <2>2 DEF ReplayState
  <2> QED
    BY <1>2, <2>1, <2>3 DEF ReplayOK
\* The steps that move on with the row alone.
<1>12. ASSUME NEW pc \in {"filter", "l1", "model"}, NEW tries \in 0..MAX_ITERATIONS, replay.pc # "none",
              replay' = [replay EXCEPT !.pc = pc, !.tries = tries]
       PROVE  replay' \in ReplayState /\ ReplayOK'
  <2>1. replay' \in ReplayState /\ replay'.pc = pc /\ replay'.id = replay.id
    BY <1>1, <1>12 DEF ReplayState
  <2> QED
    BY <1>2, <1>12, <2>1 DEF ReplayOK
<1>13. replay.tries \in 0..MAX_ITERATIONS /\ 0 \in 0..MAX_ITERATIONS
       /\ (replay.tries < MAX_ITERATIONS => replay.tries + 1 \in 0..MAX_ITERATIONS)
  BY <1>1, PipelineAssumption DEF ReplayState
<1>14. CASE ReplaySetSource
  <2>1. replay' = [replay EXCEPT !.pc = "filter"] /\ replay.pc = "set_source"
    BY <1>14 DEF ReplaySetSource
  <2>2. replay' \in ReplayState /\ replay'.pc = "filter" /\ replay'.id = replay.id
    BY <1>1, <2>1 DEF ReplayState
  <2> QED
    BY <1>2, <2>1, <2>2 DEF ReplayOK
<1>15. CASE ReplayDecided
  BY <1>5, <1>12, <1>13, <1>15 DEF ReplayDecided
<1>16. ASSUME replay.pc = "l1", replay.tries < MAX_ITERATIONS, replay' = [replay EXCEPT !.tries = @ + 1]
       PROVE  replay' \in ReplayState /\ ReplayOK'
  <2>1. replay' \in ReplayState /\ replay'.pc = "l1" /\ replay'.id = replay.id
    BY <1>1, <1>13, <1>16 DEF ReplayState
  <2> QED
    BY <1>2, <1>16, <2>1 DEF ReplayOK
<1>17. CASE ReplayL1
  BY <1>5, <1>12, <1>13, <1>16, <1>17 DEF ReplayL1
<1>18. CASE ReplayWrite \/ ReplaySeal
  BY <1>5, <1>6, <1>18 DEF ReplayWrite, ReplaySeal
<1>19. CASE ReplayCallFails
  BY <1>5, <1>6, <1>16, <1>19 DEF ReplayCallFails
<1>20. CASE UNCHANGED replay
  BY <1>1, <1>2, <1>20 DEF ReplayOK
<1>21. CASE ~ReplayStep /\ ~ReplayCallFails /\ ~\E tx \in BackfillTx : ReplayInsert(tx)
  BY <1>20, <1>21 DEF Next, Feed, FeedMessage, FeedInserts, FeedInsert, LiveStep, Wake, NextPhase, LiveSkip,
     LiveAsk, LiveWrite, LiveL1, LiveReread, LiveSeal, LiveCallsFail, LiveCallFails, LiveDies, Restart, NewBlock,
     ListFiltered, LogAppears, others
<1> QED
  BY <1>7, <1>8, <1>9, <1>10, <1>11, <1>14, <1>15, <1>17, <1>18, <1>19, <1>21 DEF ReplayStep

LEMMA NextOthers ==
  ASSUME Inv, Next
  PROVE  /\ head' \in 1..MaxBlock /\ filterList' \subseteq Tx /\ logged' \subseteq Tx
         /\ failures' \in 0..MaxFailures
         /\ filterList \subseteq filterList' /\ logged \subseteq logged'
<1>1. /\ head \in 1..MaxBlock /\ filterList \subseteq Tx /\ logged \subseteq Tx /\ failures \in 0..MaxFailures
      /\ MaxBlock \in Nat /\ MaxFailures \in Nat
  BY PipelineAssumption DEF Inv, TypeOK
<1>2. CASE NewBlock
  BY <1>1, <1>2 DEF NewBlock
<1>3. ASSUME NEW tx \in Tx, ListFiltered(tx) \/ LogAppears(tx)
      PROVE  /\ head' = head /\ filterList' \subseteq Tx /\ logged' \subseteq Tx /\ failures' = failures
             /\ filterList \subseteq filterList' /\ logged \subseteq logged'
  BY <1>1, <1>3 DEF ListFiltered, LogAppears
<1>4. CASE LiveCallsFail \/ LiveDies \/ ReplayCallFails
  <2>1. UNCHANGED chain /\ failures < MaxFailures /\ failures' = failures + 1
    BY <1>4 DEF LiveCallsFail, LiveCallFails, LiveDies, ReplayCallFails, others, liveSide
  <2> QED
    BY <1>1, <2>1 DEF chain
<1>5. CASE ~(LiveCallsFail \/ LiveDies \/ ReplayCallFails) /\ ~NewBlock
           /\ ~\E tx \in Tx : ListFiltered(tx) \/ LogAppears(tx)
  <2>1. UNCHANGED <<chain, failures>>
    BY <1>5 DEF Next, Feed, FeedMessage, FeedInserts, FeedInsert, LiveStep, Wake, NextPhase, LiveSkip,
       LiveAsk, LiveWrite, LiveL1, LiveReread, LiveSeal, Restart, ReplayInsert, ReplayStep, ReplaySetSource, ReplayLook,
       ReplayBlock, ReplayDecided, ReplayAsk, ReplayWrite, ReplayL1, ReplayReread, ReplaySeal, others, liveSide
  <2> QED
    BY <1>1, <2>1 DEF chain
<1> QED
  BY <1>1, <1>2, <1>3, <1>4, <1>5

LEMMA InitInv == Init => Inv
<1> SUFFICES ASSUME Init
             PROVE  Inv
  OBVIOUS
<1>1. events = <<>> /\ falses = <<>> /\ Len(events) = 0 /\ DOMAIN events = {} /\ Cardinality(inbox) = 0
  BY FS_EmptySet DEF Init
<1>2. NoReplay \in ReplayState /\ NoReplay.pc = "none"
  BY PipelineAssumption DEF NoReplay, ReplayState
<1>3. TypeOK
  BY <1>1, <1>2, LoopAtRest, PipelineAssumption DEF Init, TypeOK
<1>4. FeedOK /\ LiveOK /\ ReplayOK
  BY <1>1, <1>2, LoopAtRest, PipelineAssumption DEF Init, FeedOK, LiveOK, ReplayOK
<1> QED
  BY <1>3, <1>4 DEF Inv

LEMMA NextInv == Inv /\ [Next]_vars => Inv'
<1> SUFFICES ASSUME Inv, [Next]_vars
             PROVE  Inv'
  OBVIOUS
<1>1. CASE Next
  <2>1. TypeOK'
    BY <1>1, NextTable, NextFeed, NextLive, NextReplay, NextOthers DEF TypeOK, TableGoesOn, False
  <2> QED
    BY <1>1, <2>1, NextFeed, NextLive, NextReplay DEF Inv
<1>2. CASE UNCHANGED vars
  BY <1>2 DEF vars, chain, Inv, TypeOK, FeedOK, LiveOK, ReplayOK
<1> QED
  BY <1>1, <1>2

THEOREM InvHolds == Spec => []Inv
BY InitInv, NextInv, PTL DEF Spec

\* Types, for every feed, every backfill and every bound: no message overfills the
\* table, no row is verified more often than allowed, and no process acts on a row
\* that is not there.
THEOREM TypeCorrect == Spec => []TypeOK
<1>1. Inv => TypeOK
  BY DEF Inv
<1> QED
  BY <1>1, InvHolds, PTL

-----------------------------------------------------------------------------
(* The inductive invariant of the evidence *)

\* The answers that a row's count stands for were all false, unless its
\* transaction is on the list by now.
CountIsOfFalses(row) ==
  row.filter_check_count <= Len(falses[row.id]) \/ row.tx \in filterList

\* An answer in hand: true only of a listed transaction, and false only if the
\* snapshot's count was of false answers.
AnswerIsBacked(row, answer) ==
  /\ answer => row.tx \in filterList
  /\ answer \/ row.filter_check_count <= Len(falses[row.id])

EvidenceOK ==
  /\ \A i \in DOMAIN events : CountIsOfFalses(events[i])
  /\ live.pc \in {"filter", "answered"} => \A row \in live.todo : CountIsOfFalses(row)
  /\ \A row \in live.todo : Visiting("answered", row) => AnswerIsBacked(row, live.answer)
  /\ replay.pc \in {"block", "check"} => CountIsOfFalses(replay.row)
  /\ replay.pc = "answered" => AnswerIsBacked(replay.row, replay.answer)
  /\ ConfirmedOnEvidence

\* No step but a filter check's write changes a row's count, its last check or its
\* false answers, and a status only on the log's evidence.
OnlyConfirms ==
  /\ \A i \in DOMAIN events :
       /\ events'[i].filter_check_count = events[i].filter_check_count
       /\ events'[i].last_checked_block = events[i].last_checked_block
       /\ falses'[i] = falses[i]
       /\ events'[i].status = events[i].status \/ (events'[i].status = "l1_confirmed" /\ events[i].tx \in logged)
  /\ \A i \in DOMAIN events' \ DOMAIN events :
       events'[i].status = "pending" /\ events'[i].filter_check_count = 0 /\ falses'[i] = <<>>

LEMMA UpdateConfirms ==
  ASSUME TypeOK, NEW id \in DOMAIN events, NEW new \in EventRow, Update(id, new), falses' = falses,
         new.filter_check_count = events[id].filter_check_count,
         new.last_checked_block = events[id].last_checked_block,
         new.status = events[id].status \/ (new.status = "l1_confirmed" /\ events[id].tx \in logged)
  PROVE  OnlyConfirms
BY UpdateWrites DEF OnlyConfirms

LEMMA L1Confirms ==
  ASSUME Inv, NEW row, row.id \in DOMAIN events, row.tx = events[row.id].tx, L1Confirm(row), falses' = falses
  PROVE  OnlyConfirms
<1>1. CASE row.tx \in logged
  <2> DEFINE new == [events[row.id] EXCEPT !.status = "l1_confirmed"]
  <2>1. events[row.id] \in EventRow
    BY RowIsTyped DEF Inv
  <2>2. /\ new \in EventRow /\ new.status = "l1_confirmed"
        /\ new.filter_check_count = events[row.id].filter_check_count
        /\ new.last_checked_block = events[row.id].last_checked_block
    BY <2>1 DEF EventRow, Status
  <2>3. Update(row.id, new)
    BY <1>1 DEF L1Confirm
  <2> HIDE DEF new
  <2> QED
    BY <1>1, <2>2, <2>3, UpdateConfirms DEF Inv
<1>2. CASE row.tx \notin logged
  BY <1>2 DEF L1Confirm, OnlyConfirms
<1> QED
  BY <1>1, <1>2

LEMMA SealConfirms ==
  ASSUME Inv, NEW id \in DOMAIN events, NEW status \in Status, SealHash(id, status), falses' = falses
  PROVE  OnlyConfirms
<1> DEFINE new == [events[id] EXCEPT !.reference_model_hash = status]
<1>1. events[id] \in EventRow
  BY RowIsTyped DEF Inv
<1>2. /\ new \in EventRow /\ new.status = events[id].status
      /\ new.filter_check_count = events[id].filter_check_count
      /\ new.last_checked_block = events[id].last_checked_block
  BY <1>1 DEF EventRow
<1>3. Update(id, new)
  BY DEF SealHash
<1> HIDE DEF new
<1> QED
  BY <1>2, <1>3, UpdateConfirms DEF Inv

LEMMA LiveCallFailsConfirms ==
  ASSUME Inv, NEW row \in live.todo, LiveCallFails(row)
  PROVE  OnlyConfirms
<1>1. row.id \in DOMAIN events /\ falses' = falses
  BY DEF Inv, LiveOK, LiveCallFails
<1>2. CASE UNCHANGED events
  BY <1>1, <1>2 DEF OnlyConfirms
<1>3. CASE ~UNCHANGED events
  <2> DEFINE new == [events[row.id] EXCEPT !.reference_model_verify_attempts = @ + 1]
  <2>1. Visiting("verifying", row) /\ Update(row.id, new)
    BY <1>3 DEF LiveCallFails
  <2>2. events[row.id] \in EventRow
    BY <1>1, RowIsTyped DEF Inv
  <2>3. events[row.id].reference_model_verify_attempts < MAX_REFERENCE_MODEL_ATTEMPTS
    BY <2>1 DEF Visiting, Inv, LiveOK
  <2>4. /\ new \in EventRow /\ new.status = events[row.id].status
        /\ new.filter_check_count = events[row.id].filter_check_count
        /\ new.last_checked_block = events[row.id].last_checked_block
    BY <2>2, <2>3 DEF EventRow, MAX_REFERENCE_MODEL_ATTEMPTS
  <2> HIDE DEF new
  <2> QED
    BY <1>1, <2>1, <2>4, UpdateConfirms DEF Inv
<1> QED
  BY <1>2, <1>3

LEMMA NextConfirms ==
  ASSUME Inv, Next, ~\E row \in live.todo : LiveWrite(row), ~ReplayWrite
  PROVE  OnlyConfirms
<1>1. CASE ReadStep
  BY <1>1, ReadStepReads DEF OnlyConfirms
<1>2. CASE InsertStep
  <2>1. PICK tx \in Tx, block \in 1..MaxBlock, source \in {"live_detection", "historical_backfill"} :
          Insert(tx, block, source)
    <3>1. CASE FeedInserts
      BY <3>1 DEF FeedInserts, FeedInsert, Inv, TypeOK, FeedOK
    <3>2. ASSUME NEW tx \in BackfillTx, ReplayInsert(tx)
          PROVE  Insert(tx, BLOCK_NUMBER, "live_detection") /\ tx \in Tx /\ BLOCK_NUMBER \in 1..MaxBlock
      BY <3>2, PipelineAssumption DEF ReplayInsert, BLOCK_NUMBER
    <3> QED
      BY <1>2, <3>1, <3>2 DEF InsertStep
  <2>2. Len(events) < MaxRows
    BY <1>2, RoomToInsert, PipelineAssumption DEF InsertStep, FeedInserts, FeedInsert, ReplayInsert
  <2> QED
    BY <2>1, <2>2, InsertWrites DEF Inv, NewRow, OnlyConfirms
<1>3. CASE LiveCallsFail
  BY <1>3, LiveCallFailsConfirms DEF LiveCallsFail
<1>4. ASSUME NEW row \in live.todo, LiveL1(row) \/ LiveSeal(row)
      PROVE  OnlyConfirms
  <2>1. row.id \in DOMAIN events /\ row.tx = events[row.id].tx /\ falses' = falses
    BY <1>4 DEF Inv, LiveOK, LiveL1, LiveSeal
  <2>2. CASE LiveL1(row)
    BY <2>1, <2>2, L1Confirms DEF LiveL1
  <2>3. CASE LiveSeal(row)
    BY <2>1, <2>3, SealConfirms DEF LiveSeal, Visiting, Inv, LiveOK
  <2> QED
    BY <1>4, <2>2, <2>3
<1>5. CASE ReplaySetSource \/ ReplayL1 \/ ReplaySeal
  <2>1. replay.id \in DOMAIN events /\ falses' = falses
    BY <1>5 DEF ReplaySetSource, ReplayL1, ReplaySeal, Inv, ReplayOK
  <2>2. events[replay.id] \in EventRow /\ events[replay.id].id = replay.id
    BY <2>1, RowIsTyped DEF Inv
  <2>3. CASE ReplaySetSource
    <3> DEFINE new == [events[replay.id] EXCEPT !.source = "historical_backfill"]
    <3>1. Update(replay.id, new)
      BY <2>3 DEF ReplaySetSource, Stored
    <3>2. /\ new \in EventRow /\ new.status = events[replay.id].status
          /\ new.filter_check_count = events[replay.id].filter_check_count
          /\ new.last_checked_block = events[replay.id].last_checked_block
      BY <2>2 DEF EventRow
    <3> HIDE DEF new
    <3> QED
      BY <2>1, <3>1, <3>2, UpdateConfirms DEF Inv
  <2>4. CASE ReplayL1
    <3>1. UNCHANGED events \/ L1Confirm(events[replay.id])
      BY <2>4 DEF ReplayL1, Stored
    <3> QED
      BY <2>1, <2>2, <3>1, L1Confirms DEF OnlyConfirms
  <2>5. CASE ReplaySeal
    BY <2>1, <2>5, SealConfirms DEF ReplaySeal, Inv, ReplayOK
  <2> QED
    BY <1>5, <2>3, <2>4, <2>5
<1> QED
  BY <1>1, <1>2, <1>3, <1>4, <1>5, NextSplits

-----------------------------------------------------------------------------
(* Evidence, whoever writes *)

\* What a process holds stays backed: false answers are never taken back and the
\* list only grows.
LEMMA BackedStays ==
  ASSUME Inv, Next, NEW row \in EventRow, row.id \in DOMAIN events, NEW answer \in BOOLEAN
  PROVE  /\ CountIsOfFalses(row) => CountIsOfFalses(row)'
         /\ AnswerIsBacked(row, answer) => AnswerIsBacked(row, answer)'
<1>1. row.filter_check_count \in Nat
  BY DEF EventRow
<1>2. Len(falses'[row.id]) >= Len(falses[row.id]) /\ filterList \subseteq filterList'
  BY NextTable, NextOthers DEF TableGoesOn
<1>3. falses[row.id] \in Seq(False) /\ falses' \in Seq(Seq(False)) /\ row.id \in DOMAIN falses'
  BY RowIsTyped, NextTable DEF Inv, TableGoesOn
<1>4. Len(falses[row.id]) \in Nat /\ Len(falses'[row.id]) \in Nat
  BY <1>3
<1> QED
  BY <1>1, <1>2, <1>4 DEF CountIsOfFalses, AnswerIsBacked

\* Three false answers are behind the count that completes a streak.
LEMMA AnswerIsEvidence ==
  ASSUME Inv, EvidenceOK, NEW row \in EventRow, row.id \in DOMAIN events, row.tx = events[row.id].tx,
         NEW answer \in BOOLEAN, NEW block \in 1..MaxBlock, AnswerIsBacked(row, answer),
         WriteAnswer(row, answer, block), UNCHANGED chain
  PROVE  (\A i \in DOMAIN events' : CountIsOfFalses(events[i])') /\ ConfirmedOnEvidence'
<1>1. /\ DOMAIN events' = DOMAIN events
      /\ \A i \in DOMAIN events :
           events'[i] = IF i = row.id THEN AnsweredRow(row, answer, block) ELSE events[i]
      /\ \A i \in DOMAIN events :
           falses'[i] = IF i = row.id /\ ~answer THEN Append(falses[i], block) ELSE falses[i]
  BY AnswerWrites DEF Inv
<1>2. filterList' = filterList /\ logged' = logged
  BY DEF chain
<1>3. ASSUME NEW i \in DOMAIN events, i # row.id
      PROVE  /\ CountIsOfFalses(events[i])'
             /\ events'[i] = events[i] /\ falses'[i] = falses[i]
  <2>1. events'[i] = events[i] /\ falses'[i] = falses[i] /\ events[i].id = i
    BY <1>1, <1>3, RowIsTyped DEF Inv
  <2> QED
    BY <1>2, <2>1 DEF EvidenceOK, CountIsOfFalses
<1> DEFINE id == row.id
           n == Len(falses[id])
           new == AnsweredRow(row, answer, block)
<1>4. /\ falses[id] \in Seq(False) /\ n \in Nat
      /\ events[id] \in EventRow /\ events[id].id = id
      /\ events[id].filter_check_count \in Nat /\ row.filter_check_count \in Nat
  <2>1. falses[id] \in Seq(False) /\ events[id] \in EventRow /\ events[id].id = id
    BY RowIsTyped DEF Inv
  <2> QED
    BY <2>1 DEF EventRow
<1>5. /\ new.id = id /\ new.tx = row.tx
      /\ new.status = StatusAfter(row, answer)
      /\ new.filter_check_count = events[id].filter_check_count + 1
  BY AnsweredRowFields DEF Inv
<1>6. /\ events'[id] = new
      /\ falses'[id] = IF answer THEN falses[id] ELSE Append(falses[id], block)
  <2>1. id = id /\ ~answer <=> ~answer
    OBVIOUS
  <2> QED
    BY <1>1
<1>7. CountIsOfFalses(events[id]) /\ AnswerIsBacked(row, answer)
  BY DEF EvidenceOK
<1>8. CASE answer = TRUE
  <2>1. CountIsOfFalses(events[id])'
    BY <1>2, <1>5, <1>6, <1>7, <1>8 DEF CountIsOfFalses, AnswerIsBacked
  <2>2. new.status = "filtered"
    BY <1>5, <1>8 DEF StatusAfter
  <2> QED
    BY <1>1, <1>2, <1>3, <1>6, <2>1, <2>2 DEF EvidenceOK, ConfirmedOnEvidence
<1>9. CASE answer = FALSE
  <2>1. Len(falses'[id]) = n + 1
    BY <1>4, <1>6, <1>9
  <2>2. CountIsOfFalses(events[id])'
    <3>1. events[id].filter_check_count <= n \/ row.tx \in filterList
      BY <1>4, <1>7 DEF CountIsOfFalses
    <3>2. /\ events'[id].id = id /\ events'[id].tx = row.tx
          /\ events'[id].filter_check_count = events[id].filter_check_count + 1
      BY <1>5, <1>6
    <3> QED
      BY <1>2, <1>4, <2>1, <3>1, <3>2 DEF CountIsOfFalses
  <2>3. row.filter_check_count <= n
    BY <1>7, <1>9 DEF AnswerIsBacked
  <2>4. new.status # "l1_confirmed" /\ (new.status = "confirmed_not_filtered" => n + 1 >= REQUIRED_FALSE_STREAK)
    BY <1>4, <1>5, <1>9, <2>3 DEF StatusAfter, StreakComplete, REQUIRED_FALSE_STREAK
  <2> QED
    BY <1>1, <1>2, <1>3, <1>6, <2>1, <2>2, <2>4 DEF EvidenceOK, ConfirmedOnEvidence
<1> QED
  BY <1>8, <1>9

LEMMA TableEvidence ==
  ASSUME Inv, EvidenceOK, Next
  PROVE  (\A i \in DOMAIN events' : CountIsOfFalses(events[i])') /\ ConfirmedOnEvidence'
<1>1. ASSUME NEW row \in live.todo, LiveWrite(row)
      PROVE  (\A i \in DOMAIN events' : CountIsOfFalses(events[i])') /\ ConfirmedOnEvidence'
  <2>1. row \in EventRow /\ row.id \in DOMAIN events /\ row.tx = events[row.id].tx
    BY DEF Inv, TypeOK, LiveState, LiveOK
  <2>2. live.answer \in BOOLEAN /\ live.block \in 1..MaxBlock
    BY <1>1 DEF LiveWrite, Visiting, Inv, TypeOK, LiveState, LiveOK
  <2>3. AnswerIsBacked(row, live.answer)
    BY <1>1 DEF LiveWrite, EvidenceOK
  <2> QED
    BY <1>1, <2>1, <2>2, <2>3, AnswerIsEvidence DEF LiveWrite, others, chain
<1>2. CASE ReplayWrite
  <2>1. /\ replay.row \in EventRow /\ replay.row.id \in DOMAIN events
        /\ replay.row.tx = events[replay.row.id].tx
    BY <1>2 DEF ReplayWrite, Inv, ReplayOK
  <2>2. replay.answer \in BOOLEAN /\ replay.block \in 1..MaxBlock
    BY <1>2 DEF ReplayWrite, Inv, TypeOK, ReplayState, ReplayOK
  <2>3. AnswerIsBacked(replay.row, replay.answer)
    BY <1>2 DEF ReplayWrite, EvidenceOK
  <2>4. WriteAnswer(replay.row, replay.answer, replay.block) /\ UNCHANGED chain
    BY <1>2 DEF ReplayWrite, liveSide
  <2> QED
    BY <2>1, <2>2, <2>3, <2>4, AnswerIsEvidence
<1>3. CASE ~(\E row \in live.todo : LiveWrite(row)) /\ ~ReplayWrite
  <2>1. OnlyConfirms /\ TableGoesOn
    BY <1>3, NextConfirms, NextTable
  <2>2. filterList \subseteq filterList' /\ logged \subseteq logged'
    BY NextOthers
  <2>3. ASSUME NEW i \in DOMAIN events
        PROVE  CountIsOfFalses(events[i])'
    <3>1. events[i].id = i /\ events'[i].id = i /\ events'[i].tx = events[i].tx
      BY <2>1, RowIsTyped DEF TableGoesOn, Inv
    <3> QED
      BY <2>1, <2>2, <3>1 DEF EvidenceOK, CountIsOfFalses, OnlyConfirms
  <2>4. ASSUME NEW i \in DOMAIN events' \ DOMAIN events
        PROVE  CountIsOfFalses(events[i])'
    <3>1. events'[i].id = i /\ events'[i].filter_check_count = 0 /\ Len(falses'[i]) = 0
      BY <2>1 DEF TableGoesOn, OnlyConfirms
    <3> QED
      BY <3>1 DEF CountIsOfFalses
  <2>5. ASSUME NEW i \in DOMAIN events'
        PROVE  /\ events'[i].status = "confirmed_not_filtered" => Len(falses'[i]) >= REQUIRED_FALSE_STREAK
               /\ events'[i].status = "l1_confirmed" => events'[i].tx \in logged'
    <3>1. CASE i \in DOMAIN events
      <4>1. events'[i].tx = events[i].tx /\ falses'[i] = falses[i]
        BY <2>1, <3>1 DEF TableGoesOn, OnlyConfirms
      <4> QED
        BY <2>1, <2>2, <3>1, <4>1 DEF OnlyConfirms, EvidenceOK, ConfirmedOnEvidence
    <3>2. CASE i \notin DOMAIN events
      BY <2>1, <3>2 DEF OnlyConfirms
    <3> QED
      BY <3>1, <3>2
  <2> QED
    BY <2>3, <2>4, <2>5 DEF ConfirmedOnEvidence
<1> QED
  BY <1>1, <1>2, <1>3

LEMMA LiveEvidence ==
  ASSUME Inv, EvidenceOK, Next
  PROVE  /\ live'.pc \in {"filter", "answered"} => \A row \in live'.todo : CountIsOfFalses(row)'
         /\ \A row \in live'.todo : Visiting("answered", row)' => AnswerIsBacked(row, live.answer)'
<1>1. /\ live \in LiveState
      /\ \A row \in live.todo : row \in EventRow /\ row.id \in DOMAIN events
  BY DEF Inv, TypeOK, LiveState, LiveOK
<1>2. \A row \in live.todo : CountIsOfFalses(row) => CountIsOfFalses(row)'
  <2>1. TRUE \in BOOLEAN
    OBVIOUS
  <2> QED
    BY <1>1, <2>1, BackedStays
<1>3. CASE Wake
  <2>1. live'.pc = "filter" /\ live'.todo \subseteq Rows
    BY <1>3, LoopAtRest DEF Wake, Select, LiveState
  <2>2. \A row \in Rows : row \in EventRow /\ row.id \in DOMAIN events /\ CountIsOfFalses(row)
    BY RowIsTyped DEF Rows, Inv, EvidenceOK
  <2>3. \A row \in Rows : CountIsOfFalses(row)'
    <3>1. TRUE \in BOOLEAN
      OBVIOUS
    <3> QED
      BY <2>2, <3>1, BackedStays
  <2> QED
    BY <2>1, <2>3 DEF Visiting
<1>4. ASSUME NEW row \in live.todo, LiveAsk(row)
      PROVE  /\ live'.pc \in {"filter", "answered"} => \A other \in live'.todo : CountIsOfFalses(other)'
             /\ \A other \in live'.todo : Visiting("answered", other)' => AnswerIsBacked(other, live.answer)'
  <2>1. /\ live'.todo = live.todo /\ live.pc = "filter" /\ live'.answer = (row.tx \in filterList)
        /\ UNCHANGED <<falses, filterList>>
    BY <1>1, <1>4 DEF LiveAsk, LiveState, Visiting, others, chain
  <2>2. \A other \in live.todo : CountIsOfFalses(other)
    BY <2>1 DEF EvidenceOK
  <2>3. ASSUME NEW other \in live'.todo, Visiting("answered", other)'
        PROVE  AnswerIsBacked(other, live.answer)'
    <3>1. row.id <= other.id /\ other.id <= row.id /\ row.id \in Int /\ other.id \in Int
      BY <1>1, <1>4, <2>1, <2>3 DEF LiveAsk, Visiting, EventRow
    <3>2. other = row
      BY <2>1, <3>1 DEF Inv, LiveOK
    <3>3. live'.answer => row.tx \in filterList'
      BY <2>1
    <3>4. ~live'.answer => row.filter_check_count <= Len(falses'[row.id])
      <4>1. ~live'.answer => row.filter_check_count <= Len(falses[row.id])
        BY <2>1, <2>2, <2>3 DEF CountIsOfFalses
      <4> QED
        BY <2>1, <4>1
    <3> QED
      BY <3>2, <3>3, <3>4 DEF AnswerIsBacked
  <2> QED
    BY <1>2, <2>1, <2>2, <2>3
<1>5. ASSUME NEW row \in live.todo, LiveSkip(row) \/ LiveWrite(row) \/ LiveCallFails(row)
      PROVE  /\ live'.pc \in {"filter", "answered"} => \A other \in live'.todo : CountIsOfFalses(other)'
             /\ \A other \in live'.todo : Visiting("answered", other)' => AnswerIsBacked(other, live.answer)'
  <2>1. /\ live'.todo \subseteq live.todo /\ live'.pc # "answered"
        /\ live'.pc = "filter" => live.pc \in {"filter", "answered"}
    BY <1>1, <1>5 DEF LiveSkip, LiveWrite, LiveCallFails, LiveState, Visiting, Visited
  <2> QED
    BY <1>2, <2>1 DEF EvidenceOK, Visiting
<1>6. CASE NextPhase \/ LiveDies \/ Restart \/ \E row \in live.todo : LiveL1(row) \/ LiveReread(row) \/ LiveSeal(row)
  <2>1. live'.pc \notin {"filter", "answered"}
    <3>1. CASE NextPhase \/ LiveDies \/ Restart
      BY <3>1, LoopAtRest DEF NextPhase, LiveDies, Restart, LiveState
    <3>2. ASSUME NEW row \in live.todo, LiveL1(row) \/ LiveReread(row) \/ LiveSeal(row)
          PROVE  live'.pc \notin {"filter", "answered"}
      BY <1>1, <3>2 DEF LiveL1, LiveReread, LiveSeal, LiveState, Visiting, Visited
    <3> QED
      BY <1>6, <3>1, <3>2
  <2> QED
    BY <2>1 DEF Visiting
<1>7. CASE UNCHANGED live
  <2>1. ASSUME NEW row \in live.todo, Visiting("answered", row)
        PROVE  AnswerIsBacked(row, live.answer)'
    <3>1. live.answer \in BOOLEAN /\ AnswerIsBacked(row, live.answer)
      BY <1>1, <2>1 DEF LiveState, EvidenceOK
    <3>2. PICK answer \in BOOLEAN : answer = live.answer
      BY <3>1
    <3>3. AnswerIsBacked(row, answer)'
      BY <1>1, <3>1, <3>2, BackedStays
    <3> QED
      BY <1>7, <3>2, <3>3 DEF AnswerIsBacked
  <2>2. live' = live
    BY <1>7
  <2>3. live'.pc \in {"filter", "answered"} => \A row \in live'.todo : CountIsOfFalses(row)'
    BY <1>2, <2>2 DEF EvidenceOK
  <2>4. ASSUME NEW row \in live'.todo, Visiting("answered", row)'
        PROVE  AnswerIsBacked(row, live.answer)'
    <3>1. row \in live.todo /\ Visiting("answered", row)
      BY <2>2, <2>4 DEF Visiting
    <3> QED
      BY <2>1, <3>1
  <2> QED
    BY <2>3, <2>4
<1>8. UNCHANGED live \/ LiveStep \/ LiveCallsFail \/ LiveDies \/ Restart
  BY DEF Next, ReplayStep, Feed, FeedMessage, FeedInserts, FeedInsert, ReplayInsert, ReplaySetSource, ReplayLook,
     ReplayBlock, ReplayDecided, ReplayAsk, ReplayWrite, ReplayL1, ReplayReread, ReplaySeal, ReplayCallFails,
     NewBlock, ListFiltered, LogAppears, liveSide
<1> QED
  BY <1>3, <1>4, <1>5, <1>6, <1>7, <1>8 DEF LiveStep, LiveCallsFail

LEMMA ReplayEvidence ==
  ASSUME Inv, EvidenceOK, Next
  PROVE  /\ replay'.pc \in {"block", "check"} => CountIsOfFalses(replay.row)'
         /\ replay'.pc = "answered" => AnswerIsBacked(replay.row, replay.answer)'
<1>1. replay \in ReplayState /\ TRUE \in BOOLEAN
  BY DEF Inv, TypeOK
<1>2. CASE ReplayLook
  <2>1. replay.id \in DOMAIN events
    BY <1>2 DEF ReplayLook, Inv, ReplayOK
  <2>2. Stored \in EventRow /\ Stored.id = replay.id /\ CountIsOfFalses(Stored)
    BY <2>1, RowIsTyped DEF Stored, Inv, EvidenceOK
  <2>3. replay'.pc # "answered" /\ (replay'.pc \in {"block", "check"} => replay'.row = Stored)
    BY <1>1, <1>2 DEF ReplayLook, NoReplay, ReplayState
  <2>4. UNCHANGED <<falses, filterList>>
    BY <1>2 DEF ReplayLook, liveSide, chain
  <2> QED
    BY <2>2, <2>3, <2>4 DEF CountIsOfFalses
<1>3. CASE ReplayBlock
  <2>1. replay.pc = "block" /\ replay'.pc = "check" /\ replay'.row = replay.row /\ UNCHANGED <<falses, filterList>>
    BY <1>1, <1>3 DEF ReplayBlock, ReplayState, liveSide, chain
  <2> QED
    BY <2>1 DEF EvidenceOK, CountIsOfFalses
<1>4. CASE ReplayAsk
  <2>1. /\ replay.pc = "check" /\ UNCHANGED <<falses, filterList>>
        /\ replay'.pc \notin {"block", "check"}
        /\ replay'.pc = "answered" =>
             replay'.row = replay.row /\ replay'.answer = (replay.row.tx \in filterList)
    BY <1>1, <1>4 DEF ReplayAsk, NextIteration, NoReplay, ReplayState, liveSide, chain
  <2>2. CountIsOfFalses(replay.row)
    BY <2>1 DEF EvidenceOK
  <2>3. CASE replay.row.tx \in filterList
    BY <2>1, <2>3 DEF AnswerIsBacked
  <2>4. CASE replay.row.tx \notin filterList
    <3>1. replay.row.filter_check_count <= Len(falses[replay.row.id])
      BY <2>2, <2>4 DEF CountIsOfFalses
    <3> QED
      BY <2>1, <2>4, <3>1 DEF AnswerIsBacked
  <2> QED
    BY <2>3, <2>4
<1>5. CASE UNCHANGED replay
  <2>1. CASE replay.pc \in {"block", "check", "answered"}
    <3>1. /\ replay.row \in EventRow /\ replay.row.id \in DOMAIN events /\ replay.answer \in BOOLEAN
      BY <1>1, <2>1 DEF Inv, ReplayOK, ReplayState
    <3>2. PICK row \in EventRow, answer \in BOOLEAN : row = replay.row /\ answer = replay.answer
      BY <3>1
    <3>3. /\ CountIsOfFalses(row) => CountIsOfFalses(row)'
          /\ AnswerIsBacked(row, answer) => AnswerIsBacked(row, answer)'
      BY <3>1, <3>2, BackedStays
    <3> QED
      BY <1>5, <3>2, <3>3 DEF EvidenceOK, CountIsOfFalses, AnswerIsBacked
  <2> QED
    BY <1>5, <2>1
<1>6. CASE ~ReplayLook /\ ~ReplayBlock /\ ~ReplayAsk /\ ~UNCHANGED replay
  <2>1. replay'.pc \notin {"block", "check", "answered"}
    <3>1. NoReplay.pc = "none" /\ NoReplay \in ReplayState
      BY PipelineAssumption DEF NoReplay, ReplayState
    <3>2. NextIteration.pc = "filter"
      BY <3>1 DEF NextIteration, ReplayState
    <3>3. CASE ReplaySetSource \/ ReplayDecided \/ ReplayWrite \/ ReplayL1 \/ ReplayReread \/ ReplaySeal
      BY <1>1, <3>1, <3>2, <3>3 DEF ReplaySetSource, ReplayDecided, ReplayWrite, ReplayL1, ReplayReread, ReplaySeal,
         ReplayState
    <3>4. CASE ReplayCallFails
      BY <1>1, <3>1, <3>2, <3>4 DEF ReplayCallFails, ReplayState
    <3>5. ASSUME NEW tx \in BackfillTx, ReplayInsert(tx)
          PROVE  replay'.pc = "set_source"
      BY <3>1, <3>5 DEF ReplayInsert, ReplayState
    <3>6. \/ UNCHANGED replay \/ ReplayStep \/ ReplayCallFails \/ \E tx \in BackfillTx : ReplayInsert(tx)
      BY DEF Next, Feed, FeedMessage, FeedInserts, FeedInsert, LiveStep, Wake, NextPhase, LiveSkip, LiveAsk,
         LiveWrite, LiveL1, LiveReread, LiveSeal, LiveCallsFail, LiveCallFails, LiveDies, Restart, NewBlock,
         ListFiltered, LogAppears, others
    <3> QED
      BY <1>6, <3>3, <3>4, <3>5, <3>6 DEF ReplayStep
  <2> QED
    BY <2>1
<1> QED
  BY <1>2, <1>3, <1>4, <1>5, <1>6

LEMMA InitEvidence == Init => EvidenceOK
<1> SUFFICES ASSUME Init
             PROVE  EvidenceOK
  OBVIOUS
<1>1. NoReplay.pc = "none"
  BY DEF NoReplay
<1> QED
  BY <1>1, LoopAtRest DEF Init, EvidenceOK, ConfirmedOnEvidence

LEMMA NextEvidence == Inv /\ EvidenceOK /\ [Next]_vars => EvidenceOK'
<1> SUFFICES ASSUME Inv, EvidenceOK, [Next]_vars
             PROVE  EvidenceOK'
  OBVIOUS
<1>1. CASE Next
  <2>1. (\A i \in DOMAIN events' : CountIsOfFalses(events[i])') /\ ConfirmedOnEvidence'
    BY <1>1, TableEvidence
  <2>2. /\ live'.pc \in {"filter", "answered"} => \A row \in live'.todo : CountIsOfFalses(row)'
        /\ \A row \in live'.todo : Visiting("answered", row)' => AnswerIsBacked(row, live.answer)'
    BY <1>1, LiveEvidence
  <2>3. /\ replay'.pc \in {"block", "check"} => CountIsOfFalses(replay.row)'
        /\ replay'.pc = "answered" => AnswerIsBacked(replay.row, replay.answer)'
    BY <1>1, ReplayEvidence
  <2> QED
    BY <2>1, <2>2, <2>3 DEF EvidenceOK, CountIsOfFalses, AnswerIsBacked, Visiting
<1>2. CASE UNCHANGED vars
  BY <1>2 DEF vars, chain, EvidenceOK, CountIsOfFalses, AnswerIsBacked, Visiting, ConfirmedOnEvidence
<1> QED
  BY <1>1, <1>2

\* However the checks of the live process and of a backfill interleave, stale
\* snapshots and overwrites included, a row is called not filtered only after
\* three false answers and confirmed only with its log on the chain.
THEOREM EvidenceHolds == Spec => []ConfirmedOnEvidence
<1>1. EvidenceOK => ConfirmedOnEvidence
  BY DEF EvidenceOK
<1> QED
  BY <1>1, InitEvidence, NextEvidence, InvHolds, PTL DEF Spec

-----------------------------------------------------------------------------
(* The inductive invariant of the live process alone: no backfill runs *)

PhaseStatus(pc) ==
  CASE pc \in {"filter", "answered"} -> PendingStatus
    [] pc = "l1" -> ToL1
    [] pc \in {"model", "verifying"} -> ToModel
    [] OTHER -> {}

\* Nobody else writes: a row to be visited is still as it was read.
SnapshotsAreFresh ==
  \A row \in live.todo :
    row.id \in DOMAIN events /\ row = events[row.id] /\ row.status \in PhaseStatus(live.pc)

\* What the loop has found out about the row it is at still holds.
VisitIsFresh ==
  /\ \A row \in live.todo : Visiting("answered", row) => ~TooSoon(row, live.block)
  /\ live.pc = "verifying" => live.read = "l1_confirmed"

\* The last false answer of an undecided row is the last check it remembers.
LastFalseIsRemembered ==
  \A i \in DOMAIN events :
    Undecided(events[i]) /\ Len(falses[i]) > 0 => events[i].last_checked_block = falses[i][Len(falses[i])]

AloneOK ==
  /\ replay = NoReplay
  /\ SnapshotsAreFresh /\ VisitIsFresh
  /\ LastFalseIsRemembered
  /\ FalsesAreSpaced
  /\ HashSealsConfirmed

\* The two ways the loop treats a row: a filter check's write, or anything else.
Answered(i) ==
  /\ Undecided(events[i])
  /\ \E block \in False, answer \in BOOLEAN :
       /\ ~TooSoon(events[i], block)
       /\ events'[i].status = StatusAfter(events[i], answer)
       /\ events'[i].last_checked_block = block
       /\ events'[i].reference_model_hash = events[i].reference_model_hash
       /\ falses'[i] = IF ~answer THEN Append(falses[i], block) ELSE falses[i]

Kept(i) ==
  /\ falses'[i] = falses[i]
  /\ events'[i].last_checked_block = events[i].last_checked_block
  /\ \/ events'[i].status = events[i].status
     \/ events[i].status = "confirmed_not_filtered" /\ events'[i].status = "l1_confirmed"
  /\ \/ events'[i].reference_model_hash = events[i].reference_model_hash
     \/ events[i].status = "l1_confirmed" /\ events'[i].reference_model_hash = "l1_confirmed"

RowsGoOn ==
  /\ \A i \in DOMAIN events : Answered(i) \/ Kept(i)
  /\ \A i \in DOMAIN events' \ DOMAIN events :
       /\ events'[i].status = "pending" /\ events'[i].reference_model_hash = None
       /\ falses'[i] = <<>>

LEMMA AloneSteps ==
  ASSUME BackfillTx = {}, replay = NoReplay, Next
  PROVE  /\ replay' = NoReplay
         /\ \/ UNCHANGED <<events, falses>> \/ FeedInserts \/ LiveCallsFail
            \/ \E row \in live.todo : LiveWrite(row) \/ LiveL1(row) \/ LiveSeal(row)
         /\ \/ UNCHANGED live \/ LiveStep \/ LiveCallsFail \/ LiveDies \/ Restart
<1>1. NoReplay.pc = "none"
  BY DEF NoReplay
<1>2. ~ReplayStep /\ ~ReplayCallFails /\ ~\E tx \in BackfillTx : ReplayInsert(tx)
  BY <1>1 DEF ReplayStep, ReplayCallFails, ReplaySetSource, ReplayLook, ReplayBlock, ReplayDecided, ReplayAsk,
     ReplayWrite, ReplayL1, ReplayReread, ReplaySeal
<1>3. replay' = replay
  BY <1>2 DEF Next, Feed, FeedMessage, FeedInserts, FeedInsert, LiveStep, Wake, NextPhase, LiveSkip, LiveAsk,
     LiveWrite, LiveL1, LiveReread, LiveSeal, LiveCallsFail, LiveCallFails, LiveDies, Restart, NewBlock,
     ListFiltered, LogAppears, others
<1>4. \/ UNCHANGED <<events, falses>> \/ FeedInserts \/ LiveCallsFail
      \/ \E row \in live.todo : LiveWrite(row) \/ LiveL1(row) \/ LiveSeal(row)
  BY <1>2, NextSplits, ReadStepReads DEF InsertStep, ReplayStep
<1>5. UNCHANGED live \/ LiveStep \/ LiveCallsFail \/ LiveDies \/ Restart
  BY <1>2 DEF Next, Feed, FeedMessage, FeedInserts, FeedInsert, NewBlock, ListFiltered, LogAppears
<1> QED
  BY <1>3, <1>4, <1>5

LEMMA KeptByUpdate ==
  ASSUME TypeOK, NEW id \in DOMAIN events, NEW new \in EventRow, Update(id, new), falses' = falses,
         new.last_checked_block = events[id].last_checked_block,
         \/ new.status = events[id].status
         \/ events[id].status = "confirmed_not_filtered" /\ new.status = "l1_confirmed",
         \/ new.reference_model_hash = events[id].reference_model_hash
         \/ events[id].status = "l1_confirmed" /\ new.reference_model_hash = "l1_confirmed"
  PROVE  RowsGoOn
BY UpdateWrites DEF RowsGoOn, Kept

LEMMA FeedInsertion ==
  ASSUME Inv, FeedInserts
  PROVE  Len(events) < MaxRows /\ \E tx \in Tx, block \in 1..MaxBlock : Insert(tx, block, "live_detection")
<1>1. PICK tx \in Tx : FeedInsert(tx)
  BY DEF FeedInserts
<1>2. current_block \in 1..MaxBlock /\ inbox # {}
  BY <1>1 DEF FeedInsert, Inv, TypeOK, FeedOK
<1> QED
  BY <1>1, <1>2, RoomToInsert DEF FeedInsert

LEMMA AloneRows ==
  ASSUME BackfillTx = {}, Inv, AloneOK, Next
  PROVE  RowsGoOn
<1>1. CASE UNCHANGED <<events, falses>>
  BY <1>1 DEF RowsGoOn, Kept
<1>2. CASE FeedInserts
  <2>1. PICK tx \in Tx, block \in 1..MaxBlock : Insert(tx, block, "live_detection")
    BY <1>2, FeedInsertion
  <2> QED
    BY <1>2, <2>1, FeedInsertion, InsertWrites DEF Inv, NewRow, RowsGoOn, Kept
<1>3. ASSUME NEW row \in live.todo, LiveWrite(row)
      PROVE  RowsGoOn
  <2>1. row.id \in DOMAIN events /\ row = events[row.id] /\ Undecided(row) /\ ~TooSoon(row, live.block)
    BY <1>3 DEF LiveWrite, Visiting, AloneOK, SnapshotsAreFresh, VisitIsFresh, PhaseStatus, Undecided
  <2>2. live.answer \in BOOLEAN /\ live.block \in False
    BY <1>3 DEF LiveWrite, Visiting, Inv, TypeOK, LiveState, LiveOK, False
  <2>3. WriteAnswer(row, live.answer, live.block)
    BY <1>3 DEF LiveWrite
  <2>4. /\ DOMAIN events' = DOMAIN events
        /\ \A i \in DOMAIN events :
             /\ events'[i] = IF i = row.id THEN AnsweredRow(row, live.answer, live.block) ELSE events[i]
             /\ falses'[i] = IF i = row.id /\ ~live.answer THEN Append(falses[i], live.block) ELSE falses[i]
    BY <2>1, <2>2, <2>3, AnswerWrites DEF Inv, False
  <2>5. LET new == AnsweredRow(row, live.answer, live.block)
        IN  /\ new.status = StatusAfter(row, live.answer)
            /\ new.last_checked_block = live.block
            /\ new.reference_model_hash = row.reference_model_hash
    BY <2>1, <2>2, AnsweredRowFields DEF Inv, False
  <2>6. ASSUME NEW i \in DOMAIN events, i # row.id
        PROVE  Kept(i)
    BY <2>4, <2>6 DEF Kept
  <2>7. Answered(row.id)
    <3>1. /\ events'[row.id].status = StatusAfter(events[row.id], live.answer)
          /\ events'[row.id].last_checked_block = live.block
          /\ events'[row.id].reference_model_hash = events[row.id].reference_model_hash
      BY <2>1, <2>4, <2>5
    <3>2. falses'[row.id] = IF ~live.answer THEN Append(falses[row.id], live.block) ELSE falses[row.id]
      BY <2>1, <2>4, Zenon
    <3>3. Undecided(events[row.id]) /\ ~TooSoon(events[row.id], live.block)
      BY <2>1
    <3> QED
      BY <2>2, <3>1, <3>2, <3>3, Zenon DEF Answered
  <2> QED
    BY <2>4, <2>6, <2>7 DEF RowsGoOn
<1>4. ASSUME NEW row \in live.todo, LiveL1(row)
      PROVE  RowsGoOn
  <2>1. /\ row.id \in DOMAIN events /\ row = events[row.id]
        /\ row.status = "confirmed_not_filtered" /\ falses' = falses
    BY <1>4 DEF LiveL1, Visiting, AloneOK, SnapshotsAreFresh, PhaseStatus, ToL1
  <2>2. CASE UNCHANGED events
    BY <2>1, <2>2 DEF RowsGoOn, Kept
  <2>3. CASE ~UNCHANGED events
    <3> DEFINE new == [events[row.id] EXCEPT !.status = "l1_confirmed"]
    <3>1. Update(row.id, new)
      BY <1>4, <2>3 DEF LiveL1, L1Confirm
    <3>2. events[row.id] \in EventRow
      BY <2>1, RowIsTyped DEF Inv
    <3>3. /\ new \in EventRow /\ new.status = "l1_confirmed"
          /\ new.last_checked_block = events[row.id].last_checked_block
          /\ new.reference_model_hash = events[row.id].reference_model_hash
      BY <3>2 DEF EventRow, Status
    <3> HIDE DEF new
    <3> QED
      BY <2>1, <3>1, <3>3, KeptByUpdate DEF Inv
  <2> QED
    BY <2>2, <2>3
<1>5. ASSUME NEW row \in live.todo, LiveSeal(row)
      PROVE  RowsGoOn
  <2>1. /\ row.id \in DOMAIN events /\ row = events[row.id]
        /\ row.status = "l1_confirmed" /\ live.read = "l1_confirmed" /\ falses' = falses
    BY <1>5 DEF LiveSeal, Visiting, AloneOK, SnapshotsAreFresh, VisitIsFresh, PhaseStatus, ToModel
  <2> DEFINE new == [events[row.id] EXCEPT !.reference_model_hash = "l1_confirmed"]
  <2>2. Update(row.id, new)
    BY <1>5, <2>1 DEF LiveSeal, SealHash
  <2>3. events[row.id] \in EventRow
    BY <2>1, RowIsTyped DEF Inv
  <2>4. /\ new \in EventRow /\ new.status = events[row.id].status
        /\ new.last_checked_block = events[row.id].last_checked_block
        /\ new.reference_model_hash = "l1_confirmed"
    BY <2>3 DEF EventRow, Status
  <2> HIDE DEF new
  <2> QED
    BY <2>1, <2>2, <2>4, KeptByUpdate DEF Inv
<1>6. ASSUME NEW row \in live.todo, LiveCallFails(row)
      PROVE  RowsGoOn
  <2>1. row.id \in DOMAIN events /\ falses' = falses
    BY <1>6 DEF LiveCallFails, Inv, LiveOK
  <2>2. CASE UNCHANGED events
    BY <2>1, <2>2 DEF RowsGoOn, Kept
  <2>3. CASE ~UNCHANGED events
    <3> DEFINE new == [events[row.id] EXCEPT !.reference_model_verify_attempts = @ + 1]
    <3>1. Visiting("verifying", row) /\ Update(row.id, new)
      BY <1>6, <2>3 DEF LiveCallFails
    <3>2. events[row.id] \in EventRow
      BY <2>1, RowIsTyped DEF Inv
    <3>3. events[row.id].reference_model_verify_attempts < MAX_REFERENCE_MODEL_ATTEMPTS
      BY <3>1 DEF Visiting, Inv, LiveOK
    <3>4. /\ new \in EventRow /\ new.status = events[row.id].status
          /\ new.last_checked_block = events[row.id].last_checked_block
          /\ new.reference_model_hash = events[row.id].reference_model_hash
      BY <3>2, <3>3 DEF EventRow, MAX_REFERENCE_MODEL_ATTEMPTS
    <3> HIDE DEF new
    <3> QED
      BY <2>1, <3>1, <3>4, KeptByUpdate DEF Inv
  <2> QED
    BY <2>2, <2>3
<1> QED
  BY <1>1, <1>2, <1>3, <1>4, <1>5, <1>6, AloneSteps DEF AloneOK, LiveCallsFail

LEMMA AloneSnapshots ==
  ASSUME BackfillTx = {}, Inv, AloneOK, Next
  PROVE  SnapshotsAreFresh' /\ VisitIsFresh'
<1>1. /\ live \in LiveState /\ RowsGoOn /\ DOMAIN events \subseteq DOMAIN events'
      /\ \A row \in live.todo : row.id \in DOMAIN events /\ row = events[row.id]
  BY AloneRows, NextTable DEF Inv, TypeOK, TableGoesOn, AloneOK, SnapshotsAreFresh
<1>2. CASE UNCHANGED live
  <2>1. ASSUME NEW i \in DOMAIN events
        PROVE  events'[i] = events[i] \/ \E row \in live.todo : LiveWrite(row) \/ LiveL1(row) \/ LiveSeal(row)
                                      \/ LiveCallFails(row)
    <3>1. CASE FeedInserts
      <4>1. PICK tx \in Tx, block \in 1..MaxBlock : Insert(tx, block, "live_detection")
        BY <3>1, FeedInsertion
      <4> QED
        BY <3>1, <4>1, FeedInsertion, InsertWrites DEF Inv
    <3> QED
      BY <3>1, AloneSteps DEF AloneOK, LiveCallsFail
  <2>2. ~\E row \in live.todo : LiveWrite(row) \/ LiveL1(row) \/ LiveSeal(row) \/ LiveCallFails(row)
    <3>1. ASSUME NEW row \in live.todo, live'.todo = live.todo \ {row}
          PROVE  FALSE
      BY <1>2, <3>1
    <3>2. ASSUME NEW row \in live.todo, LiveWrite(row) \/ LiveL1(row) \/ LiveSeal(row) \/ LiveCallFails(row)
          PROVE  live'.todo = live.todo \ {row}
      BY <1>1, <3>2 DEF LiveWrite, LiveL1, LiveSeal, LiveCallFails, Visited, LiveState
    <3> QED
      BY <3>1, <3>2
  <2>3. live' = live /\ \A i \in DOMAIN events : events'[i] = events[i]
    BY <1>2, <2>1, <2>2
  <2> QED
    BY <1>1, <2>3 DEF AloneOK, SnapshotsAreFresh, VisitIsFresh, Visiting, TooSoon
<1>3. CASE Wake \/ NextPhase \/ LiveDies \/ Restart
  <2>1. /\ live'.pc \notin {"answered", "verifying"}
        /\ \A row \in live'.todo : row \in Rows /\ row.status \in PhaseStatus(live'.pc)
    <3>1. CASE Wake
      BY <3>1, LoopAtRest DEF Wake, Select, PhaseStatus, LiveState
    <3>2. CASE NextPhase
      <4>1. CASE live' = [Asleep EXCEPT !.pc = "l1", !.todo = Select(ToL1)]
        BY <4>1, LoopAtRest DEF Select, PhaseStatus, LiveState
      <4>2. CASE live' = [Asleep EXCEPT !.pc = "model", !.todo = {r \in Select(ToModel) : Awaiting(r)}]
        BY <4>2, LoopAtRest DEF Select, PhaseStatus, LiveState
      <4>3. CASE live' = Asleep
        BY <4>3, LoopAtRest
      <4> QED
        BY <3>2, <4>1, <4>2, <4>3 DEF NextPhase
    <3>3. CASE LiveDies \/ Restart
      BY <3>3, LoopAtRest DEF LiveDies, Restart
    <3> QED
      BY <1>3, <3>1, <3>2, <3>3
  <2>2. events' = events
    BY <1>3 DEF Wake, NextPhase, LiveDies, Restart
  <2>3. \A row \in Rows : row.id \in DOMAIN events /\ row = events[row.id]
    BY RowIsTyped DEF Rows, Inv
  <2> QED
    BY <2>1, <2>2, <2>3 DEF SnapshotsAreFresh, VisitIsFresh, Visiting
<1>4. ASSUME NEW row \in live.todo, LiveAsk(row) \/ LiveReread(row)
      PROVE  SnapshotsAreFresh' /\ VisitIsFresh'
  <2>1. /\ events' = events /\ live'.todo = live.todo /\ live'.block = live.block
        /\ live'.pc \in {"answered", "verifying"}
        /\ live'.pc = "answered" => live.pc = "filter" /\ LiveAsk(row)
        /\ live'.pc = "verifying" => live.pc = "model" /\ live'.read = events[row.id].status
    BY <1>1, <1>4 DEF LiveAsk, LiveReread, Visiting, LiveState
  <2>2. SnapshotsAreFresh'
    <3>1. PhaseStatus(live'.pc) = PhaseStatus(live.pc)
      BY <2>1 DEF PhaseStatus
    <3> QED
      BY <2>1, <3>1 DEF AloneOK, SnapshotsAreFresh
  <2>3. live'.pc = "verifying" => live'.read = "l1_confirmed"
    BY <2>1 DEF AloneOK, SnapshotsAreFresh, PhaseStatus, ToModel
  <2>4. ASSUME NEW other \in live'.todo, Visiting("answered", other)'
        PROVE  ~TooSoon(other, live.block)'
    <3>1. LiveAsk(row) /\ row \in EventRow /\ other \in EventRow /\ other \in live.todo
      BY <1>1, <2>1, <2>4 DEF Visiting, LiveState
    <3>2. row.id <= other.id /\ other.id <= row.id /\ row.id \in Int /\ other.id \in Int
      BY <2>1, <2>4, <3>1 DEF LiveAsk, Visiting, EventRow
    <3>3. other = row
      BY <3>1, <3>2 DEF Inv, LiveOK
    <3> QED
      BY <2>1, <3>1, <3>3 DEF LiveAsk, TooSoon
  <2> QED
    BY <2>2, <2>3, <2>4 DEF VisitIsFresh
<1>5. ASSUME NEW row \in live.todo,
             LiveSkip(row) \/ LiveWrite(row) \/ LiveL1(row) \/ LiveSeal(row) \/ LiveCallFails(row)
      PROVE  SnapshotsAreFresh' /\ VisitIsFresh'
  <2>1. /\ live'.todo = live.todo \ {row}
        /\ live'.pc \notin {"answered", "verifying"}
        /\ PhaseStatus(live'.pc) = PhaseStatus(live.pc)
    BY <1>1, <1>5 DEF LiveSkip, LiveWrite, LiveL1, LiveSeal, LiveCallFails, Visited, Visiting, LiveState, PhaseStatus
  <2>2. \A i \in DOMAIN events : i # row.id => events'[i] = events[i]
    <3>1. events' = events \/ \E new : events' = [events EXCEPT ![row.id] = new]
      BY <1>5 DEF LiveSkip, LiveWrite, LiveL1, LiveSeal, LiveCallFails, WriteAnswer, L1Confirm, SealHash, Update
    <3>2. events \in Seq(EventRow)
      BY DEF Inv, TypeOK
    <3> QED
      BY <3>1, <3>2
  <2>3. \A other \in live.todo \ {row} : other.id # row.id
    BY DEF Inv, LiveOK
  <2> QED
    BY <1>1, <2>1, <2>2, <2>3 DEF AloneOK, SnapshotsAreFresh, VisitIsFresh, Visiting
<1> QED
  BY <1>2, <1>3, <1>4, <1>5, AloneSteps DEF AloneOK, LiveStep, LiveCallsFail

\* Checks are spaced because an undecided row remembers its last false answer.  A
\* confirmed row was called not filtered before, and nothing has taken that back.
LEMMA AloneSpacing ==
  ASSUME BackfillTx = {}, Inv, EvidenceOK, AloneOK, Next
  PROVE  LastFalseIsRemembered' /\ FalsesAreSpaced'
<1>1. ASSUME NEW i \in DOMAIN events'
      PROVE  /\ Undecided(events'[i]) /\ Len(falses'[i]) > 0 =>
                  events'[i].last_checked_block = falses'[i][Len(falses'[i])]
             /\ \A j \in 1..(Len(falses'[i]) - 1) :
                  falses'[i][j + 1] - falses'[i][j] >= MIN_BLOCKS_BETWEEN_CHECKS
  <2>1. CASE i \notin DOMAIN events
    <3>1. falses'[i] = <<>>
      BY <1>1, <2>1, AloneRows DEF RowsGoOn
    <3> QED
      BY <3>1
  <2>2. CASE i \in DOMAIN events /\ Kept(i)
    <3>1. Undecided(events'[i]) => Undecided(events[i])
      BY <2>2 DEF Kept, Undecided, PendingStatus
    <3> QED
      BY <2>2, <3>1 DEF Kept, AloneOK, LastFalseIsRemembered, FalsesAreSpaced
  <2>3. CASE i \in DOMAIN events /\ Answered(i)
    <3>1. PICK block \in False, answer \in BOOLEAN :
            /\ ~TooSoon(events[i], block)
            /\ events'[i].status = StatusAfter(events[i], answer)
            /\ events'[i].last_checked_block = block
            /\ falses'[i] = IF ~answer THEN Append(falses[i], block) ELSE falses[i]
      BY <2>3, Zenon DEF Answered
    <3>2. falses[i] \in Seq(False)
      BY <2>3, RowIsTyped DEF Inv
    <3>3. CASE answer = TRUE
      <4>1. falses'[i] = falses[i] /\ ~Undecided(events'[i])
        BY <3>1, <3>3 DEF StatusAfter, Undecided, PendingStatus
      <4> QED
        BY <2>3, <4>1 DEF AloneOK, FalsesAreSpaced
    <3>4. CASE answer = FALSE
      <4> DEFINE n == Len(falses[i])
      <4>1. falses'[i] = Append(falses[i], block)
        BY <3>1, <3>4, Zenon
      <4>2. /\ n \in Nat /\ Len(falses'[i]) = n + 1 /\ falses'[i][n + 1] = block
            /\ \A j \in 1..n : falses'[i][j] = falses[i][j] /\ falses[i][j] \in False
        BY <3>2, <4>1
      <4>3. n > 0 => block - falses[i][n] >= MIN_BLOCKS_BETWEEN_CHECKS
        <5>1. n > 0 => events[i].last_checked_block = falses[i][n] /\ falses[i][n] \in False
          BY <2>3, <4>2 DEF Answered, AloneOK, LastFalseIsRemembered
        <5>2. \A b \in False : b \in Nat /\ b # None
          BY PipelineAssumption DEF False
        <5> QED
          BY <3>1, <5>1, <5>2 DEF TooSoon, MIN_BLOCKS_BETWEEN_CHECKS
      <4>4. \A j \in 1..(n - 1) : falses[i][j + 1] - falses[i][j] >= MIN_BLOCKS_BETWEEN_CHECKS
        BY <2>3 DEF AloneOK, FalsesAreSpaced
      <4>5. ASSUME NEW j \in 1..n
            PROVE  falses'[i][j + 1] - falses'[i][j] >= MIN_BLOCKS_BETWEEN_CHECKS
        <5>1. CASE j = n
          BY <4>2, <4>3, <4>5, <5>1
        <5>2. CASE j # n
          BY <4>2, <4>4, <4>5, <5>2
        <5> QED
          BY <5>1, <5>2
      <4> QED
        BY <3>1, <4>2, <4>5
    <3> QED
      BY <3>3, <3>4
  <2> QED
    BY <2>1, <2>2, <2>3, AloneRows DEF RowsGoOn
<1>2. ASSUME NEW i \in DOMAIN events', events'[i].status \in {"confirmed_not_filtered", "l1_confirmed"}
      PROVE  Len(falses'[i]) >= REQUIRED_FALSE_STREAK
  <2>1. CASE i \notin DOMAIN events
    BY <1>2, <2>1, AloneRows DEF RowsGoOn
  <2>2. CASE i \in DOMAIN events /\ Kept(i)
    <3>1. events[i].status \in {"confirmed_not_filtered", "l1_confirmed"} /\ falses'[i] = falses[i]
      BY <1>2, <2>2 DEF Kept
    <3> QED
      BY <2>2, <3>1 DEF AloneOK, FalsesAreSpaced
  <2>3. CASE i \in DOMAIN events /\ Answered(i)
    <3>1. events'[i].status = "confirmed_not_filtered"
      BY <1>2, <2>3 DEF Answered, StatusAfter
    <3> QED
      BY <1>2, <3>1, TableEvidence DEF ConfirmedOnEvidence
  <2> QED
    BY <2>1, <2>2, <2>3, AloneRows DEF RowsGoOn
<1> QED
  BY <1>1, <1>2 DEF LastFalseIsRemembered, FalsesAreSpaced, Undecided

LEMMA AloneSeals ==
  ASSUME BackfillTx = {}, Inv, AloneOK, Next
  PROVE  HashSealsConfirmed'
<1>1. ASSUME NEW i \in DOMAIN events', events'[i].reference_model_hash # None
      PROVE  events'[i].reference_model_hash = "l1_confirmed" /\ events'[i].status = "l1_confirmed"
  BY <1>1, AloneRows DEF RowsGoOn, Answered, Kept, Undecided, PendingStatus, AloneOK, HashSealsConfirmed
<1> QED
  BY <1>1 DEF HashSealsConfirmed

LEMMA InitAlone == Init => AloneOK
BY LoopAtRest DEF Init, AloneOK, SnapshotsAreFresh, VisitIsFresh, Visiting, LastFalseIsRemembered, FalsesAreSpaced,
   HashSealsConfirmed

LEMMA NextAlone ==
  ASSUME BackfillTx = {}
  PROVE  Inv /\ EvidenceOK /\ AloneOK /\ [Next]_vars => AloneOK'
<1> SUFFICES ASSUME Inv, EvidenceOK, AloneOK, [Next]_vars
             PROVE  AloneOK'
  OBVIOUS
<1>1. CASE Next
  BY <1>1, AloneSteps, AloneSnapshots, AloneSpacing, AloneSeals DEF AloneOK
<1>2. CASE UNCHANGED vars
  BY <1>2 DEF vars, chain, AloneOK, SnapshotsAreFresh, VisitIsFresh, Visiting, TooSoon, LastFalseIsRemembered,
     FalsesAreSpaced, HashSealsConfirmed
<1> QED
  BY <1>1, <1>2

\* As long as no backfill runs: a row that is called not filtered, or confirmed after
\* it, has three false answers, and each false answer is at least two blocks after the
\* one before it, whatever call fails and wherever the process dies.
THEOREM SpacingHolds ==
  ASSUME BackfillTx = {}
  PROVE  Spec => []FalsesAreSpaced
<1>1. AloneOK => FalsesAreSpaced
  BY DEF AloneOK
<1> QED
  BY <1>1, InitEvidence, NextEvidence, InitAlone, NextAlone, InvHolds, PTL DEF Spec

\* As long as no backfill runs: a sealed hash is of a confirmed row and stays so.
THEOREM SealsHold ==
  ASSUME BackfillTx = {}
  PROVE  Spec => []HashSealsConfirmed
<1>1. AloneOK => HashSealsConfirmed
  BY DEF AloneOK
<1> QED
  BY <1>1, InitEvidence, NextEvidence, InitAlone, NextAlone, InvHolds, PTL DEF Spec

\* As long as no backfill runs: no step takes a row's status back.  (The run
\* BackfillOverwrites shows that it is the second process that can.)
THEOREM GoesForward ==
  ASSUME BackfillTx = {}
  PROVE  Spec => StatusGoesForward
<1>1. Inv /\ AloneOK /\ [Next]_vars =>
        [\A i \in DOMAIN events :
           /\ events[i].status = "filtered" => events'[i].status = "filtered"
           /\ Rank(events'[i].status) >= Rank(events[i].status)]_vars
  <2> SUFFICES ASSUME Inv, AloneOK, Next, NEW i \in DOMAIN events
               PROVE  /\ events[i].status = "filtered" => events'[i].status = "filtered"
                      /\ Rank(events'[i].status) >= Rank(events[i].status)
    OBVIOUS
  <2>1. events[i].status \in Status
    BY RowIsTyped DEF Inv, EventRow
  <2>2. CASE Answered(i)
    <3>1. PICK answer \in BOOLEAN : events'[i].status = StatusAfter(events[i], answer)
      BY <2>2 DEF Answered
    <3> QED
      BY <2>2, <3>1 DEF Answered, StatusAfter, Rank, Undecided, PendingStatus
  <2>3. CASE Kept(i)
    BY <2>1, <2>3 DEF Kept, Rank, Status
  <2> QED
    BY <2>2, <2>3, AloneRows DEF RowsGoOn
<1> QED
  BY <1>1, InitEvidence, NextEvidence, InitAlone, NextAlone, InvHolds, PTL DEF Spec, StatusGoesForward
=============================================================================
