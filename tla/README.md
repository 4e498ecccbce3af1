# Gapwatch in TLA+

TLA+ models of Gapwatch, model-checked with TLC on small instances, and theorems about them
proved with TLAPS for every value of the constants. Paths below are relative to the repository;
`V2` is `contracts/src/GapwatchRegistryV2.sol`.

## The system

Gapwatch watches the sequencer feed of Robinhood Chain for transactions that change a stock
token's multiplier, decides off chain whether each was compliance-filtered, and records the
outcome on chain once two of three nodes have signed it.

| Component | Source | State | Operations |
|---|---|---|---|
| Feed task and filter engine | `main.py:185-192`, `src/filter_engine.py`, `src/feed_listener.py` | `shared_state["current_block"]`, the set of monitored tokens | a message advances the block and inserts a row per matching transaction |
| State-machine loop | `main.py:146-175` | none of its own | every 15 s: filter checks, L1 confirmations, reference model, cache, factory scan |
| Event store | `src/event_store.py` | SQLite table `events` | insert, unconditional updates by id, selections by status |
| Filter verifier | `src/filter_verifier.py` | in the row: status, count, last checked block | one check: too soon, failed, `true`, or one more `false` |
| L1 confirmer | `src/l1_confirmer.py` | in the row: status | looks for the transaction's own log |
| Reference model | `src/reference_model.py` | in the row: hash, failed attempts | asks the chain for the log and the token for its three values, judges, seals a hash over what it read |
| Backfill scripts | `scripts/backfill_*.py` | a local loop counter | replay a known event through the same functions, in a process of their own |
| Token registry | `src/token_registry.py` | state file; the live set | incremental factory scan, approval, merge into the set |
| Consensus verifier | `contracts-stylus/src/lib.rs`, `ConsensusVerifierMock.sol` | none | counts the distinct nodes among a list of signatures |
| Registry V2 | `V2` | records, challenges, credits, flags, settings | record, report, challenge, resolve, reclaim, withdraw, owner settings |
| Lending pool | `contracts/src/MockLendingPool.sol` | positions, paused tokens | open, pause, check |
| Registry V1 | `contracts/src/GapwatchRegistry.sol` | as V2, with a relayer and an owner | as V2, without consensus |
| On-chain cache and API | `src/api.py`, `src/registry_client.py`, `main.py:33-76` | the cache column, the loop's HTTP session | the loop marks recorded rows once per tick; requests read SQLite, the state file and either registry |
| Frontend, demo scripts, deployment files, vendored libraries | | | present results or configure; no state of the system |

How they interact:

- The feed task and the loop share one asyncio event loop. A tick's calls are synchronous, so
  the feed moves only while the loop sleeps. An error that no call catches ends the TaskGroup
  and the process; docker restarts it and what survives is the table and the state file.
- A backfill run is a second process on the same database. Every database access commits on its
  own, and updates name only the row's id, so a write computed from an old read is not refused.
- A person, not the program, takes a sealed event to `recordVerification`. The nodes' signatures
  are bound to the contract and the chain. The registry asks the filter precompile and the token
  again and stores what they answer.
- Registry calls are atomic except `withdraw`, which hands control to the recipient. Only
  `withdraw` is `nonReentrant`.
- The cache and the API read the registries through a handle: an address from `deployment.json`
  paired with an RPC endpoint. A request reads several times, and nothing ties those reads together.
- The pool reads the registry's latest pointer and flag, and only in `pauseLiquidation`.

What is hard: interleaved reads and writes of two processes; deaths between two commits; failed
calls and their retries; checks that must be spaced; money that moves in any order of calls by
parties that do not trust each other; a token that changes between two calls that ask about it;
requests that read a registry while it is written; a dropped session in the middle of a tick; a nested call; settings that change under a running
challenge; signatures that are late, repeated, or made for another deployment. `PROJECT.json`
lists each hazard at its line with the properties that cover it.

What makes each component correct:

- verifier: the answer is the number of different expected nodes that signed, and malformed
  input of any one signature ends the call;
- registry: the contract holds exactly what it owes; a challenge is over a bond that is still
  there; an outcome is final; records are permanent; every effect was signed by two nodes for
  this deployment; nothing is stuck;
- pool: a token is paused only on evidence of its own;
- pipeline: three spaced `false` answers before "not filtered"; a log before "confirmed"; only
  forward; a hash only over a confirmed row; everything in the table is settled;
- reference model: a match is of an update that took effect, unless its value coincides with one that did; the same facts give the same
  hash in every process and database; no process seals a row twice; a report says what the run's own verification found;
- readers: no badge without a record; a tick reaches every row; an answer of several reads is about one record; a client that
  pages gets every row once;
- token registry: the checkpoint never passes what was learned; nothing unapproved is monitored
  and nothing known forgotten; a deployment is monitored in the end.

## Modules

| Module | Models | Checked by | Proofs |
|---|---|---|---|
| `ConsensusVerifier` | one call of `verify_consensus`, a step per signature; the mock as a function | `ConsensusVerifier.cfg` | `ConsensusVerifier_proofs` |
| `WeiTotals` | the sum of a finite table of amounts | (through the registries) | `BondEscrow_proofs` |
| `BondEscrow` | abstract: what both registries promise about money | (through the registries) | `BondEscrow_proofs` |
| `RecordLog` | abstract: what both registries promise their readers | (through the registries and the readers) | |
| `GapwatchRegistryV2` | the registry, its owner, the nodes, precompile, tokens and clock; implements `BondEscrow` and `RecordLog` | `RegistryEscrow.cfg` | `GapwatchRegistryV2_proofs` |
| `MockLendingPool` | the pool; EXTENDS the registry and runs beside all of its steps | `LendingPool.cfg` | `GapwatchRegistryV2_proofs` |
| `GapwatchRegistry` | V1, with relayer and owner; implements `BondEscrow` and `RecordLog` | `RegistryV1.cfg` | `GapwatchRegistry_proofs` |
| `EventPipeline` | feed task, loop, event store, verifier, confirmer, sealing, and one backfill run | `Pipeline*.cfg`, `BackfillOverwrites.cfg` | `EventPipeline_proofs` |
| `ReferenceModel` | `verify_event` call by call, by live loops and scripts on shared or separate databases, while the token changes | `Reference*.cfg` | `ReferenceModel_proofs` |
| `TokenRegistry` | the factory scan, its state file and the live set | `Token*.cfg` | `TokenRegistry_proofs` |
| `RegistryReaders` | cache refresh and API requests over two instances of `RecordLog` | `RegistryReaders.cfg` | `RegistryReaders_proofs` |

What is composed with what: `MockLendingPool` runs beside the detailed V2; `RegistryReaders` runs beside two `RecordLog`s, which is
sound because V1 and V2 implement it; `ReferenceModel` takes the filter and L1 checks, `EventPipeline`'s
subject, as writes of any status they may write, and `EventPipeline` keeps of the reference model only that it seals a hash, or fails and counts.

Each `MC` module instantiates the module of its name. Definitions whose comment says *seeded
fault* are not part of a specification: each is a definition of the model as a plausible bug
would have it, and the mutants of `PROJECT.json` put it in the definition's place to show that
the property notices.

### ConsensusVerifier

One behaviour is one call. `signatures` is the argument, `i` and `seen` are the loop's variables
and `result` is the outcome. `RevertCall`, `SkipSignature`, `CountVote` are the branches of the
loop body and `Answer` the end. A signature is a record of what the code distinguishes: length,
low `s`, `v`, and the precompile's answer for each recovery id. `MockVerify` is the Solidity mock
with its preallocated array, turn by turn (`MockTurn`), its errors included; a failing precompile is the one thing it cannot meet.

### GapwatchRegistryV2

A step is one successful external call; a reverted call changes nothing and so is no step.
`withdraw` is two steps, up to its external call and from its return, and any other function may
run between them; `withdrawing` is the reentrancy guard. A withdrawal whose transfer fails
reverts together with everything nested in it, so only accounts in `Payable` take `WithdrawCall`.
`signed` is the set of signatures that nodes have produced: verifying a list is `ConsensusVerifier`'s
subject, and a caller who can submit any list passes exactly when two nodes have signed.
`filtered`, `uiMultiplier` and `now` are the chain's answers and may change between any two calls
(`now` not inside a transfer). `content` stands for the old multiplier, the new-multiplier argument
and the reference-model hash. The digest binds all three; of the new-multiplier argument the
contract keeps nothing, so `content` is there more than is stored.

`Escrow` and `Log` instantiate the two abstract specifications. An event is an item of the escrow: `none` until it is recorded,
`posted` while its bond is up, `contested` while a challenge is open, `settled` once the bond is zero (at once if it was recorded
with none). The log's record of an event is the stored one without its bond. Nodes, owner, clock and the chain's answers are stutters of
both.

### GapwatchRegistry (V1)

The same shape with a relayer in the place of the signatures and an owner in the place of `resolveChallenge`'s consensus; `content`
holds everything the caller supplies, since V1 compares nothing with the chain. The mapping to the abstract specifications is V2's.

### BondEscrow, RecordLog

What a consumer may rely on, without time, roles, windows or signatures. `BondEscrow`: a bond is posted for an item once, matched at
most once, and released to its poster or paid with the stake to one of the two parties; ether leaves only as somebody's whole credit.
`RecordLog`: records are written once and never change, a flag stays, a token's pointer leads to the record written for it last.

### MockLendingPool

`PoolNext` is a pool step, or any registry step. `checkLiquidatable` is the predicate
`CheckLiquidatable`. No property is about positions: they are the state of the pool that `OpenPosition` writes and `CheckLiquidatable`
reads, and the code promises nothing of them that could be wrong. What its comment suggests, that a flagged discrepancy refuses a
liquidation, does not hold (below).

### EventPipeline

`live.pc` says where the loop is: asleep, in one of the three phases over the rows it has read
(`todo`, the snapshots still to be visited, in order of id as the queries return them), or between the answer of a call and the write (`answered`, `verifying`). `replay` is the
same for a backfill run. `WriteAnswer` takes the status from the caller's snapshot and increments the
count in the table, as `update_status` does. `falses` is a history variable: the blocks at which `false`
was written for each row. `LiveDies` stands for an uncaught error or a kill at any point,
`LiveCallFails` for a caught one. An L1 check is one step: it uses only columns that never change,
and a log that is found stays. `block` of a check is the block its caller passes. The two scripts have
the same control; the run modelled is of one transaction.

Not in the model: the cache columns (`RegistryReaders` has them), the wording of logs, schema migration. The reference model's hash
is abstracted to the one thing of the row that it covers and that can change, the status; `ReferenceModel` has the rest.

### ReferenceModel

`token` is the contract's three values, `logs` its `UIMultiplierUpdated` logs; a block carries no update, one, or two, and an update
that does not land leaves its log and no effect, which is what the verdict is there to notice. `Multiplier` is what may be announced: an update may
repeat an earlier value or go back to the initial one.

A process is a live loop (`Live`) or a run of `backfill_new_token_events.py` (`Scripted`), and `DatabaseOf` the database it opens. By default both
open the same one (`DEFAULT_DB_PATH`, `backfill_new_token_events.py:237`), so processes share tables (`Table`); only two live loops on one database are
excluded, since `main.py` runs as one service. `worker[p]` is where a process is and what it has read. Every step is one access to the table or one call to the
chain, and a write changes what it names and nothing else, whatever the row says by then: `SetStatus` the status, `Seal` the hash.

- The loop. `Tick`, `ConfirmPhase` and `ReferencePhase` are the three queries of a tick, whose rows it visits in order of id (`First`, `Visit`); `Awaiting` is
  its look at hash and attempts, on the row as the query returned it. `LoopFails` counts a failed verification.
- `verify_event`. `ReadEvent` reads the row, and with it the log of exactly its block (`EventLog`, the first if there are several), which
  no longer changes; `ReadUi`, `ReadNew`,
  `ReadEffectiveAt` are the three calls at `latest`; `Judge` asks for the timestamp; `Seal` writes the hash whatever the verdict. The hash covers the status
  of `ReadEvent`, which may be stale by then.
- The script. A step per look at the row and per check, for both of its loops; `ScriptTimesOut` is the `else` of a `for`, which
  runs also if the last pass succeeded; `ScriptReports` reads the row again (215-218), so a report joins the script's own verdict with the status and hash that are in the
  row by then. `ScriptFails` is a failed call, a mismatch for the script; `ScriptException` anything else that is raised.

How many passes the filter and L1 loops take is left open, and what a check answers: it leaves the row alone or writes any status it may
write. SHA-256 is taken as injective, so a hash is the record it covers. `changes`, `tookEffect`, `token.by` and `token.was`, and `seals` are history. The sample balances
in the hash are a function of the log's multipliers and left out.

### RegistryReaders

`worker` is one pass of `_refresh_onchain_cache`: the rows still to be looked at, the HTTP session (`fresh` or `dropped`), and as history which rows were
due and which of their own calls failed. `FindDropped` and `RebuildAndRetry` are the handler of a dropped session; `AskFails` is
any other failure. `request` is one request to the API, a step per read: the row then the chain for `/events/{id}`, three calls for
`/tokens/{address}/verification-status`, a query per page for `GET /events`. `RegistryFor` is how `api.py` pairs an address with an
endpoint: `source=v1` takes the address of `GAPWATCH_NETWORK` and always the testnet endpoint, `source=v2` always mainnet for both. A handle whose
address belongs to another chain than its endpoint reaches nothing (`Reachable`), and every call through it fails.

### TokenRegistry

`scan` is the scan in progress: `load` (read the file), `head` (ask for the block number), `logs` (ask
for the logs, apply them, write), `merge` (update the live set). Blocks arrive at any point; those up to the
head that was asked for are settled. `Dies` may hit the write and leave a file that does not parse.
A symbol is abstracted to the verdict of `is_valid_symbol` (`malformed`: the log does not decode). A set of logs is the set of their
positions (`InRange`), so that the order in which they were emitted is kept: `LastDecides` is the loop's overwriting of what an
earlier log of the same token said.

## Runs

| Run | Instance | Question | Answer |
|---|---|---|---|
| `consensus` | all lists of up to 4 of 11 signatures, 3 nodes and an outsider | Is the count the number of different nodes, in every order and with repetitions? Does only a malformed signature end the call? Does the mock agree? | holds |
| `registry_escrow` | 2 events, 2 accounts of which one refuses ether, amounts up to 2, an owner who sets windows 0, 1 and tries one over the cap | Does the contract hold exactly what it owes, inside a transfer too? Does it implement `BondEscrow`? Is a resolution final? Is every bond credited and every account that accepts ether paid? | holds |
| `lending_pool` | 2 events, 2 tokens, 3 nodes that disagree, signatures for another deployment, changing answers of the chain | Is every effect signed, as stored? Does the registry implement `RecordLog`? Is the pointer to the newest record? Has every pause evidence of its own? | holds |
| `registry_v1` | 2 events, 2 accounts that take turns as relayer, bonds 0 and 1, an owner who may give up ownership | Does V1 implement the same two abstract specifications? Is every bond credited while there is an owner? | holds |
| `pipeline_live` | 2 rows of one transaction, 7 blocks, 3 failures or deaths | Are there three spaced answers, is only a confirmed row sealed, does no status go back, is every row settled? | holds |
| `pipeline_backfill` | a backfill run and the loop on one row, 5 blocks, 1 failure | Does a conclusion always have its evidence? | holds |
| `backfill_overwrites` | the same | Is `filtered` terminal? | **no**, finding 1 |
| `reference_model` | the live loop and a script with a list of two events, out of order, on one database with one row; two updates of either of two multipliers, the first effective a block later; 4 blocks, 1 failure or death | Do the same facts give the same hash? Is a match earned, although the token changes between calls and values repeat? Does nobody seal a row twice? Does the script report each event, and its own verification of it? | holds |
| `reference_reproducible` | two live databases, one row each, 3 blocks | Is a hash a function of the event? | **no**, finding 2 |
| `token_scan` | 2 tokens, 3 blocks, 2 failures, 1 torn write, old and new files | Is nothing lost behind the checkpoint, blanked or monitored unapproved? Is every approved deployment monitored in the end? | holds |
| `token_rejected` | the same without failures | Is a rejected deployment not monitored? | **no**, finding 3 |
| `readers` | 2 events of one token, 2 rows, pages of one row, 2 records and a flag, 2 mishaps, both networks | Is no badge without its record? Does a tick reach every row? Are answers of several reads about one record, and never behind? Does a client that pages get each row once? Is a recorded row cached in the end? | holds |

Why the bounds are enough. The streak is three answers two blocks apart, so five blocks decide a row
and seven leave room for a failure and one more; a second row shows what a phase does with a list. Three failures are
what it takes for the loop to give a row up. A bond, a stake and a
credit meet in one event, and a second event shows that one does not pay for the other. Two accounts are a recorder
and a challenger. In time 1 to 3 with a window of at most 1 a window is open, at its last moment, and over.
`MAX_UINT` is 9, so that a window over the cap would overflow. Four signatures repeat each of three nodes with one to spare.
Three blocks allow a deployment between two scans, one between two questions of a scan, and two of the same token. Four blocks
hold two updates in one block, in neighbouring ones, and one whose `effectiveAt` falls into the middle of a verification. In `reference_model` one row is
what two processes can disturb each other on: the script inserts it and both check, verify and seal it, so that a row gets two seals, changes after it was
reported, or is sealed with a status that has just been taken back; all three were seen to happen. The rest of the list then finds the table full and stays to the exception. In `readers` a
second record of the token moves the pointer between two reads of a request, and two mishaps are a dropped session and the failure of its retry.
`registry_escrow` has no discrepancies (they move no money; `Reason` is empty) and no late signatures; `lending_pool`, where the registry's
steps are all taken beside the pool's, has both. The minimum bond is zero in `registry_escrow`: it is only a lower bound on what `recordVerification`
accepts, so every behaviour under another minimum is one under zero. That too small a bond is refused is in `lending_pool` (minimum 1), the
change of the minimum in `registry_v1` (0 and 1). The theorems hold for any.

Runs switch deadlock checking off where the system stops at a bound: the clock, the blocks, the rows.

### Fairness

- `GapwatchRegistryV2`: nothing schedules callers, so `FairSpec` names what is assumed: blocks are
  produced, a recorder reclaims, an account that is owed withdraws, and nodes that have signed for an outcome
  bring it in. What is shown is that the contract never stands in their way.
- `GapwatchRegistry`: the same, with an owner who decides. `BondsAreCredited` excepts an ownership given up: then a bond under an
  open challenge, and its stake, stay for ever.
- `EventPipeline`: the chain and the event loop go on and docker restarts the process
  (`restart: unless-stopped`). The feed has strong fairness because it is enabled only while the loop sleeps, again and again:
  asyncio runs it in every sleep. The backfill run has none, since it is started by hand and may be abandoned.
- `TokenRegistry`: the loop ticks and docker restarts. Failed calls and deaths are bounded, which
  stands for an endpoint that works again in the end. A torn write is the exception in
  `DeploymentsAreMonitored`: after one, every start dies in `json.loads` and nothing but a person helps.
- `RegistryReaders`: the loop ticks (weak fairness of `Loop`); requests, writers and mishaps are under no obligation.
  `RecordedIsCached` is about testnet: on mainnet no badge is ever set (see below).
- `MaxAhead` bounds how far the feed runs ahead of a row that is still to be decided, so that the model's few blocks are not
  over before the loop has looked three times; on the chain there is always a next block.

## Findings

1. `backfill_overwrites`. `filtered` is said to be terminal. A process that got its `false` before the transaction was listed
   writes it after the other process has written `filtered`.
2. `reference_reproducible`. The comment of the loop says that the inputs of a hash are the chain at a fixed block, so that it never
   needs to be computed again. Three of them are the token's values at `latest`: two databases that verify one event before and after the token changes
   seal different hashes for good. `QuietFactsSealAlike` is the part that holds.
3. `token_rejected`. A rejected deployment of a token that is already known is put in `pending_review` but stays in `tokens`, so it is monitored
   although the log says that it is not.

### What else the models show

These follow from the models, or from reading for them, and have no run of their own.

- The pool goes on liquidating between `reportDiscrepancy` and somebody's `pauseLiquidation`, although `checkLiquidatable` is said to refuse outright
  (`MockLendingPool.sol:54-59`); it reads only the pool's own flag.
- A backfill run that dies between its two commits leaves a replayed row marked `live_detection` (`backfill_known_event.py:102-103`).
- The run reads the row again after its filter loop and goes on in any status but `filtered`; a stale write of the
  live loop in between takes it to `l1_confirmed` without three `false` results (`backfill_known_event.py:127`). `FalsesAreSpaced`, which
  `pipeline_live` shows of the live process alone, fails for the same reason when two processes check one row.
- With `GAPWATCH_NETWORK=mainnet` the default source of the API, and the cache, pair V2's mainnet address with the testnet endpoint: each such request
  is a 503 and no row ever gets its badge, although `api.py:128-136` is written so that contract and chain belong together.
- "The update never took effect" can be said of one that did: `uiMultiplier` is read before the timestamp it is judged by, and a later update
  supersedes an earlier one.
- The converse can be wrong too, in one way: only values are compared (`reference_model.py:156`). An update that never took effect is a match
  if its multiplier is the initial one or that of another update that did, although the module's docstring (`reference_model.py:18-20`) has such a
  transaction fail the check. `MatchIsEarned` shows that this coincidence (`Coincides`) is the only way.
- The live loop and the script, on the script's default database, can each seal the same row: `verify_event` writes the hash unconditionally
  (`reference_model.py:244`), and `reference_model_hash IS NULL` is looked at only by the loop, when it selects its rows (`main.py:111`). The later hash stays,
  and may differ from the earlier one if the token or the row's status changed in between. `NobodySealsTwice` is the part that holds: a process
  on its own never seals a row again.
- What the script's summary says of a row need not be what the row says: the verdict is its own, the hash beside it may be the loop's, and the loop may write
  status or hash after the report. `ReportIsTrue` is the part that holds. The hash can also cover a status other than `l1_confirmed`, if a stale write of
  a filter check took the row back just before `verify_event` read it.
- The hash does not cover the verdict, and a row is sealed on a mismatch too, so the number of sealed rows says nothing of mismatches.
- The L1 confirmer looks for a log within three blocks of the row's, the reference model at exactly the row's block: a row confirmed
  from a neighbouring block is sealed with an empty log, and reported as a mismatch.
- `backfill_new_token_events.py` reports a timeout when the last pass of a loop succeeded, and a failed call of `verify_event` as a mismatch.
- Signatures do not expire; whoever submits first among two signed outcomes of a challenge decides it.

## Proofs

All theorems hold for any finite sets of events, accounts, tokens and nodes, any amounts and any bounds, under the
named assumptions of the modules (`KeysAssumption`, in V1 `RolesAssumption`: the unset values are not keys; `SignaturesAssumption`: this
deployment is one of those that digests can name; `NumbersAssumption`: the clock's bound plus
`MAX_CHALLENGE_WINDOW` does not exceed `MAX_UINT`, which for 365 days and 2^256 - 1 is the reason the cap exists).

**ConsensusVerifier_proofs.** `AnswerIsVoterCount` and `RevertsOnMalformed`. The inductive invariant `IInv` says what the loop
has done before position `i`: `seen` has no repetition and its elements are exactly the voters among the signatures already
examined, none of which was malformed; and what a finished call's result is. Without distinctness the
length of `seen` would not be the cardinality of the set of voters. `QuorumDecides` follows: what a list of signatures passes or not depends on
is the set of nodes that signed. `GapwatchRegistryV2` models exactly that much of the verifier (`ConsensusReached`), so the theorem joins the two modules.

`MockAgreesAlways`: the mock ends as the Stylus loop does, for lists of any length. `MockInv` runs the two loops side by side
(`MockMatches`): after `i - 1` turns the first `count` entries of the mock's array are `seen`, the array has room for the rest, and no error has
occurred; an error stays (`MockErrorStays`), so what follows a malformed signature does not matter. The mock's loop is a recursive function. That
there is a function its definition speaks of is proved by induction on the number of turns (`MockTurnsExist`, `MockLoopTurns`). The library's induction
theorem takes a predicate as a parameter, which the provers cannot instantiate; `InductionOverSet` says the same of a set of numbers, from the
well-foundedness of `<`, and sets they can.

**BondEscrow_proofs.** Of `WeiTotals`: `Total(f)` is the cardinality of the set of pairs of a key and one of its coins, which makes a sum a finite set
rather than a recursion, so that the finite-set theorems apply. `TotalZero`, `TotalUpdate` (changing one entry changes the total
by the difference) and `TotalCovers` (no entry exceeds the total) are all that the books need. Of the escrow, for any finite sets of items and parties:
`EscrowHoldsWhatItOwes`, it holds the bonds, the stakes and the credits, and so `CreditsFunded`, no credit exceeds what is there. The strengthening is
`Parties`: an item that can be settled has its parties, and no stake before it is contested.

**GapwatchRegistryV2_proofs.** `TypeCorrect` is inductive by itself, the cap on the window included, and `DeadlinesFit` follows from it.
`BooksKept` strengthens the statement about challenges, per event: what a record that does not exist implies, that an
open challenge is over a posted bond and matches it, and that a resolved one has no bond left. The
last is what makes a second challenge impossible and `ResolutionIsFinal` provable, although the code has no such
guard: `challenge` refuses because the bond is zero. `LatestNewest` needs that no record lies in the future (`NoFutureRecord`).
`EffectsSigned` rests on `ConsensusStays`: signatures are only ever added. `RecordsPermanent` is an action property proved action by action.
`NoConsensusOfFaultyNodes` says that a set of faulty nodes smaller than the threshold never reaches consensus on its own.
With `EffectsSigned` it gives `EffectsAreHonest`: while only one node is faulty, whatever it signs, each record, flag and resolution
has the signature of another behind it.

`RefinesBondEscrow` and `RefinesRecordLog`: the registry implements both abstract specifications, step by step, under
the mappings of `GapwatchRegistryV2`. The escrow needs `BooksKept`: that an open challenge is over a posted bond is what makes `resolveChallenge` a
`Decide`, and that an unrecorded event has neither bond nor challenge what makes `recordVerification` a `Post`. The log needs `Clean`: an
event without a record has the zero record, so that a write is one of a new entry.

What the escrow keeps, the registry keeps: `EscrowExact` is `EscrowHoldsWhatItOwes` seen through the mapping (`EscrowFacts` instantiates
the escrow's theorems, `EscrowInherits` is the refinement once more), with `SameTotal` to read the escrow's bonds and stakes as those of records and open
challenges. `WithdrawCall` is one step `Pay` of balance and credit together, which is why nested calls see exact books.
`CreditsFunded` comes the same way: no account is ever owed more than the contract holds. It is why `WithdrawCall` may do without a guard on the
balance, as `withdraw` does without a check: the transfer never fails for want of ether.

Of the pool, in the same module: `PoolRunsTheRegistry`: the pool and the registry together implement the registry's specification, because a
pool step leaves the registry as it is. So all the registry's theorems hold beside the pool. `PausesHaveEvidence` needs that
pointers lead to records of their own token (`PointsToOwn`) and that evidence, once there, stays.

**GapwatchRegistry_proofs.** V1 has no signatures, but two roles that change hands. `TypeCorrect`, `BooksKept`, `DeadlinesFit`, `ResolutionIsFinal`, `RefinesBondEscrow` and
`RefinesRecordLog` run as in V2, with the relayer and the owner in the place of the consensus; a bond belongs to the relayer who posted it (`recordedBy`), which
is what makes a rotation of the relayer a stutter of the escrow. `HoldsWhatItOwes` and `CreditsFunded` are inherited from the escrow, although V1 has
no invariant of its own for them: the refinement alone gives both. `RenouncingFreezes` is V1's weak spot, proved rather than exemplified: once
the owner is the zero address, an open challenge stays open in every later step and neither its bond nor its stake moves. It is the exception that
`BondsAreCredited` makes, and shows that the exception cannot be dropped.

**EventPipeline_proofs.** `TypeCorrect` is not inductive by itself: that the table never overfills needs that a message is
delivered only when there is room for all of its candidates (`FeedOK`); that a count of failed verifications stays within its limit, which
the code tests on the snapshot and increments in the table, needs that a tick visits each row once (`LiveOK`); and that no write goes astray, that a
process in the middle of a check has a snapshot of a row that is there (`LiveOK`, `ReplayOK`). `EvidenceHolds` is about the loop and a backfill run
on one table in any interleaving. Its invariant `EvidenceOK` is about counts, not statuses: the count of a row, and of every snapshot that a process
still acts on, is at most the number of `false` answers written for it, unless the transaction is on the filter list by now (`CountIsOfFalses`,
`AnswerIsBacked`). This survives a lost update, because `update_status` increments the row's count and not the snapshot's.

The other three are stated under `ASSUME BackfillTx = {}`: no backfill run happens. The code allows one, and then they are false: the run
`backfill_overwrites` shows a status going back, and two processes that check one row in turn are not spaced. Under the assumption the whole
argument is `SnapshotsAreFresh`: what the loop read at the start of a phase is still what the table says of every row that is left, because each row
is visited once and nobody else writes. From it, `VisitIsFresh` (the check whose answer is awaited was not too soon) and
`LastFalseIsRemembered` (`last_checked_block` is the block of the last `false`) give the spacing in `SpacingHolds`, and
`EvidenceOK`, which holds here as with a backfill run, the three answers; `SealsHold` and `GoesForward` follow from
`SnapshotsAreFresh` alone.

**TokenRegistry_proofs.** `CheckpointIsSafe`: of the logs up to the new checkpoint, those in the scanned range are applied by `Scanned`, and the others
lie behind the old one, where the file was already right. What that takes is `ScanIsCurrent` (what a scan loaded is still what the file says, since
a second scan cannot begin before the first has ended), `CheckpointIsBehindHead` (a range never leaves out blocks between the checkpoint and the
head of a later scan), and for a token with several logs the lemmas `RejectedIsHeld` and `PendingIsHeld`: whichever of its logs decides, it
is approved or pending. `OnlyApprovedMonitored` needs the same of the file (`FileIsApproved`). `TokensStay` is an action property.

**RegistryReaders_proofs.** The registries are two `RecordLog`s, and all that the readers need of them is `LogGoesOn`: a record
stays as it was written and a flag stays up. `LogOK` adds what a pointer promises: it leads to a record of its token, and is there once the token has
a record. `BadgesBacked` holds for every deployment file: if the handle reaches nothing, no badge is ever set. `TicksCatchUp` needs `WorkerOK`: a due row has
its badge, or is the one being visited, or is still to come, or its own call failed; a dropped session moves no row out of this. `StatusesTruthful` needs
`StatusOK`: from its first call on a request is about one record, named by the hash it read, and every later answer is a function of that hash.
`PagesComplete` needs `ListOK`: the pages read so far are the table's first rows in order of id, whatever was appended meanwhile. Which of its keys a
deployment file resolves to (`ResolveRegistry`, a selection from a sequence) is never unfolded, so the theorems hold for any choice.

**ReferenceModel_proofs.** For any updates and multipliers, repeated ones included, any processes and the databases they share, any list of known events and
any bounds. The token: `TokenOK` (whatever it answers with is the initial multiplier or a logged update's, known to have taken effect) survives a block
of any updates (`ChainOK`, `NewBlockGoesOn`), and the log of a past block never changes (`PastLogsStay`).

A process: `WorkerOK` and, for a script, `ScriptOK`. Another process may write the row that this one is at, so nothing can be said of the row's status or hash;
what survives any such write is that a row keeps its transaction and block, and that a hash once there is never taken away (`Keeps`); the count of failed
attempts is written only by live loops, of which a database has one (`AttemptsStay`). `ProcessKept` and `ScriptKept` show once that every step of another process leaves a process its invariant, and `StepOf`,
`LoopStep` and `ScriptStep` reduce the rest to the process that moves.

`QuietFactsAgree`: `ReadOK` says of what was read so far that the log is the block's for ever and that the answers are the token's present ones unless they have
changed since the first of them; so a seal that no change interrupted is a function of the present answers and the status that was read, as every other such
seal of the event is (`FactsOK`, `HashesAgree`). `MatchesAreEarned`: the multiplier that was answered is the initial one or that of an update that took
effect (`UiEarned`), and a match equals it to the log's; the log's own update took effect, or its value coincides (`MatchedIsEarned`).
`SealedOnce`: a process is at a row that it has not sealed. For the loop this holds because the rows of a tick had no hash when they were selected, each is
visited once, and what it has sealed keeps a hash; for the script because the row of each run is new. `ReportsAreTrue` needs that a run has one result per event that it is through with,
each about a row that it has left for good, with the verdict of its own verification if there was one (`ResultOK`, `VerdictOK`).
That `First` picks a least element is well-foundedness of the numbers (`FirstIsLeast`).

What is only model-checked, and why:

- all liveness (`EventsSettle`, `DeploymentsAreMonitored`, `RecordedIsCached`, `BondsAreCredited`, `CreditsArePaid`): it rests on fairness and on
  what is enabled, which the prover does not handle. Their safety halves are proved where a contract could block for ever: `DeadlinesFit`,
  `CreditsFunded`, and for the other direction `RenouncingFreezes`;
- the statements that the runs refute.

Every invariant and every action property that a passing run checks is stated by a theorem; three of `EventPipeline`'s under the assumption, which their
run `pipeline_live` makes too, that no backfill run happens.

## Plan

Done: all models and their runs; the theorems of `ConsensusVerifier` with the mock, `WeiTotals`, `BondEscrow`, both registries with their two refinements,
`MockLendingPool`, `TokenRegistry`, `EventPipeline`, `RegistryReaders` and `ReferenceModel`.

What could come next: the schema migration of the event store, and the spacing of answers for two processes on one row, should the code come to
guard its updates by status.

## Not modelled

- Frontend, demo scripts: they present what the API and the chain say and keep no state.
- `/audit-log`, `/tokens/known` and the balance request: one stateless read each.
- Ether forced upon a registry without a call (`selfdestruct`, block rewards). It would only add to the balance, which the contracts never read: they would
  hold more than they owe.
- The store's schema migration; the wording of logs and messages; argument parsing.
- ABI encoding, signature recovery, SHA-256 and the feed client are outside what these models can say something about: recovery is the precompile's
  answer, the hash is injective, and the feed delivers messages in the order of their blocks while the process is up.
- Deployment files are where the restart policy and the two networks' registries are taken from. OpenZeppelin and forge-std are third-party.

## Running it

    tlc -workers 2 -config RegistryEscrow.cfg MCGapwatchRegistryV2.tla
    tlapm GapwatchRegistryV2_proofs.tla

`PROJECT.json` names the module and configuration of every run.
