----------------------------- MODULE TokenRegistry -----------------------------
(***************************************************************************)
(* token_registry.py: which token contracts the live process monitors.     *)
(* The factory's deployment log is scanned from the checkpoint in a state  *)
(* file, each symbol is approved or rejected, and what is known is written *)
(* back.  The live process scans when it starts and in every tick; the set *)
(* its FilterEngine uses is only ever added to.                            *)
(*                                                                         *)
(* A scan is split at its two network calls and at the write, which is not *)
(* atomic: a process that dies in it leaves a file that does not parse.    *)
(***************************************************************************)
EXTENDS Integers, Sequences

CONSTANTS
  Address,      \* token addresses the factory may name
  LegacyToken,  \* addresses that a file of the old format may hold
  None,         \* no checkpoint
  MaxBlock,     \* bound: the highest block
  MaxFailures,  \* bound: failed calls and deaths of the process
  MaxTorn       \* bound: deaths in the middle of a write

ASSUME RegistryAssumption ==
  /\ LegacyToken \subseteq Address
  /\ MaxBlock \in Nat /\ MaxFailures \in Nat /\ MaxTorn \in Nat
  /\ None \notin Int

\* is_valid_symbol's verdict on the symbol of a log, or a log that does not decode.
Verdict == {"approved", "rejected", "malformed"}

VARIABLES
  factoryLogs,  \* the factory's logs, [token, verdict, block] in order
  head,         \* eth_blockNumber
  file,         \* token_registry_state.json
  registry,     \* the set that FilterEngine.registry points to
  scan,         \* the scan in progress: where it is, what it loaded, latest
  failures, torn

env == <<factoryLogs, head>>
vars == <<env, file, registry, scan, failures, torn>>

State(kind, last, tokens, pending) ==
  [kind |-> kind, last |-> last, tokens |-> tokens, pending_review |-> pending]

Absent == State("absent", None, {}, {})
TornFile == State("torn", None, {}, {})

NoScan(pc) == [pc |-> pc, loaded |-> Absent, latest |-> 0]

-----------------------------------------------------------------------------
(* _scan_factory *)

FromBlock_SkipsOne(s) == IF s.last = None THEN 0 ELSE s.last + 2   \* seeded fault: a block is left out

FromBlock(s) == IF s.last = None THEN 0 ELSE s.last + 1

\* A set of logs is the set of their positions.
InRange(from, to) == {i \in DOMAIN factoryLogs : from <= factoryLogs[i].block /\ factoryLogs[i].block <= to}

TokensOf(at, verdicts) == {factoryLogs[i].token : i \in {j \in at : factoryLogs[j].verdict \in verdicts}}

Approved(at) == TokensOf(at, {"approved"})

\* The last log of a token that decodes decides whether it is pending review.
LastDecides(at, t, verdict) ==
  \E i \in at :
    /\ factoryLogs[i].token = t /\ factoryLogs[i].verdict = verdict
    /\ \A j \in at : j > i /\ factoryLogs[j].token = t => factoryLogs[j].verdict \in {verdict, "malformed"}

Tokens_Replaced(s, at) == Approved(at)   \* seeded fault: the known set is not kept

Tokens_RejectedToo(s, at) ==   \* seeded fault: the symbol check is not applied
  s.tokens \cup TokensOf(at, {"approved", "rejected"})

Tokens_MalformedToo(s, at) ==   \* seeded fault: a log that does not decode is not skipped
  s.tokens \cup Approved(at) \cup {None : t \in TokensOf(at, {"malformed"})}

Tokens(s, at) == s.tokens \cup Approved(at)

PendingReview(s, at) ==
  {t \in Address : \/ LastDecides(at, t, "rejected")
                   \/ t \in s.pending_review /\ ~LastDecides(at, t, "approved")}

Scanned(s, latest) ==
  LET at == InRange(FromBlock(s), latest)
  IN  State("state", latest, Tokens(s, at), PendingReview(s, at))

-----------------------------------------------------------------------------

Init ==
  /\ factoryLogs = <<>> /\ head = 0
  /\ file \in {Absent} \cup {State("legacy", None, ts, {}) : ts \in SUBSET LegacyToken}
  /\ registry = {}
  /\ scan = NoScan("load")
  /\ failures = 0 /\ torn = 0

Tick ==
  /\ scan.pc = "idle"
  /\ scan' = NoScan("load")
  /\ UNCHANGED <<env, file, registry, failures, torn>>

\* _load_state; a file that does not parse raises, and nothing catches it.
Load ==
  /\ scan.pc = "load"
  /\ file.kind # "torn"
  /\ scan' = [scan EXCEPT !.pc = "head", !.loaded = file]
  /\ UNCHANGED <<env, file, registry, failures, torn>>

LoadDies ==
  /\ scan.pc = "load"
  /\ file.kind = "torn"
  /\ scan' = NoScan("down") /\ registry' = {}
  /\ UNCHANGED <<env, file, failures, torn>>

AskHead ==
  /\ scan.pc = "head"
  /\ scan' = [scan EXCEPT !.pc = IF FromBlock(scan.loaded) > head THEN "merge" ELSE "logs",
                          !.latest = head]
  /\ UNCHANGED <<env, file, registry, failures, torn>>

\* The logs up to latest are settled by now, so asking, applying and the whole
\* of the write are one step.
SaveState ==
  /\ scan.pc = "logs"
  /\ file' = Scanned(scan.loaded, scan.latest)
  /\ scan' = [scan EXCEPT !.pc = "merge", !.loaded = file']
  /\ UNCHANGED <<env, registry, failures, torn>>

\* A failed call ends the scan with what was loaded; the file is left alone.
CallFails ==
  /\ scan.pc \in {"head", "logs"}
  /\ failures < MaxFailures
  /\ failures' = failures + 1
  /\ scan' = [scan EXCEPT !.pc = "merge"]
  /\ UNCHANGED <<env, file, registry, torn>>

Merged_OnlyAtStart(s) == IF registry = {} THEN s.tokens ELSE registry   \* seeded fault

Merged(s) == registry \cup s.tokens

Merge ==
  /\ scan.pc = "merge"
  /\ registry' = Merged(scan.loaded)
  /\ scan' = NoScan("idle")
  /\ UNCHANGED <<env, file, failures, torn>>

Dies ==
  /\ scan.pc # "down"
  /\ \/ failures < MaxFailures /\ failures' = failures + 1 /\ UNCHANGED <<file, torn>>
     \/ /\ scan.pc = "logs" /\ torn < MaxTorn
        /\ torn' = torn + 1 /\ file' = TornFile
        /\ UNCHANGED failures
  /\ scan' = NoScan("down") /\ registry' = {}
  /\ UNCHANGED env

Restart ==
  /\ scan.pc = "down"
  /\ scan' = NoScan("load")
  /\ UNCHANGED <<env, file, registry, failures, torn>>

Deploy(t, verdict) ==
  /\ head < MaxBlock
  /\ head' = head + 1
  /\ factoryLogs' = Append(factoryLogs, [token |-> t, verdict |-> verdict, block |-> head + 1])
  /\ UNCHANGED <<file, registry, scan, failures, torn>>

EmptyBlock ==
  /\ head < MaxBlock
  /\ head' = head + 1
  /\ UNCHANGED <<factoryLogs, file, registry, scan, failures, torn>>

ProcessStep == Tick \/ Load \/ LoadDies \/ AskHead \/ SaveState \/ Merge \/ Restart

Next ==
  \/ ProcessStep \/ CallFails \/ Dies
  \/ (\E t \in Address, v \in Verdict : Deploy(t, v)) \/ EmptyBlock

Spec == Init /\ [][Next]_vars

\* The loop ticks on and docker restarts the process.
FairSpec == Spec /\ WF_vars(ProcessStep)

-----------------------------------------------------------------------------
(* Properties *)

FileState ==
  [kind : {"absent", "legacy", "state", "torn"}, last : 0..MaxBlock \cup {None},
   tokens : SUBSET Address, pending_review : SUBSET Address]

TypeOK ==
  /\ factoryLogs \in Seq([token : Address, verdict : Verdict, block : 1..MaxBlock])
  /\ head \in 0..MaxBlock
  /\ file \in FileState
  /\ registry \subseteq Address
  /\ scan \in [pc : {"down", "load", "head", "logs", "merge", "idle"}, loaded : FileState,
               latest : 0..MaxBlock]
  /\ failures \in 0..MaxFailures /\ torn \in 0..MaxTorn

\* The checkpoint never overtakes what was learned: every deployment up to it is
\* in the file, approved or held for review, through failed calls, crashes
\* between any two steps and blocks that arrive in the middle of a scan.
NothingBehindCheckpoint ==
  file.kind = "state" =>
    /\ TokensOf(InRange(0, file.last), {"approved"}) \subseteq file.tokens
    /\ TokensOf(InRange(0, file.last), {"rejected"}) \subseteq file.tokens \cup file.pending_review

\* Only what the factory deployed under an approved symbol, or an old file
\* already had, is monitored.
MonitoredIsApproved ==
  registry \subseteq LegacyToken \cup Approved(DOMAIN factoryLogs)

\* A failure never blanks the registry: what is monitored and what is on file
\* only grow while the process lives and the file parses, and the checkpoint
\* only moves forward (_scan_factory 200-203).
KnownTokensStay ==
  [][/\ scan'.pc # "down" => registry \subseteq registry'
     /\ file'.kind # "torn" =>
          /\ file.tokens \subseteq file'.tokens
          /\ file.last # None => file'.last >= file.last]_vars

\* A rejected deployment is held in pending_review, not monitored (the warning
\* at 246-253).
RejectedIsNotMonitored == scan.pc = "idle" => registry \cap file.pending_review = {}

\* An approved deployment is monitored in the end without a restart by hand,
\* unless a write was torn: no start gets past that file (148).
DeploymentsAreMonitored ==
  \A t \in Address : t \in Approved(DOMAIN factoryLogs) ~> t \in registry \/ file = TornFile
=============================================================================
