-------------------------- MODULE TokenRegistry_proofs --------------------------
(***************************************************************************)
(* Theorems about TokenRegistry, for any set of addresses, any number of   *)
(* blocks and deployments, and any number of failed calls, crashes and     *)
(* torn writes.                                                            *)
(***************************************************************************)
EXTENDS TokenRegistry, TLAPS

FactoryLog == [token : Address, verdict : Verdict, block : 1..MaxBlock]

-----------------------------------------------------------------------------
(* What the scan's operators compute *)

LEMMA LogIsTyped ==
  ASSUME TypeOK, NEW i \in DOMAIN factoryLogs
  PROVE  factoryLogs[i] \in FactoryLog
<1>1. factoryLogs \in Seq(FactoryLog)
  BY DEF TypeOK, FactoryLog
<1> QED
  BY <1>1

\* The tokens that a set of logs names are addresses.
LEMMA TokensAreAddresses ==
  ASSUME TypeOK, NEW at \in SUBSET DOMAIN factoryLogs, NEW verdicts
  PROVE  TokensOf(at, verdicts) \subseteq Address
BY LogIsTyped DEF FactoryLog, TokensOf

LEMMA TokensOfMonotone ==
  ASSUME NEW at, NEW more, at \subseteq more, NEW verdicts
  PROVE  TokensOf(at, verdicts) \subseteq TokensOf(more, verdicts)
BY DEF TokensOf

\* A token with a rejected log in a set of logs ends up approved or pending,
\* whichever log of its decides.
LEMMA RejectedIsHeld ==
  ASSUME TypeOK, NEW s, NEW at \in SUBSET DOMAIN factoryLogs, NEW t \in TokensOf(at, {"rejected"})
  PROVE  t \in Approved(at) \cup PendingReview(s, at)
<1> SUFFICES ASSUME t \notin Approved(at)
             PROVE  t \in PendingReview(s, at)
  OBVIOUS
<1>1. PICK i \in at : factoryLogs[i].token = t /\ factoryLogs[i].verdict = "rejected"
  BY DEF TokensOf
<1>2. ASSUME NEW j \in at, factoryLogs[j].token = t
      PROVE  factoryLogs[j].verdict \in {"rejected", "malformed"}
  <2>1. factoryLogs[j].verdict \in Verdict
    BY LogIsTyped DEF FactoryLog
  <2>2. factoryLogs[j].verdict # "approved"
    BY <1>2 DEF Approved, TokensOf
  <2> QED
    BY <2>1, <2>2 DEF Verdict
<1>3. LastDecides(at, t, "rejected")
  BY <1>1, <1>2 DEF LastDecides
<1>4. t \in Address
  BY TokensAreAddresses
<1> QED
  BY <1>3, <1>4 DEF PendingReview

\* What was pending before is still pending, or has been approved.
LEMMA PendingIsHeld ==
  ASSUME NEW s, NEW at, NEW t \in s.pending_review \cap Address
  PROVE  t \in Approved(at) \cup PendingReview(s, at)
BY DEF LastDecides, Approved, TokensOf, PendingReview

-----------------------------------------------------------------------------
(* The inductive invariant *)

\* Only a file of the new format has a checkpoint, and none is ahead of the chain.
CheckpointIsBehindHead ==
  IF file.kind = "state" THEN file.last \in 0..head ELSE file.last = None

LogsAreBehindHead == \A i \in DOMAIN factoryLogs : factoryLogs[i].block <= head

\* No one else writes the file: what a scan loaded is what the file still says,
\* and the logs it asks for come after the checkpoint and have happened.
ScanIsCurrent ==
  /\ scan.pc \in {"head", "logs", "merge"} => scan.loaded = file
  /\ scan.pc = "logs" => FromBlock(scan.loaded) <= scan.latest
  /\ scan.latest <= head

\* Whatever is on file was approved, or was in a file of the old format.
FileIsApproved == file.tokens \subseteq LegacyToken \cup Approved(DOMAIN factoryLogs)

Inv ==
  /\ TypeOK
  /\ CheckpointIsBehindHead /\ LogsAreBehindHead /\ ScanIsCurrent
  /\ FileIsApproved
  /\ NothingBehindCheckpoint
  /\ MonitoredIsApproved

LEMMA InitInv == Init => Inv
BY RegistryAssumption
DEF Init, Inv, TypeOK, CheckpointIsBehindHead, LogsAreBehindHead, ScanIsCurrent, FileIsApproved,
    NothingBehindCheckpoint, MonitoredIsApproved, Absent, State, NoScan, FileState

LEMMA SaveStateInv == Inv /\ SaveState => Inv'
<1> SUFFICES ASSUME Inv, SaveState
             PROVE  Inv'
  OBVIOUS
<1> DEFINE at == InRange(FromBlock(file), scan.latest)
<1>1. at \subseteq DOMAIN factoryLogs
  BY DEF InRange
<1>2. /\ file' = State("state", scan.latest, Tokens(file, at), PendingReview(file, at))
      /\ scan' = [scan EXCEPT !.pc = "merge", !.loaded = file']
      /\ UNCHANGED <<factoryLogs, head, registry, failures, torn>>
  BY DEF SaveState, Scanned, Inv, ScanIsCurrent, env
<1>3. /\ file' = [kind |-> "state", last |-> scan.latest, tokens |-> file.tokens \cup Approved(at),
                  pending_review |-> PendingReview(file, at)]
  BY <1>2 DEF State, Tokens
<1>4. scan.latest \in 0..head /\ head \in 0..MaxBlock
  BY DEF Inv, TypeOK, ScanIsCurrent
<1>5. file' \in FileState
  <2>1. Approved(at) \subseteq Address
    BY <1>1, TokensAreAddresses DEF Inv, Approved
  <2>2. PendingReview(file, at) \subseteq Address
    BY DEF PendingReview
  <2>3. scan.latest \in 0..MaxBlock /\ file.tokens \subseteq Address
    BY DEF Inv, TypeOK, FileState
  <2> QED
    BY <1>3, <2>1, <2>2, <2>3 DEF FileState
<1>6. TypeOK'
  BY <1>2, <1>5 DEF Inv, TypeOK
<1>7. CheckpointIsBehindHead' /\ LogsAreBehindHead' /\ ScanIsCurrent'
  BY <1>2, <1>3, <1>4 DEF Inv, TypeOK, CheckpointIsBehindHead, LogsAreBehindHead, ScanIsCurrent
<1>8. Approved(at) \subseteq Approved(DOMAIN factoryLogs)
  BY <1>1, TokensOfMonotone DEF Approved
<1>9. FileIsApproved' /\ MonitoredIsApproved'
  BY <1>2, <1>3, <1>8 DEF Inv, FileIsApproved, MonitoredIsApproved, Approved, TokensOf
<1>10. NothingBehindCheckpoint'
  <2>1. ASSUME NEW i \in DOMAIN factoryLogs, factoryLogs[i].block <= scan.latest, i \notin at
        PROVE  file.kind = "state" /\ i \in InRange(0, file.last)
    <3>1. factoryLogs[i].block \in 1..MaxBlock
      BY LogIsTyped DEF Inv, FactoryLog
    <3>2. ~(FromBlock(file) <= factoryLogs[i].block)
      BY <2>1 DEF InRange
    <3>3. file.last # None /\ FromBlock(file) = file.last + 1
      BY <3>1, <3>2, RegistryAssumption DEF FromBlock
    <3>4. file.kind = "state" /\ file.last \in 0..head
      BY <3>3 DEF Inv, CheckpointIsBehindHead
    <3> QED
      BY <1>4, <3>1, <3>2, <3>3, <3>4 DEF InRange
  <2>2. TokensOf(InRange(0, scan.latest), {"approved"}) \subseteq file.tokens \cup Approved(at)
    BY <2>1 DEF Inv, NothingBehindCheckpoint, TokensOf, Approved, InRange
  <2>3. TokensOf(InRange(0, scan.latest), {"rejected"})
          \subseteq file.tokens \cup Approved(at) \cup PendingReview(file, at)
    <3> SUFFICES ASSUME NEW i \in InRange(0, scan.latest), factoryLogs[i].verdict = "rejected"
                 PROVE  factoryLogs[i].token \in file.tokens \cup Approved(at) \cup PendingReview(file, at)
      BY DEF TokensOf
    <3>1. CASE i \in at
      <4>1. factoryLogs[i].token \in TokensOf(at, {"rejected"})
        BY <3>1 DEF TokensOf
      <4> QED
        BY <1>1, <4>1, RejectedIsHeld DEF Inv
    <3>2. CASE i \notin at
      <4>1. file.kind = "state" /\ i \in InRange(0, file.last)
        BY <2>1, <3>2 DEF InRange
      <4>2. factoryLogs[i].token \in file.tokens \cup file.pending_review
        BY <4>1 DEF Inv, NothingBehindCheckpoint, TokensOf
      <4>3. factoryLogs[i].token \in Address
        BY LogIsTyped DEF Inv, FactoryLog, InRange
      <4> QED
        BY <4>2, <4>3, PendingIsHeld
    <3> QED
      BY <3>1, <3>2
  <2>4. \A verdicts : TokensOf(InRange(0, scan.latest), verdicts)' = TokensOf(InRange(0, scan.latest), verdicts)
    BY <1>2 DEF TokensOf, InRange
  <2>5. file'.last = scan.latest /\ file'.tokens = file.tokens \cup Approved(at)
        /\ file'.pending_review = PendingReview(file, at)
    BY <1>3
  <2>6. \A verdicts : TokensOf(InRange(0, file.last), verdicts)' = TokensOf(InRange(0, scan.latest), verdicts)
    BY <1>2, <2>5 DEF TokensOf, InRange
  <2> QED
    BY <2>2, <2>3, <2>5, <2>6 DEF NothingBehindCheckpoint
<1> QED
  BY <1>6, <1>7, <1>9, <1>10 DEF Inv

\* The chain's own steps: a new log comes after every checkpoint.
LEMMA ChainInv ==
  ASSUME Inv, (\E t \in Address, v \in Verdict : Deploy(t, v)) \/ EmptyBlock
  PROVE  Inv'
<1>1. /\ head' = head + 1 /\ head' \in 0..MaxBlock
      /\ UNCHANGED <<file, registry, scan, failures, torn>>
  <2>1. /\ head' = head + 1 /\ head < MaxBlock
        /\ UNCHANGED <<file, registry, scan, failures, torn>>
    BY DEF Deploy, EmptyBlock
  <2>2. head \in 0..MaxBlock /\ MaxBlock \in Nat
    BY RegistryAssumption DEF Inv, TypeOK
  <2> QED
    BY <2>1, <2>2
<1>2. \/ UNCHANGED factoryLogs
      \/ \E l \in FactoryLog : l.block = head + 1 /\ factoryLogs' = Append(factoryLogs, l)
  <2>1. CASE EmptyBlock
    BY <2>1 DEF EmptyBlock
  <2>2. ASSUME NEW t \in Address, NEW v \in Verdict, Deploy(t, v)
        PROVE  \E l \in FactoryLog : l.block = head + 1 /\ factoryLogs' = Append(factoryLogs, l)
    <3> DEFINE l == [token |-> t, verdict |-> v, block |-> head + 1]
    <3>1. head \in 0..MaxBlock /\ head + 1 \in 0..MaxBlock
      BY <1>1 DEF Inv, TypeOK
    <3>2. head + 1 \in 1..MaxBlock
      BY <3>1
    <3>3. l \in FactoryLog /\ l.block = head + 1
      BY <3>2 DEF FactoryLog
    <3> QED
      BY <2>2, <3>3 DEF Deploy
  <2> QED
    BY <2>1, <2>2
<1>3. /\ factoryLogs \in Seq(FactoryLog) /\ factoryLogs' \in Seq(FactoryLog)
      /\ DOMAIN factoryLogs \subseteq DOMAIN factoryLogs'
      /\ \A i \in DOMAIN factoryLogs : factoryLogs'[i] = factoryLogs[i]
      /\ \A i \in DOMAIN factoryLogs' \ DOMAIN factoryLogs : factoryLogs'[i].block = head + 1
  <2>1. factoryLogs \in Seq(FactoryLog)
    BY DEF Inv, TypeOK, FactoryLog
  <2> QED
    BY <1>2, <2>1
<1>4. TypeOK'
  BY <1>1, <1>3 DEF Inv, TypeOK, FactoryLog
<1>5. head \in Nat /\ scan.latest \in Nat
  BY DEF Inv, TypeOK
<1>6. CheckpointIsBehindHead' /\ ScanIsCurrent'
  BY <1>1, <1>5 DEF Inv, CheckpointIsBehindHead, ScanIsCurrent, FromBlock
<1>7. LogsAreBehindHead'
  <2>1. \A i \in DOMAIN factoryLogs : factoryLogs[i].block \in Nat
    BY LogIsTyped DEF Inv, FactoryLog
  <2> QED
    BY <1>1, <1>3, <1>5, <2>1 DEF Inv, LogsAreBehindHead
<1>8. FileIsApproved' /\ MonitoredIsApproved'
  BY <1>1, <1>3 DEF Inv, FileIsApproved, MonitoredIsApproved, Approved, TokensOf
<1>9. NothingBehindCheckpoint'
  <2> SUFFICES ASSUME file.kind = "state"
               PROVE  \A verdicts : TokensOf(InRange(0, file.last), verdicts)'
                                      = TokensOf(InRange(0, file.last), verdicts)
    BY <1>1 DEF Inv, NothingBehindCheckpoint
  <2>1. file.last \in 0..head /\ file' = file
    BY <1>1 DEF Inv, CheckpointIsBehindHead
  <2>2. InRange(0, file.last)' = InRange(0, file.last)
    BY <1>3, <1>5, <2>1 DEF InRange
  <2> QED
    BY <1>3, <2>2 DEF TokensOf, InRange
<1> QED
  BY <1>4, <1>6, <1>7, <1>8, <1>9 DEF Inv

\* The steps of the process that leave the file alone, and its death in a write.
LEMMA ProcessInv ==
  ASSUME Inv, Tick \/ Load \/ LoadDies \/ AskHead \/ Merge \/ Restart \/ CallFails \/ Dies
  PROVE  Inv'
<1>1. UNCHANGED env
  BY DEF Tick, Load, LoadDies, AskHead, Merge, Restart, CallFails, Dies
<1>2. file' = file \/ file' = TornFile
  BY DEF Tick, Load, LoadDies, AskHead, Merge, Restart, CallFails, Dies
<1>3. TypeOK'
  <2>1. Absent \in FileState /\ TornFile \in FileState
    BY DEF Absent, TornFile, State, FileState
  <2>2. scan.loaded.tokens \subseteq Address
    BY DEF Inv, TypeOK, FileState
  <2>3. file' \in FileState /\ registry' \subseteq Address
    BY <1>2, <2>1, <2>2 DEF Inv, TypeOK, Tick, Load, LoadDies, AskHead, Merge, Merged, Restart, CallFails, Dies
  <2>4. failures' \in 0..MaxFailures /\ torn' \in 0..MaxTorn
    BY RegistryAssumption DEF Inv, TypeOK, Tick, Load, LoadDies, AskHead, Merge, Restart, CallFails, Dies
  <2>5. scan' \in [pc : {"down", "load", "head", "logs", "merge", "idle"}, loaded : FileState, latest : 0..MaxBlock]
    <3> DEFINE Scan == [pc : {"down", "load", "head", "logs", "merge", "idle"}, loaded : FileState,
                        latest : 0..MaxBlock]
    <3>1. scan \in Scan /\ file \in FileState /\ head \in 0..MaxBlock /\ 0 \in 0..MaxBlock
      BY RegistryAssumption DEF Inv, TypeOK
    <3>2. CASE Tick \/ LoadDies \/ Merge \/ Restart \/ Dies
      BY <2>1, <3>1, <3>2 DEF Tick, LoadDies, Merge, Restart, Dies, NoScan
    <3>3. CASE Load
      BY <3>1, <3>3 DEF Load
    <3>4. CASE AskHead
      BY <3>1, <3>4 DEF AskHead
    <3>5. CASE CallFails
      BY <3>1, <3>5 DEF CallFails
    <3> QED
      BY <3>2, <3>3, <3>4, <3>5
  <2> QED
    BY <1>1, <2>3, <2>4, <2>5 DEF Inv, TypeOK, env
<1>4. CheckpointIsBehindHead' /\ LogsAreBehindHead' /\ FileIsApproved'
  BY <1>1, <1>2 DEF Inv, env, CheckpointIsBehindHead, LogsAreBehindHead, FileIsApproved, TornFile, State,
     Approved, TokensOf
<1>5. ScanIsCurrent'
  <2>1. head \in Nat
    BY DEF Inv, TypeOK
  <2>2. CASE AskHead
    <3>1. file.last = None \/ file.last \in 0..head
      BY DEF Inv, CheckpointIsBehindHead
    <3>2. FromBlock(file) \in Nat
      BY <2>1, <3>1 DEF FromBlock
    <3> QED
      BY <2>1, <2>2, <3>2 DEF AskHead, Inv, TypeOK, ScanIsCurrent, FromBlock, env
  <2>3. CASE Tick \/ LoadDies \/ Merge \/ Restart \/ Dies
    BY <1>1, <2>1, <2>3 DEF ScanIsCurrent, NoScan, env, Tick, LoadDies, Merge, Restart, Dies
  <2>4. CASE Load \/ CallFails
    BY <1>1, <2>4 DEF Inv, TypeOK, ScanIsCurrent, env, Load, CallFails
  <2> QED
    BY <2>2, <2>3, <2>4
<1>6. NothingBehindCheckpoint'
  BY <1>1, <1>2 DEF Inv, env, NothingBehindCheckpoint, TornFile, State, TokensOf, InRange
<1>7. MonitoredIsApproved'
  <2>1. registry' = {} \/ registry' = registry \/ Merge
    BY DEF Tick, Load, LoadDies, AskHead, Restart, CallFails, Dies
  <2>2. CASE Merge
    BY <1>1, <2>2 DEF Inv, env, Merge, Merged, ScanIsCurrent, FileIsApproved, MonitoredIsApproved, Approved,
       TokensOf
  <2> QED
    BY <1>1, <2>1, <2>2 DEF Inv, env, MonitoredIsApproved, Approved, TokensOf
<1> QED
  BY <1>3, <1>4, <1>5, <1>6, <1>7 DEF Inv

LEMMA NextInv == Inv /\ [Next]_vars => Inv'
<1> SUFFICES ASSUME Inv, [Next]_vars
             PROVE  Inv'
  OBVIOUS
<1>1. CASE SaveState
  BY <1>1, SaveStateInv
<1>2. CASE Tick \/ Load \/ LoadDies \/ AskHead \/ Merge \/ Restart \/ CallFails \/ Dies
  BY <1>2, ProcessInv
<1>3. CASE (\E t \in Address, v \in Verdict : Deploy(t, v)) \/ EmptyBlock
  BY <1>3, ChainInv
<1>4. CASE UNCHANGED vars
  BY <1>4 DEF vars, env, Inv, TypeOK, CheckpointIsBehindHead, LogsAreBehindHead, ScanIsCurrent, FromBlock,
     FileIsApproved, NothingBehindCheckpoint, MonitoredIsApproved, Approved, TokensOf, InRange
<1> QED
  BY <1>1, <1>2, <1>3, <1>4 DEF Next, ProcessStep

THEOREM InvHolds == Spec => []Inv
BY InitInv, NextInv, PTL DEF Spec

-----------------------------------------------------------------------------
(* The theorems *)

\* Types, for every set of addresses and every bound.
THEOREM TypeCorrect == Spec => []TypeOK
<1>1. Inv => TypeOK
  BY DEF Inv
<1> QED
  BY <1>1, InvHolds, PTL

\* Everything the factory deployed up to the checkpoint is in the file, approved
\* or held for review, whatever fails, dies or is deployed in the middle of a
\* scan (_scan_factory 205-255).
THEOREM CheckpointIsSafe == Spec => []NothingBehindCheckpoint
<1>1. Inv => NothingBehindCheckpoint
  BY DEF Inv
<1> QED
  BY <1>1, InvHolds, PTL

\* No token is monitored that the factory did not deploy under an approved
\* symbol and no file of the old format held (241, 289-296).
THEOREM OnlyApprovedMonitored == Spec => []MonitoredIsApproved
<1>1. Inv => MonitoredIsApproved
  BY DEF Inv
<1> QED
  BY <1>1, InvHolds, PTL

\* A failure never blanks the registry and the checkpoint never goes back
\* (200-203, 213-220).
THEOREM TokensStay == Spec => KnownTokensStay
<1> DEFINE Stays == /\ scan'.pc # "down" => registry \subseteq registry'
                    /\ file'.kind # "torn" =>
                         /\ file.tokens \subseteq file'.tokens
                         /\ file.last # None => file'.last >= file.last
<1>1. Inv /\ [Next]_vars => [Stays]_vars
  <2> SUFFICES ASSUME Inv, Next
               PROVE  Stays
    OBVIOUS
  <2>1. file.last # None => file.last \in Nat
    BY DEF Inv, TypeOK, FileState
  <2>2. CASE SaveState
    <3>1. /\ file'.tokens = file.tokens \cup Approved(InRange(FromBlock(file), scan.latest))
          /\ file'.last = scan.latest /\ registry' = registry
      BY <2>2 DEF SaveState, Scanned, State, Tokens, Inv, ScanIsCurrent
    <3>2. FromBlock(file) <= scan.latest /\ scan.latest \in Nat
      BY <2>2 DEF SaveState, Inv, ScanIsCurrent, TypeOK
    <3> QED
      BY <2>1, <3>1, <3>2 DEF FromBlock
  <2>3. CASE Merge
    BY <2>1, <2>3 DEF Merge, Merged
  <2>4. CASE LoadDies \/ Dies
    BY <2>1, <2>4 DEF LoadDies, Dies, NoScan, TornFile, State
  <2>5. CASE Tick \/ Load \/ AskHead \/ Restart \/ CallFails
    BY <2>1, <2>5 DEF Tick, Load, AskHead, Restart, CallFails
  <2>6. CASE (\E t \in Address, v \in Verdict : Deploy(t, v)) \/ EmptyBlock
    <3>1. file' = file /\ registry' = registry
      BY <2>6 DEF Deploy, EmptyBlock
    <3> QED
      BY <2>1, <3>1
  <2> QED
    BY <2>2, <2>3, <2>4, <2>5, <2>6 DEF Next, ProcessStep
<1> QED
  BY <1>1, InvHolds, PTL DEF Spec, KnownTokensStay
=============================================================================
