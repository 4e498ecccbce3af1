------------------------------- MODULE RecordLog -------------------------------
(***************************************************************************)
(* What a registry promises its readers: records are written once and      *)
(* never change, a flag once raised stays, and each token's pointer leads  *)
(* to the record that was written for it last.                             *)
(***************************************************************************)

CONSTANTS
  Event,    \* keys of records
  Subject,  \* tokens that records are about
  Fact,     \* records that can be written, each with a field token
  NoRecord, \* not a Fact
  NoEvent   \* not an Event

VARIABLES
  records,  \* the record of each event, or NoRecord
  latest,   \* the event of each token's last record, or NoEvent
  flagged   \* events whose record is flagged

logVars == <<records, latest, flagged>>

Init ==
  /\ records = [e \in Event |-> NoRecord]
  /\ latest = [t \in Subject |-> NoEvent]
  /\ flagged = {}

Written(e) == records[e] # NoRecord

Write(e, f) ==
  /\ ~Written(e)
  /\ records' = [records EXCEPT ![e] = f]
  /\ latest' = [latest EXCEPT ![f.token] = e]
  /\ UNCHANGED flagged

Flag(e) ==
  /\ Written(e)
  /\ flagged' = flagged \cup {e}
  /\ UNCHANGED <<records, latest>>

Next == \E e \in Event : Flag(e) \/ \E f \in Fact : Write(e, f)

Spec == Init /\ [][Next]_logVars
=============================================================================
