------------------------------ MODULE SyncService ------------------------------
(***************************************************************************)
(* backend/app/services/sync_service.py: records of five tables are        *)
(* uploaded to the cloud and marked.  One loop sleeps, looks whether the   *)
(* cloud can be reached, gathers unsynced records, posts them and marks    *)
(* them; whatever fails, the next cycle begins again.  Records are         *)
(* inserted meanwhile by the other services.                               *)
(*                                                                         *)
(* The tables are read one after the other; a record that is inserted in   *)
(* between is gathered or not, so gathering is one step.                   *)
(***************************************************************************)
EXTENDS Integers, FiniteSets

CONSTANTS
    Records,
    Tables,
    TableOf,    \* of each record
    Limit,      \* 500 records of a table in a cycle
    MaxDelay,   \* number of times the pause grows until it is at its maximum
    MaxFaults   \* bound on failed transactions, lost answers and crashes

ASSUME SyncAssumption ==
    /\ TableOf \in [Records -> Tables] /\ Limit \in Nat \ {0} /\ {MaxDelay, MaxFaults} \subseteq Nat

VARIABLES
    stored,   \* rows of the tables
    synced,   \* those whose column synced is true
    phase,    \* of the loop: "down", "sleep", "gather", "post", "answer", "mark"
    batch,    \* models_to_update
    delay,    \* backoff_delay: 0 is 30 s, MaxDelay is 300 s
    online,   \* the cloud can be reached
    uploads,  \* how often the cloud has received each record
    faults

syncVars == <<stored, synced, phase, batch, delay, online, uploads, faults>>

Phases == {"down", "sleep", "gather", "post", "answer", "mark"}
Unsynced == stored \ synced
Received == {r \in Records : uploads[r] > 0}

SyncInit ==
    /\ stored = {} /\ synced = {} /\ phase = "down" /\ batch = {} /\ delay = 0
    /\ online \in BOOLEAN /\ uploads = [r \in Records |-> 0] /\ faults = 0

-----------------------------------------------------------------------------
Fault == faults < MaxFaults /\ faults' = faults + 1

\* A new cycle: the loop forgets what it gathered.
Sleep == phase' = "sleep" /\ batch' = {}

\* A crossing, a dwell, a visit, a wait at the till or an event of the timeline.
Write ==
    /\ \E r \in Records \ stored : stored' = stored \cup {r}
    /\ UNCHANGED <<synced, phase, batch, delay, online, uploads, faults>>

Network ==
    /\ online' = ~online
    /\ UNCHANGED <<stored, synced, phase, batch, delay, uploads, faults>>

Start ==
    /\ phase = "down"
    /\ phase' = "sleep" /\ delay' = 0
    /\ UNCHANGED <<stored, synced, batch, online, uploads, faults>>

\* stop() cancels the task wherever it waits, and so does the end of the
\* process: what was not committed is gone.
Stop ==
    /\ phase # "down" /\ Fault
    /\ phase' = "down" /\ batch' = {}
    /\ UNCHANGED <<stored, synced, delay, online, uploads>>

CheckInternet ==
    /\ phase = "sleep"
    /\ IF online THEN phase' = "gather" /\ delay' = 0
       ELSE phase' = "sleep" /\ delay' = IF delay < MaxDelay THEN delay + 1 ELSE delay
    /\ UNCHANGED <<stored, synced, batch, online, uploads, faults>>

\* Of a table with more unsynced rows than the limit, any of them: the query
\* has no order.
Batches ==
    {B \in SUBSET Unsynced :
        \A t \in Tables :
            LET all == {r \in Unsynced : TableOf[r] = t}
                some == {r \in B : TableOf[r] = t}
            IN  IF Cardinality(all) <= Limit THEN some = all ELSE Cardinality(some) = Limit}

\* Mutant: marked as they are gathered.
GatherAndMark ==
    /\ phase = "gather"
    /\ batch' \in Batches
    /\ synced' = synced \cup batch'
    /\ phase' = IF batch' = {} THEN "sleep" ELSE "post"
    /\ UNCHANGED <<stored, delay, online, uploads, faults>>

Gather ==
    /\ phase = "gather"
    /\ batch' \in Batches
    /\ phase' = IF batch' = {} THEN "sleep" ELSE "post"
    /\ UNCHANGED <<stored, synced, delay, online, uploads, faults>>

GatherFails ==
    /\ phase = "gather" /\ Fault
    /\ Sleep
    /\ UNCHANGED <<stored, synced, delay, online, uploads>>

\* The request reaches the cloud; the answer is on its way.
Post ==
    /\ phase = "post" /\ online
    /\ uploads' = [r \in Records |-> IF r \in batch THEN uploads[r] + 1 ELSE uploads[r]]
    /\ phase' = "answer"
    /\ UNCHANGED <<stored, synced, batch, delay, online, faults>>

\* Mutant: the failure of a post is not caught, and the task ends.
PostEndsLoop ==
    /\ phase = "post" /\ ~online
    /\ phase' = "ended"
    /\ UNCHANGED <<stored, synced, batch, delay, online, uploads, faults>>

PostFails ==
    /\ phase = "post" /\ ~online
    /\ Sleep
    /\ UNCHANGED <<stored, synced, delay, online, uploads, faults>>

Answer ==
    /\ phase = "answer"
    /\ phase' = "mark"
    /\ UNCHANGED <<stored, synced, batch, delay, online, uploads, faults>>

\* The answer is lost, late or an error, or the mark is not committed: the
\* records stay unsynced and are sent again.
AnswerLost ==
    /\ phase = "answer" /\ Fault
    /\ Sleep
    /\ UNCHANGED <<stored, synced, delay, online, uploads>>

\* Mutant: only the first table of the cycle is marked.
MarkFirstTable ==
    /\ phase = "mark"
    /\ \E t \in Tables : synced' = synced \cup {r \in batch : TableOf[r] = t}
    /\ Sleep
    /\ UNCHANGED <<stored, delay, online, uploads, faults>>

Mark ==
    /\ phase = "mark"
    /\ synced' = synced \cup batch
    /\ Sleep
    /\ UNCHANGED <<stored, delay, online, uploads, faults>>

MarkFails ==
    /\ phase = "mark" /\ Fault
    /\ Sleep
    /\ UNCHANGED <<stored, synced, delay, online, uploads>>

Cycle ==
    \/ CheckInternet \/ Gather \/ GatherFails \/ Post \/ PostFails
    \/ Answer \/ AnswerLost \/ Mark \/ MarkFails

SyncNext == Write \/ Network \/ Start \/ Stop \/ Cycle

\* The task of the loop is scheduled as long as it can go on, and the
\* process is started again.
SyncSpec == SyncInit /\ [][SyncNext]_syncVars /\ WF_syncVars(Cycle) /\ WF_syncVars(Start)

-----------------------------------------------------------------------------
(* Properties.                                                             *)

\* The tables, the loop and the cloud are of their kinds.
SyncTypeOK ==
    /\ stored \subseteq Records /\ synced \subseteq stored /\ batch \subseteq stored
    /\ phase \in Phases /\ delay \in 0 .. MaxDelay /\ online \in BOOLEAN
    /\ uploads \in [Records -> Nat] /\ faults \in 0 .. MaxFaults

\* A record is uploaded again only for an answer, a mark or a process that was
\* lost: the cloud has it at most once more than there were faults.
ResendsAreFaults == \A r \in Records : uploads[r] <= faults + 1

\* The engine is an outbox: nothing is marked that the cloud has not received
\* and nothing marked is sent again, through outages, lost answers, failed
\* marks, crashes and records inserted at any moment.
Cloud == INSTANCE Outbox WITH Items <- Records, filed <- stored, delivered <- Received, ticked <- synced

ImplementsOutbox == Cloud!Spec

\* When the cloud stays in reach, every record is marked in the end, however
\* many there are of one table.
SyncedInTheEnd == <>[]online => \A r \in Records : r \in stored ~> r \in synced
=============================================================================
