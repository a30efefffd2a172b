--------------------------- MODULE OutboxPublisher ---------------------------
(***************************************************************************)
(* The publisher of the transactional outbox.  Batches of the beat         *)
(* schedule claim the oldest pending events one by one, skipping those     *)
(* that another session has locked; the request that added an event        *)
(* publishes it itself.  An event is sent to the broker and marked in the  *)
(* transaction that holds its lock.  The events are added by the modules   *)
(* that extend this one.                                                   *)
(***************************************************************************)
EXTENDS Naturals, Sequences, FiniteSets

CONSTANTS
    Documents,   \* uploads; each adds the ingestion event of its first version
    Requests,    \* evaluation runs; each adds its own event
    Batches,     \* worker processes that run publish_pending_outbox_events
    Nobody,      \* holder of a free lock
    Limit,       \* publish_pending limit
    MaxRemoved   \* bound: rows that operators remove below their events

ASSUME LimitIsPositive == Limit \in Nat \ {0} /\ MaxRemoved \in Nat
ASSUME EventsAreDistinct ==
    Documents \cap (Requests \cup Batches) = {} /\ Nobody \notin Documents \cup Batches

Events == Documents \cup Requests

VARIABLES
    began,      \* events in the order of created_at, the start of their transaction
    committed,  \* events whose transaction has committed
    published,  \* events with published_at
    removed,    \* events whose document version or evaluation run is gone
    holder,     \* the session that has locked each event's row
    batch       \* each batch: whether it runs, its turns so far and the events it has processed

outbox == <<began, committed, published, removed, holder, batch>>

Resting == [on |-> FALSE, turns |-> 0, processed |-> {}]

OutboxInit ==
    /\ began = <<>> /\ committed = {} /\ published = {} /\ removed = {}
    /\ holder = [e \in Events |-> Nobody]
    /\ batch = [b \in Batches |-> Resting]

Pending     == committed \ published
Position(e) == CHOOSE i \in DOMAIN began : began[i] = e
Claimed(p)  == {e \in Events : holder[e] = p}

(* The row locks after the end of p's transaction. *)
MutantReleases(p) == holder
Releases(p) == [e \in Events |-> IF holder[e] = p THEN Nobody ELSE holder[e]]

(* The task queue of p has room for the event: the API has no queue for runs. *)
HasQueue(p, e) == e \in Documents \/ p \in Batches

(* What can be sent: its queue is configured and its subject exists. *)
Sendable(p, e) == HasQueue(p, e) /\ e \notin removed

-----------------------------------------------------------------------------
(* publish_pending.                                                        *)
StartBatch(b) ==
    /\ ~batch[b].on
    /\ batch' = [batch EXCEPT ![b] = [on |-> TRUE, turns |-> 0, processed |-> {}]]
    /\ UNCHANGED <<began, committed, published, removed, holder>>

(* The events a batch may claim next: those nobody has locked, of which it *)
(* has processed none.  It has as many turns as the limit.                 *)
MutantCandidates(b) == {e \in Pending : holder[e] = Nobody}
Candidates(b) == {e \in Pending : holder[e] = Nobody /\ e \notin batch[b].processed}

More(b) == Candidates(b) # {} /\ batch[b].turns < Limit

Turn(b, e) ==
    [on |-> TRUE, turns |-> batch[b].turns + 1, processed |-> batch[b].processed \cup {e}]

ClaimOldest(b) ==
    /\ batch[b].on /\ Claimed(b) = {} /\ More(b)
    /\ \E e \in Candidates(b) :
          /\ \A f \in Candidates(b) : Position(e) <= Position(f)
          /\ holder' = [holder EXCEPT ![e] = b]
          /\ batch' = [batch EXCEPT ![b] = Turn(b, e)]
    /\ UNCHANGED <<began, committed, published, removed>>

EndBatch(b) ==
    /\ batch[b].on /\ Claimed(b) = {} /\ ~More(b)
    /\ batch' = [batch EXCEPT ![b] = Resting]
    /\ UNCHANGED <<began, committed, published, removed, holder>>

(* publish_event waits for the lock; an event published meanwhile is not claimed. *)
ClaimOwn(d) ==
    /\ d \in Pending /\ holder[d] = Nobody
    /\ holder' = [holder EXCEPT ![d] = d]
    /\ UNCHANGED <<began, committed, published, removed, batch>>

-----------------------------------------------------------------------------
(* _publish_locked_event, by batch or request p.                           *)

(* The event is sent and marked. *)
Publish(p) ==
    /\ \E e \in Claimed(p) : Sendable(p, e) /\ published' = published \cup {e}
    /\ holder' = Releases(p)
    /\ UNCHANGED <<began, committed, removed, batch>>

(* It cannot be sent now, or ever: the attempt is counted, and the batch goes on. *)
SendFails(p) ==
    /\ Claimed(p) # {} /\ holder' = Releases(p)
    /\ UNCHANGED <<began, committed, published, removed, batch>>

(* It is sent, but marking it fails, or the process dies: a batch ends. *)
MarkFails(p) ==
    /\ \E e \in Claimed(p) : Sendable(p, e)
    /\ holder' = Releases(p)
    /\ batch' = [b \in Batches |-> IF b = p THEN Resting ELSE batch[b]]
    /\ UNCHANGED <<began, committed, published, removed>>

(* An operator removes the row an event is about (no code deletes it). *)
Remove(e) ==
    /\ e \in committed \ removed /\ Cardinality(removed) < MaxRemoved
    /\ removed' = removed \cup {e}
    /\ UNCHANGED <<began, committed, published, holder, batch>>

BatchStep(b) ==
    \/ StartBatch(b) \/ ClaimOldest(b) \/ EndBatch(b)
    \/ Publish(b) \/ SendFails(b) \/ MarkFails(b)

(* Batch b publishes event e: the step that neither the broker nor the     *)
(* database makes fail for ever.                                           *)
PublishEvent(b, e) == e \in Claimed(b) /\ Publish(b)
=============================================================================
