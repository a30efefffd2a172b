------------------------------- MODULE Upload -------------------------------
(***************************************************************************)
(* The upload of documents: the object goes to the object storage, then    *)
(* the rows and the outbox event to the database in one transaction, then  *)
(* the request publishes its event.  An exception before the rows are      *)
(* known to be committed deletes the object, at best effort.  A commit can *)
(* fail at the client and yet have happened.                               *)
(***************************************************************************)
EXTENDS OutboxPublisher

ASSUME DocumentsAreNumbered == Documents \subseteq Nat

VARIABLES
    upload,    \* the step of each upload request
    slug,      \* the slug it asks for, in one workspace: the first upload that asks for it
    objects,   \* the objects stored, by the upload that wrote them
    uncertain, \* history: uploads whose commit failed at the client and happened
    kept       \* history: uploads without a row, whose object could not be deleted or whose
               \* process died

uploads == <<upload, slug, objects, uncertain, kept>>
vars == <<outbox, uploads>>

Steps == {"idle", "stored", "cleaning", "committed", "ended"}

Init ==
    /\ OutboxInit
    /\ upload = [d \in Documents |-> "idle"] 
    /\ slug \in {f \in [Documents -> Documents] : \A d \in Documents : f[d] <= d /\ f[f[d]] = f[d]}
    /\ objects = {} /\ uncertain = {} /\ kept = {}

Go(d, s) == upload' = [upload EXCEPT ![d] = s]

-----------------------------------------------------------------------------
(* The metadata, the size or the signature is not accepted: nothing is stored. *)
Reject(d) ==
    /\ upload[d] = "idle"
    /\ Go(d, "ended")
    /\ UNCHANGED <<outbox, slug, objects, uncertain, kept>>

(* The object is stored; the transaction has begun with the first query. *)
Store(d) ==
    /\ upload[d] = "idle"
    /\ objects' = objects \cup {d} /\ began' = Append(began, d)
    /\ Go(d, "stored")
    /\ UNCHANGED <<committed, published, removed, holder, batch, slug, uncertain, kept>>

(* The storage raises, with or without the object. *)
StoreFails(d) ==
    /\ upload[d] = "idle"
    /\ objects' \in {objects, objects \cup {d}}
    /\ Go(d, "cleaning")
    /\ UNCHANGED <<outbox, slug, uncertain, kept>>

(* (workspace, slug) is unique among the documents. *)
Taken(d) == \E c \in committed \cap Documents : slug[c] = slug[d]

Commit(d) ==
    /\ upload[d] = "stored" /\ ~Taken(d)
    /\ committed' = committed \cup {d}
    /\ Go(d, "committed")
    /\ UNCHANGED <<began, published, removed, holder, batch, slug, objects, uncertain, kept>>

Conflict(d) ==
    /\ upload[d] = "stored" /\ Taken(d)
    /\ Go(d, "cleaning")
    /\ UNCHANGED <<outbox, slug, objects, uncertain, kept>>

(* The commit raises; the transaction may have been committed. *)
CommitFails(d) ==
    /\ upload[d] = "stored"
    /\ Go(d, "cleaning")
    /\ \/ UNCHANGED <<committed, uncertain>>
       \/ ~Taken(d) /\ committed' = committed \cup {d} /\ uncertain' = uncertain \cup {d}
    /\ UNCHANGED <<began, published, removed, holder, batch, slug, objects, kept>>

(* _delete_after_failed_upload: the key is that of this upload alone. *)
MutantOwnObject(d) == {c \in objects : slug[c] = slug[d]}
OwnObject(d) == {d}

CleanUp(d) ==
    /\ upload[d] = "cleaning"
    /\ \/ objects' = objects \ OwnObject(d) /\ UNCHANGED kept
       \/ kept' = kept \cup ({d} \ committed) /\ UNCHANGED objects
    /\ Go(d, "ended")
    /\ UNCHANGED <<outbox, slug, uncertain>>

-----------------------------------------------------------------------------
(* The request publishes its own event, which a batch may have done already. *)
Claim(d) == upload[d] = "committed" /\ ClaimOwn(d) /\ UNCHANGED uploads

AlreadyPublished(d) ==
    /\ upload[d] = "committed" /\ d \in published
    /\ Go(d, "ended")
    /\ UNCHANGED <<outbox, slug, objects, uncertain, kept>>

(* An event that could not be sent is left to a later batch. *)
PublishOwn(d) ==
    /\ Publish(d) \/ SendFails(d)
    /\ Go(d, "ended")
    /\ UNCHANGED <<slug, objects, uncertain, kept>>

(* The request fails although the document is stored. *)
MarkOwnFails(d) ==
    /\ MarkFails(d)
    /\ Go(d, "ended")
    /\ UNCHANGED <<slug, objects, uncertain, kept>>

(* The API process dies. *)
Crash(d) ==
    /\ upload[d] \in {"stored", "cleaning", "committed"}
    /\ Go(d, "ended") /\ kept' = kept \cup ({d} \ committed)
    /\ holder' = Releases(d)
    /\ UNCHANGED <<began, committed, published, removed, batch, slug, objects, uncertain>>

(* create_run commits a run with its event. *)
RequestRun(e) ==
    /\ e \notin committed
    /\ began' = Append(began, e) /\ committed' = committed \cup {e}
    /\ UNCHANGED <<published, removed, holder, batch, uploads>>

-----------------------------------------------------------------------------
Request(d) ==
    \/ Store(d) \/ Commit(d) \/ Conflict(d) \/ CleanUp(d)
    \/ Claim(d) \/ AlreadyPublished(d) \/ PublishOwn(d)

Next ==
    \/ \E d \in Documents : Request(d) \/ Reject(d) \/ StoreFails(d) \/ CommitFails(d)
                            \/ MarkOwnFails(d) \/ Crash(d)
    \/ \E e \in Requests : RequestRun(e)
    \/ \E e \in Events : Remove(e) /\ UNCHANGED uploads
    \/ \E b \in Batches : BatchStep(b) /\ UNCHANGED uploads

Spec ==
    /\ Init /\ [][Next]_vars
    /\ \A d \in Documents : WF_vars(Request(d))
    /\ \A b \in Batches : WF_vars(BatchStep(b) /\ UNCHANGED uploads)
    /\ \A b \in Batches, e \in Events : SF_vars(PublishEvent(b, e) /\ UNCHANGED uploads)

-----------------------------------------------------------------------------
(* Every variable has its type; a row that is locked is a pending event's. *)
TypeOK ==
    /\ upload \in [Documents -> Steps] /\ slug \in [Documents -> Documents]
    /\ objects \subseteq Documents /\ uncertain \subseteq Documents /\ kept \subseteq Documents
    /\ committed \subseteq Events /\ published \subseteq committed /\ removed \subseteq committed
    /\ \A e \in committed \ uncertain : \E i \in DOMAIN began : began[i] = e
    /\ holder \in [Events -> Documents \cup Batches \cup {Nobody}]
    /\ \A e \in Events : holder[e] # Nobody => e \in Pending
    /\ \A p \in Documents \cup Batches : Cardinality(Claimed(p)) <= 1
    /\ batch \in [Batches -> [on : BOOLEAN, turns : 0..Limit, processed : SUBSET Events]]

(* Every document row has its object, whatever other uploads of the same    *)
(* slug do, unless its commit failed at the client only; an object without  *)
(* a row belongs to a request that still runs, died, or could not delete it *)
(* (upload_service.py upload, _delete_after_failed_upload).                 *)
ObjectsMatchRows ==
    /\ committed \cap Documents \subseteq objects \cup uncertain
    /\ \A d \in objects \ committed : d \in kept \/ upload[d] \in {"stored", "cleaning"}

(* An event is published in the end although the broker or the marking of   *)
(* events fails now and then, as long as fewer rows than the limit of a     *)
(* batch are gone: events that always fail are attempted first each time,   *)
(* so each may use up one turn of a batch and not more (outbox/service.py   *)
(* publish_pending: processed_ids).                                         *)
EventsArePublished ==
    \A e \in Events : (e \in committed) ~> (e \in published \/ e \in removed)
=============================================================================
