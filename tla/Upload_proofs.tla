---------------------------- MODULE Upload_proofs ----------------------------
(***************************************************************************)
(* Proofs about Upload and the outbox publisher it extends: whatever the   *)
(* number of uploads, events and batches, each session holds one event's   *)
(* lock at most, an event that is locked is pending, and objects and rows  *)
(* match.                                                                  *)
(***************************************************************************)
EXTENDS Upload, FiniteSetTheorems, TLAPS

(* Sessions and locks. *)
OutboxInv ==
    /\ began \in Seq(Events)
    /\ committed \subseteq Events /\ published \subseteq committed /\ removed \subseteq committed
    /\ \A e \in committed : \E i \in DOMAIN began : began[i] = e
    /\ holder \in [Events -> Documents \cup Batches \cup {Nobody}]
    /\ \A e \in Events : holder[e] # Nobody => e \in Pending
    /\ \A e \in Events : holder[e] \in Documents => holder[e] = e
    /\ \A e, f \in Events : holder[e] \in Batches /\ holder[e] = holder[f] => e = f
    /\ batch \in [Batches -> [on : BOOLEAN, turns : 0..Limit, processed : SUBSET Events]]

(* Each step of an upload: its object, its row and its place in the order. *)
UploadInv ==
    /\ upload \in [Documents -> Steps] /\ slug \in [Documents -> Documents]
    /\ objects \subseteq Documents /\ uncertain \subseteq Documents /\ kept \subseteq Documents
    /\ \A d \in Documents :
          /\ upload[d] = "idle" => d \notin objects /\ d \notin committed
          /\ upload[d] = "stored" => /\ d \in objects /\ d \notin committed
                                     /\ \E i \in DOMAIN began : began[i] = d
          /\ upload[d] = "cleaning" /\ d \in committed => d \in uncertain
          /\ upload[d] = "committed" => d \in committed

IInv == OutboxInv /\ UploadInv /\ ObjectsMatchRows

-----------------------------------------------------------------------------
(* What the end of a session's transaction does to the locks. *)
LEMMA Released ==
    ASSUME OutboxInv, NEW p, holder' = Releases(p)
    PROVE  /\ holder' \in [Events -> Documents \cup Batches \cup {Nobody}]
           /\ \A e \in Events : holder'[e] \in {holder[e], Nobody} /\ (holder[e] = p => holder'[e] = Nobody)
BY DEF OutboxInv, Releases

(* The locks that are left are as good as before. *)
LEMMA FewerLocks ==
    ASSUME OutboxInv, holder' \in [Events -> Documents \cup Batches \cup {Nobody}],
           \A e \in Events : holder'[e] \in {holder[e], Nobody}
    PROVE  /\ \A e \in Events : holder'[e] \in Documents => holder'[e] = e
           /\ \A e, f \in Events : holder'[e] \in Batches /\ holder'[e] = holder'[f] => e = f
<1> USE EventsAreDistinct
<1>1. \A e \in Events : holder'[e] # Nobody => holder'[e] = holder[e]
    OBVIOUS
<1> QED BY <1>1 DEF OutboxInv

LEMMA LongerOrder ==
    ASSUME OutboxInv, NEW e \in Events, began' = Append(began, e)
    PROVE  /\ began' \in Seq(Events)
           /\ \A f : (\E i \in DOMAIN began : began[i] = f) => \E i \in DOMAIN began' : began'[i] = f
           /\ \E i \in DOMAIN began' : began'[i] = e
<1>1. began \in Seq(Events)
    BY DEF OutboxInv
<1>2. began' \in Seq(Events) /\ Len(began') = Len(began) + 1 /\ Len(began) \in Nat
      /\ \A i \in 1 .. Len(began) : began'[i] = began[i]
      /\ began'[Len(began) + 1] = e
    BY <1>1
<1>3. DOMAIN began = 1 .. Len(began) /\ DOMAIN began' = 1 .. Len(began')
    BY <1>1, <1>2
<1> QED BY <1>2, <1>3

(* The event of one session is published; the others' events stay pending. *)
LEMMA PublishKeeps == ASSUME OutboxInv, NEW p \in Documents \cup Batches, Publish(p) PROVE OutboxInv'
<1> PICK e \in Claimed(p) : Sendable(p, e) /\ published' = published \cup {e}
    BY DEF Publish
<1>0. p # Nobody
    BY EventsAreDistinct
<1>1. holder' = Releases(p) /\ UNCHANGED <<began, committed, removed, batch>>
    BY DEF Publish
<1>2. e \in Events /\ holder[e] = p /\ published' = published \cup {e}
    BY DEF Claimed
<1>3. e \in Pending
    BY <1>0, <1>2 DEF OutboxInv
<1>4. \A f \in Events : holder'[f] # Nobody => f \in Pending /\ f # e
    BY <1>1, <1>2, Released DEF OutboxInv
<1>5. \A f \in Events : holder'[f] # Nobody => f \in Pending'
    BY <1>4, <1>1, <1>2 DEF Pending
<1> QED BY <1>1, <1>2, <1>3, <1>5, Released, FewerLocks DEF OutboxInv, Pending

(* A session ends its transaction without publishing. *)
LEMMA ReleaseKeeps ==
    ASSUME OutboxInv, NEW p, holder' = Releases(p), UNCHANGED <<began, committed, published, removed>>,
           batch' \in [Batches -> [on : BOOLEAN, turns : 0..Limit, processed : SUBSET Events]]
    PROVE  OutboxInv'
<1>1. \A f \in Events : holder'[f] # Nobody => f \in Pending'
    BY Released DEF OutboxInv, Pending
<1> QED BY <1>1, Released, FewerLocks DEF OutboxInv

(* A pending event is locked by a session that holds none. *)
LEMMA ClaimKeeps ==
    ASSUME OutboxInv, NEW e \in Pending, NEW p \in Documents \cup Batches, holder[e] = Nobody,
           holder' = [holder EXCEPT ![e] = p], p \in Batches => Claimed(p) = {}, p \in Documents => p = e,
           UNCHANGED <<began, committed, published, removed>>,
           batch' \in [Batches -> [on : BOOLEAN, turns : 0..Limit, processed : SUBSET Events]]
    PROVE  OutboxInv'
<1> USE EventsAreDistinct
<1>1. e \in Events /\ holder \in [Events -> Documents \cup Batches \cup {Nobody}]
    BY DEF OutboxInv, Pending
<1>2. \A f \in Events : holder'[f] = IF f = e THEN p ELSE holder[f]
    BY <1>1
<1>3. /\ holder' \in [Events -> Documents \cup Batches \cup {Nobody}]
      /\ \A f \in Events : holder'[f] # Nobody => f \in Pending'
      /\ \A f \in Events : holder'[f] \in Documents => holder'[f] = f
    BY <1>1, <1>2 DEF OutboxInv, Pending
<1>4. \A f, g \in Events : holder'[f] \in Batches /\ holder'[f] = holder'[g] => f = g
    BY <1>1, <1>2 DEF OutboxInv, Claimed, Events
<1> QED BY <1>3, <1>4 DEF OutboxInv

LEMMA BatchKeeps == ASSUME OutboxInv, NEW b \in Batches, BatchStep(b) PROVE OutboxInv'
<1>0. batch \in [Batches -> [on : BOOLEAN, turns : 0..Limit, processed : SUBSET Events]]
    BY DEF OutboxInv
<1>1. CASE StartBatch(b)
  <2>1. batch' = [batch EXCEPT ![b] = [on |-> TRUE, turns |-> 0, processed |-> {}]]
        /\ UNCHANGED <<began, committed, published, removed, holder>>
      BY <1>1 DEF StartBatch
  <2>2. batch' \in [Batches -> [on : BOOLEAN, turns : 0..Limit, processed : SUBSET Events]]
      BY <1>0, <2>1, LimitIsPositive
  <2> QED BY <2>1, <2>2 DEF OutboxInv, Pending
<1>2. CASE ClaimOldest(b)
  <2>1. /\ Claimed(b) = {} /\ batch[b].turns < Limit /\ UNCHANGED <<began, committed, published, removed>>
        /\ \E e \in Candidates(b) : /\ holder' = [holder EXCEPT ![e] = b]
                                    /\ batch' = [batch EXCEPT ![b] = Turn(b, e)]
      BY <1>2 DEF ClaimOldest, More
  <2> PICK e \in Candidates(b) : /\ holder' = [holder EXCEPT ![e] = b]
                                 /\ batch' = [batch EXCEPT ![b] = Turn(b, e)]
      BY <2>1
  <2>2. e \in Pending /\ holder[e] = Nobody /\ e \in Events
      BY DEF Candidates, OutboxInv, Pending
  <2>3. batch[b].turns + 1 \in 0..Limit
      BY <1>0, <2>1, LimitIsPositive
  <2>5. batch' \in [Batches -> [on : BOOLEAN, turns : 0..Limit, processed : SUBSET Events]]
      BY <1>0, <2>2, <2>3 DEF Turn
  <2>4. b \in Documents \cup Batches /\ b \notin Documents
      BY EventsAreDistinct
  <2> QED BY <2>1, <2>2, <2>5, <2>4, ClaimKeeps
<1>3. CASE EndBatch(b)
  <2>1. batch' = [batch EXCEPT ![b] = Resting]
        /\ UNCHANGED <<began, committed, published, removed, holder>>
      BY <1>3 DEF EndBatch
  <2>2. batch' \in [Batches -> [on : BOOLEAN, turns : 0..Limit, processed : SUBSET Events]]
      BY <1>0, <2>1, LimitIsPositive DEF Resting
  <2> QED BY <2>1, <2>2 DEF OutboxInv, Pending
<1>4. CASE Publish(b)
    BY <1>4, PublishKeeps
<1>5. CASE SendFails(b)
    BY <1>0, <1>5, ReleaseKeeps DEF SendFails
<1>6. CASE MarkFails(b)
  <2>1. batch' \in [Batches -> [on : BOOLEAN, turns : 0..Limit, processed : SUBSET Events]]
      BY <1>0, <1>6, LimitIsPositive DEF MarkFails, Resting
  <2> QED BY <2>1, <1>6, ReleaseKeeps DEF MarkFails
<1> QED BY <1>1, <1>2, <1>3, <1>4, <1>5, <1>6 DEF BatchStep

-----------------------------------------------------------------------------
(* Whichever session takes a step, the locks and the order stay as they are *)
(* described.                                                               *)
LEMMA OutboxStep == ASSUME IInv, [Next]_vars PROVE OutboxInv'
<1> USE DEF IInv
<1>1. CASE UNCHANGED outbox
    BY <1>1 DEF OutboxInv, Pending, outbox
<1>2. ASSUME NEW d \in Documents, Store(d) PROVE OutboxInv'
  <2>1. d \in Events /\ began' = Append(began, d)
        /\ UNCHANGED <<committed, published, removed, holder, batch>>
      BY <1>2 DEF Store, Events
  <2> QED BY <2>1, LongerOrder DEF OutboxInv, Pending
<1>3. ASSUME NEW d \in Documents, upload[d] = "stored", committed' = committed \cup {d},
             UNCHANGED <<began, published, removed, holder, batch>>
      PROVE OutboxInv'
  <2>1. d \in Events /\ \E i \in DOMAIN began : began[i] = d
      BY <1>3 DEF UploadInv, Events
  <2>2. \A e \in Events : holder'[e] # Nobody => e \in Pending'
      BY <1>3 DEF OutboxInv, Pending
  <2> QED BY <1>3, <2>1, <2>2 DEF OutboxInv
<1>4. ASSUME NEW d \in Documents, Claim(d) PROVE OutboxInv'
  <2>1. d \in Pending /\ holder[d] = Nobody /\ holder' = [holder EXCEPT ![d] = d]
        /\ UNCHANGED <<began, committed, published, removed, batch>>
      BY <1>4 DEF Claim, ClaimOwn
  <2>2. batch' \in [Batches -> [on : BOOLEAN, turns : 0..Limit, processed : SUBSET Events]]
      BY <2>1 DEF OutboxInv
  <2>3. d \in Documents \cup Batches /\ d \notin Batches
      BY EventsAreDistinct
  <2> QED BY <2>1, <2>2, <2>3, ClaimKeeps
<1>5. ASSUME NEW d \in Documents, PublishOwn(d) PROVE OutboxInv'
  <2>1. batch \in [Batches -> [on : BOOLEAN, turns : 0..Limit, processed : SUBSET Events]]
      BY DEF OutboxInv
  <2> QED BY <1>5, <2>1, PublishKeeps, ReleaseKeeps DEF PublishOwn, SendFails
<1>6. ASSUME NEW d \in Documents, MarkOwnFails(d) PROVE OutboxInv'
  <2>1. batch \in [Batches -> [on : BOOLEAN, turns : 0..Limit, processed : SUBSET Events]]
      BY DEF OutboxInv
  <2>2. /\ holder' = Releases(d) /\ UNCHANGED <<began, committed, published, removed>>
        /\ batch' = [b \in Batches |-> IF b = d THEN Resting ELSE batch[b]]
      BY <1>6 DEF MarkOwnFails, MarkFails
  <2>3. batch' \in [Batches -> [on : BOOLEAN, turns : 0..Limit, processed : SUBSET Events]]
      BY <2>1, <2>2, LimitIsPositive DEF Resting
  <2> QED BY <2>2, <2>3, ReleaseKeeps
<1>7. ASSUME NEW d \in Documents, Crash(d) PROVE OutboxInv'
  <2>1. batch \in [Batches -> [on : BOOLEAN, turns : 0..Limit, processed : SUBSET Events]]
      BY DEF OutboxInv
  <2> QED BY <1>7, <2>1, ReleaseKeeps DEF Crash
<1>8. ASSUME NEW e \in Requests, RequestRun(e) PROVE OutboxInv'
  <2>1. /\ e \in Events /\ began' = Append(began, e) /\ committed' = committed \cup {e}
        /\ UNCHANGED <<published, removed, holder, batch>>
      BY <1>8 DEF RequestRun, Events
  <2>2. \A f \in Events : holder'[f] # Nobody => f \in Pending'
      BY <2>1 DEF OutboxInv, Pending
  <2> QED BY <2>1, <2>2, LongerOrder DEF OutboxInv
<1>9. ASSUME NEW e \in Events, Remove(e) PROVE OutboxInv'
    BY <1>9 DEF Remove, OutboxInv, Pending
<1>10. ASSUME NEW d \in Documents, Reject(d) \/ StoreFails(d) \/ Conflict(d) \/ CleanUp(d) \/ AlreadyPublished(d)
       PROVE OutboxInv'
    BY <1>1, <1>10 DEF Reject, StoreFails, Conflict, CleanUp, AlreadyPublished
<1>11. ASSUME NEW d \in Documents, Commit(d) PROVE OutboxInv'
    BY <1>3, <1>11 DEF Commit
<1>12. ASSUME NEW d \in Documents, CommitFails(d) PROVE OutboxInv'
  <2>1. upload[d] = "stored" /\ UNCHANGED <<began, published, removed, holder, batch>>
        /\ (UNCHANGED committed \/ committed' = committed \cup {d})
      BY <1>12 DEF CommitFails
  <2> QED BY <2>1, <1>1, <1>3 DEF outbox
<1>13. CASE UNCHANGED vars
    BY <1>13, <1>1 DEF vars
<1> QED BY <1>2, <1>4, <1>5, <1>6, <1>7, <1>8, <1>9, <1>10, <1>11, <1>12, <1>13, BatchKeeps DEF Next, Request

-----------------------------------------------------------------------------
(* A step of one upload touches its own object, row and step alone. *)
LEMMA ForeignSteps ==
    ASSUME IInv, UNCHANGED uploads, UNCHANGED <<began, committed>> \/
               (\E e \in Requests : began' = Append(began, e) /\ committed' = committed \cup {e})
    PROVE  UploadInv' /\ ObjectsMatchRows'
<1> USE EventsAreDistinct DEF IInv
<1>1. CASE UNCHANGED <<began, committed>>
    BY <1>1 DEF UploadInv, ObjectsMatchRows, uploads
<1>2. ASSUME NEW e \in Requests, began' = Append(began, e), committed' = committed \cup {e}
      PROVE UploadInv' /\ ObjectsMatchRows'
  <2>1. \A d \in Documents : d \in committed' <=> d \in committed
      BY <1>2
  <2>2. e \in Events
      BY DEF Events
  <2>3. \A f : (\E i \in DOMAIN began : began[i] = f) => \E i \in DOMAIN began' : began'[i] = f
      BY <1>2, <2>2, LongerOrder
  <2> QED BY <2>1, <2>3 DEF UploadInv, ObjectsMatchRows, uploads
<1> QED BY <1>1, <1>2

LEMMA UploadStep == ASSUME IInv, [Next]_vars PROVE UploadInv' /\ ObjectsMatchRows'
<1> USE DEF IInv
<1>1. ASSUME NEW d \in Documents, Store(d) PROVE UploadInv' /\ ObjectsMatchRows'
  <2>1. d \in Events /\ upload[d] = "idle" /\ objects' = objects \cup {d} /\ began' = Append(began, d)
        /\ upload' = [upload EXCEPT ![d] = "stored"] /\ UNCHANGED <<committed, slug, uncertain, kept>>
      BY <1>1 DEF Store, Go, Events
  <2>2. /\ \A f : (\E i \in DOMAIN began : began[i] = f) => \E i \in DOMAIN began' : began'[i] = f
        /\ \E i \in DOMAIN began' : began'[i] = d
      BY <2>1, LongerOrder
  <2>3. \A c \in Documents : upload'[c] = IF c = d THEN "stored" ELSE upload[c]
      BY <2>1 DEF UploadInv
  <2>4. upload' \in [Documents -> Steps]
      BY <2>1 DEF UploadInv, Steps
  <2> QED BY <2>1, <2>2, <2>3, <2>4 DEF UploadInv, ObjectsMatchRows
<1>2. ASSUME NEW d \in Documents, NEW s \in Steps, upload' = [upload EXCEPT ![d] = s],
             UNCHANGED <<began, slug>>,
             committed \subseteq committed', committed' \subseteq committed \cup {d},
             uncertain \subseteq uncertain', uncertain' \subseteq uncertain \cup {d},
             kept \subseteq kept', kept' \subseteq kept \cup {d},
             objects \ {d} \subseteq objects', objects' \subseteq objects \cup {d},
             s \in {"cleaning", "committed", "ended"}, s = "committed" => d \in committed',
             s = "cleaning" /\ d \in committed' => d \in uncertain',
             d \in committed' => d \in objects' \cup uncertain',
             d \in objects' \ committed' => d \in kept' \/ s = "cleaning"
      PROVE UploadInv' /\ ObjectsMatchRows'
  <2>1. \A c \in Documents : upload'[c] = IF c = d THEN s ELSE upload[c]
      BY <1>2 DEF UploadInv
  <2>2. upload' \in [Documents -> Steps]
      BY <1>2 DEF UploadInv
  <2>3. UploadInv'
      BY <1>2, <2>1, <2>2 DEF UploadInv
  <2>4. ObjectsMatchRows'
      BY <1>2, <2>1 DEF UploadInv, ObjectsMatchRows
  <2> QED BY <2>3, <2>4
<1>3. ASSUME NEW d \in Documents, Reject(d) PROVE UploadInv' /\ ObjectsMatchRows'
  <2>1. upload[d] = "idle" /\ upload' = [upload EXCEPT ![d] = "ended"]
        /\ UNCHANGED <<began, committed, slug, objects, uncertain, kept>>
      BY <1>3 DEF Reject, Go, outbox
  <2>2. d \notin objects /\ d \notin committed
      BY <2>1 DEF UploadInv
  <2> QED BY <1>2, <2>1, <2>2 DEF Steps
<1>4. ASSUME NEW d \in Documents, StoreFails(d) PROVE UploadInv' /\ ObjectsMatchRows'
  <2>1. upload[d] = "idle" /\ upload' = [upload EXCEPT ![d] = "cleaning"]
        /\ objects' \in {objects, objects \cup {d}} /\ UNCHANGED <<began, committed, slug, uncertain, kept>>
      BY <1>4 DEF StoreFails, Go, outbox
  <2>2. d \notin committed
      BY <2>1 DEF UploadInv
  <2> QED BY <1>2, <2>1, <2>2 DEF Steps
<1>5. ASSUME NEW d \in Documents, Commit(d) PROVE UploadInv' /\ ObjectsMatchRows'
  <2>1. upload[d] = "stored" /\ upload' = [upload EXCEPT ![d] = "committed"]
        /\ committed' = committed \cup {d} /\ UNCHANGED <<began, slug, objects, uncertain, kept>>
      BY <1>5 DEF Commit, Go
  <2>2. d \in objects
      BY <2>1 DEF UploadInv
  <2> QED BY <1>2, <2>1, <2>2 DEF Steps
<1>6. ASSUME NEW d \in Documents, Conflict(d) PROVE UploadInv' /\ ObjectsMatchRows'
  <2>1. upload[d] = "stored" /\ upload' = [upload EXCEPT ![d] = "cleaning"]
        /\ UNCHANGED <<began, committed, slug, objects, uncertain, kept>>
      BY <1>6 DEF Conflict, Go, outbox
  <2>2. d \notin committed
      BY <2>1 DEF UploadInv
  <2> QED BY <1>2, <2>1, <2>2 DEF Steps
<1>7. ASSUME NEW d \in Documents, CommitFails(d) PROVE UploadInv' /\ ObjectsMatchRows'
  <2>1. upload[d] = "stored" /\ upload' = [upload EXCEPT ![d] = "cleaning"]
        /\ UNCHANGED <<began, slug, objects, kept>>
        /\ \/ UNCHANGED <<committed, uncertain>>
           \/ committed' = committed \cup {d} /\ uncertain' = uncertain \cup {d}
      BY <1>7 DEF CommitFails, Go
  <2>2. d \notin committed /\ d \in objects
      BY <2>1 DEF UploadInv
  <2> QED BY <1>2, <2>1, <2>2 DEF Steps
<1>8. ASSUME NEW d \in Documents, CleanUp(d) PROVE UploadInv' /\ ObjectsMatchRows'
  <2>1. upload[d] = "cleaning" /\ upload' = [upload EXCEPT ![d] = "ended"]
        /\ UNCHANGED <<began, committed, slug, uncertain>>
        /\ \/ objects' = objects \ {d} /\ UNCHANGED kept
           \/ kept' = kept \cup ({d} \ committed) /\ UNCHANGED objects
      BY <1>8 DEF CleanUp, Go, outbox, OwnObject
  <2>2. d \in committed => d \in uncertain
      BY <2>1 DEF UploadInv
  <2> QED BY <1>2, <2>1, <2>2 DEF Steps
<1>9. ASSUME NEW d \in Documents, AlreadyPublished(d) \/ PublishOwn(d) \/ MarkOwnFails(d)
      PROVE UploadInv' /\ ObjectsMatchRows'
  <2>1. upload' = [upload EXCEPT ![d] = "ended"]
        /\ UNCHANGED <<began, committed, slug, objects, uncertain, kept>>
      BY <1>9 DEF AlreadyPublished, PublishOwn, MarkOwnFails, Publish, SendFails, MarkFails, Go, outbox
  <2>2. d \in committed
    <3>1. CASE AlreadyPublished(d)
        BY <3>1 DEF AlreadyPublished, OutboxInv
    <3>2. CASE PublishOwn(d) \/ MarkOwnFails(d)
      <4>1. Claimed(d) # {}
          BY <3>2 DEF PublishOwn, MarkOwnFails, Publish, SendFails, MarkFails
      <4>2. \E e \in Events : holder[e] = d
          BY <4>1 DEF Claimed
      <4>3. d # Nobody
          BY EventsAreDistinct
      <4> QED BY <4>2, <4>3 DEF OutboxInv, Pending
    <3> QED BY <1>9, <3>1, <3>2
  <2>3. d \in objects \cup uncertain
      BY <2>2 DEF ObjectsMatchRows
  <2> QED BY <1>2, <2>1, <2>2, <2>3 DEF Steps
<1>10. ASSUME NEW d \in Documents, Crash(d) PROVE UploadInv' /\ ObjectsMatchRows'
  <2>1. upload' = [upload EXCEPT ![d] = "ended"] /\ kept' = kept \cup ({d} \ committed)
        /\ UNCHANGED <<began, committed, slug, objects, uncertain>>
      BY <1>10 DEF Crash, Go
  <2>2. d \in committed => d \in objects \cup uncertain
      BY DEF ObjectsMatchRows
  <2> QED BY <1>2, <2>1, <2>2 DEF Steps
<1>11. ASSUME NEW d \in Documents, Claim(d) PROVE UploadInv' /\ ObjectsMatchRows'
    BY <1>11, ForeignSteps DEF Claim, ClaimOwn
<1>12. ASSUME NEW e \in Requests, RequestRun(e) PROVE UploadInv' /\ ObjectsMatchRows'
    BY <1>12, ForeignSteps DEF RequestRun
<1>13. ASSUME NEW e \in Events, Remove(e), UNCHANGED uploads PROVE UploadInv' /\ ObjectsMatchRows'
    BY <1>13, ForeignSteps DEF Remove
<1>14. ASSUME NEW b \in Batches, BatchStep(b), UNCHANGED uploads PROVE UploadInv' /\ ObjectsMatchRows'
  <2>1. UNCHANGED <<began, committed>>
      BY <1>14 DEF BatchStep, StartBatch, ClaimOldest, EndBatch, Publish, SendFails, MarkFails
  <2> QED BY <2>1, <1>14, ForeignSteps
<1>15. CASE UNCHANGED vars
    BY <1>15, ForeignSteps DEF vars, outbox
<1> QED BY <1>1, <1>3, <1>4, <1>5, <1>6, <1>7, <1>8, <1>9, <1>10, <1>11, <1>12, <1>13, <1>14, <1>15
    DEF Next, Request

-----------------------------------------------------------------------------
LEMMA Initially == Init => IInv
<1> SUFFICES ASSUME Init PROVE IInv
    OBVIOUS
<1>1. OutboxInv
    BY EventsAreDistinct, LimitIsPositive DEF Init, OutboxInit, OutboxInv, Resting
<1>2. UploadInv
    BY DEF Init, OutboxInit, UploadInv, Steps
<1>3. ObjectsMatchRows
    BY DEF Init, OutboxInit, ObjectsMatchRows
<1> QED BY <1>1, <1>2, <1>3 DEF IInv

(* Each session's lock and each upload's object are those its step implies, *)
(* in every reachable state (outbox/service.py, documents/upload_service.py). *)
THEOREM InductiveInvariant == Spec => []IInv
<1>1. IInv /\ [Next]_vars => IInv'
    BY OutboxStep, UploadStep DEF IInv
<1> QED BY Initially, <1>1, PTL DEF Spec

(* Every reachable state is well-typed: no session holds two locks, and a   *)
(* locked event is pending (outbox/service.py, _publish_locked_event).      *)
THEOREM TypeSafety == Spec => []TypeOK
<1>1. IInv => TypeOK
  <2> SUFFICES ASSUME IInv PROVE TypeOK
      OBVIOUS
  <2>1. \A p \in Documents \cup Batches : Cardinality(Claimed(p)) <= 1
    <3> SUFFICES ASSUME NEW p \in Documents \cup Batches PROVE Cardinality(Claimed(p)) <= 1
        OBVIOUS
    <3>1. \A e, f \in Claimed(p) : e = f
        BY DEF IInv, OutboxInv, Claimed
    <3>2. CASE Claimed(p) = {}
        BY <3>2, FS_EmptySet
    <3>3. ASSUME NEW e \in Claimed(p) PROVE Cardinality(Claimed(p)) <= 1
      <4>1. Claimed(p) = {e}
          BY <3>1, <3>3
      <4>2. Cardinality({e}) = 1
          BY FS_Singleton
      <4> QED BY <4>1, <4>2
    <3> QED BY <3>2, <3>3
  <2> QED BY <2>1 DEF TypeOK, IInv, OutboxInv, UploadInv
<1> QED BY InductiveInvariant, <1>1, PTL

(* Every document row has its object, and an object without a row is an     *)
(* upload's that still runs, died or could not delete it, for any number of *)
(* uploads of the same slug (documents/upload_service.py).                  *)
THEOREM ObjectsAreAccountedFor == Spec => []ObjectsMatchRows
<1>1. IInv => ObjectsMatchRows
    BY DEF IInv
<1> QED BY InductiveInvariant, <1>1, PTL
=============================================================================
