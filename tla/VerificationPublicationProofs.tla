------------------- MODULE VerificationPublicationProofs -------------------
(***************************************************************************)
(* The half of the inductive invariant of VerificationTasks that is about  *)
(* payloads, bundles and their publication.                                *)
(***************************************************************************)
EXTENDS VerificationRowsProofs

\* A durable payload is never changed.
WrittenOnce == \A t \in Tasks : entitlement[t] # 0 => entitlement'[t] = entitlement[t]

\* Both begin_entitlement_publication handlers find a row without a payload.
LEMMA WrittenOnceStep == RowInv /\ [Next]_vars => WrittenOnce
<1> SUFFICES ASSUME RowInv, [Next]_vars PROVE WrittenOnce
  OBVIOUS
<1>a. /\ entitlement \in [Tasks -> Nat]
      /\ \A t \in Tasks : status[t] \in {"pending", "in_progress"} => entitlement[t] = 0
  BY DEF RowInv, TypeOK, RowsSatisfyChecks
<1> USE <1>a DEF taskVars, deletionVars, externalVars, WrittenOnce
<1>1. ASSUME NEW t \in Tasks, drain_begin_entitlement_publication(t)
      PROVE  WrittenOnce
  BY <1>1 DEF drain_begin_entitlement_publication
<1>2. ASSUME NEW w \in Workers, begin_entitlement_publication(w)
      PROVE  WrittenOnce
  BY <1>2 DEF begin_entitlement_publication, OwnsLiveClaim
<1>3. ASSUME NEW t \in Tasks,
             \/ insert_verification_task(t) \/ insert_invoice_pending_task(t)
             \/ DrainPutBundle(t) \/ DrainComplete(t) \/ DrainExpire(t)
             \/ LeaseExpires(t) \/ RetryDue(t) \/ AdmissionDeadlinePasses(t)
      PROVE  WrittenOnce
  <2>1. UNCHANGED entitlement
    BY <1>3 DEF insert_verification_task, insert_invoice_pending_task,
        DrainPutBundle, DrainComplete, DrainExpire, LeaseExpires, RetryDue,
        AdmissionDeadlinePasses
  <2>2. QED
    BY <2>1
<1>4. ASSUME NEW i \in InvoiceWorkers, NEW t \in Tasks,
             claim_next_invoice_admission(i, t)
      PROVE  WrittenOnce
  <2>1. UNCHANGED entitlement
    BY <1>4 DEF claim_next_invoice_admission
  <2>2. QED
    BY <2>1
<1>5. ASSUME NEW w \in Workers, NEW t \in Tasks,
             claim_next_verification_task(w, t)
      PROVE  WrittenOnce
  <2>1. UNCHANGED entitlement
    BY <1>5 DEF claim_next_verification_task
  <2>2. QED
    BY <2>1
<1>6. ASSUME NEW i \in InvoiceWorkers,
             \/ create_invoice(i) \/ mark_invoice_admission_ready(i)
             \/ schedule_invoice_admission_retry(i) \/ mark_invoice_admission_failed(i)
             \/ AdmitterStops(i)
      PROVE  WrittenOnce
  <2>1. UNCHANGED entitlement
    BY <1>6 DEF create_invoice, mark_invoice_admission_ready,
        schedule_invoice_admission_retry, mark_invoice_admission_failed,
        AdmitterStops
  <2>2. QED
    BY <2>1
<1>7. ASSUME NEW w \in Workers,
             \/ Verify(w) \/ schedule_verification_task_retry(w)
             \/ PersistUnsatisfied(w) \/ ProbeBundle(w) \/ PutBundle(w)
             \/ ReadBackBundle(w) \/ complete_entitlement_publication(w)
             \/ WorkerStops(w)
      PROVE  WrittenOnce
  <2>1. UNCHANGED entitlement
    BY <1>7 DEF Verify, schedule_verification_task_retry, PersistUnsatisfied,
        ProbeBundle, PutBundle, ReadBackBundle,
        complete_entitlement_publication, WorkerStops
  <2>2. QED
    BY <2>1
<1>8. ASSUME \/ insert_job \/ prepare_force_deletion \/ withdraw_content_lock
             \/ expire_unresolved_non_paykit_tasks \/ complete_force_deletion
             \/ UNCHANGED vars
      PROVE  WrittenOnce
  <2>1. UNCHANGED entitlement
    BY Zenon, <1>8 DEF insert_job, prepare_force_deletion, withdraw_content_lock,
        expire_unresolved_non_paykit_tasks, complete_force_deletion, vars
  <2>2. QED
    BY <2>1
<1>9. QED
  BY <1>1, <1>2, <1>3, <1>4, <1>5, <1>6, <1>7, <1>8 DEF Next, TaskStep,
      WorkerStep, AdmitterStep

\* The durable payload is written once, so every later publisher carries it.
LEMMA PayloadStep ==
    RowInv /\ PublishersCarryPayload /\ [Next]_vars => PublishersCarryPayload'
<1> SUFFICES ASSUME RowInv, PublishersCarryPayload, [Next]_vars PROVE PublishersCarryPayload'
  OBVIOUS
<1>1. WrittenOnce /\ WorkerEffect
  BY WrittenOnceStep, EffectStep DEF RowInv
<1>2. /\ WorkersOnTasks /\ PublishersCarryPayload
      /\ entitlement \in [Tasks -> Nat]
      /\ \A t \in Tasks : status[t] = "publishing_entitlement" => entitlement[t] # 0
  BY DEF RowInv, TypeOK, RowsSatisfyChecks
<1>3. \A w \in Workers : worker[w].step \in PublishSteps =>
          worker[w].task \in Tasks /\ entitlement'[worker[w].task] = entitlement[worker[w].task]
  BY <1>1, <1>2 DEF WrittenOnce, WorkersOnTasks, PublishersCarryPayload, PublishSteps
<1> USE <1>2, <1>3 DEF PublishersCarryPayload
<1>4. CASE worker' = worker
  BY <1>4
<1>5. ASSUME NEW w \in Workers, Dropped(w) PROVE PublishersCarryPayload'
  BY <1>5 DEF Dropped, PublishSteps
<1>6. ASSUME NEW w \in Workers, Moved(w, DecideSteps) PROVE PublishersCarryPayload'
  BY <1>6 DEF Moved, DecideSteps, PublishSteps
<1>7. ASSUME NEW w \in Workers, worker[w].step \in PublishSteps, Moved(w, PublishSteps)
      PROVE  PublishersCarryPayload'
  BY <1>7 DEF Moved
<1>8. ASSUME NEW w \in Workers, worker[w].step = "begin", Began(w),
             entitlement' = [entitlement EXCEPT ![worker[w].task] = worker[w].token]
      PROVE  PublishersCarryPayload'
  BY <1>8 DEF Began, WorkersOnTasks
<1>9. ASSUME NEW w \in Workers, NEW t \in Tasks, Took(w, t), entitlement' = entitlement
      PROVE  PublishersCarryPayload'
  BY <1>9 DEF Took, PublishSteps
<1>10. QED
  BY <1>1, <1>4, <1>5, <1>6, <1>7, <1>8, <1>9 DEF WorkerEffect

\* Only the durable payload reaches the homeserver, and completion follows it.
LEMMA BundlesStep ==
    RowInv /\ PublicationInv /\ [Next]_vars => (BundlesArePayloads /\ CompletedIsPublished)'
<1> SUFFICES ASSUME RowInv, PublicationInv, [Next]_vars PROVE (BundlesArePayloads /\ CompletedIsPublished)'
  OBVIOUS
<1>a. /\ status \in [Tasks -> Status]
      /\ entitlement \in [Tasks -> Nat] /\ bundles \in [Tasks -> Nat]
      /\ \A t \in Tasks : entitlement[t] # 0 <=> status[t] \in {"publishing_entitlement", "completed"}
      /\ BundlesArePayloads /\ CompletedIsPublished
      /\ \A w \in Workers : worker[w].step \in {"put", "complete"} =>
            /\ worker[w].task \in Tasks
            /\ worker[w].payload # 0 /\ worker[w].payload = entitlement[worker[w].task]
      /\ \A w \in Workers : worker[w].step = "complete" => bundles[worker[w].task] = worker[w].payload
  BY DEF RowInv, PublicationInv, TypeOK, RowsSatisfyChecks, WorkersOnTasks,
      PublishersCarryPayload, ReadBackMatched, PublishSteps
<1> USE <1>a DEF taskVars, deletionVars, externalVars, BundlesArePayloads,
      CompletedIsPublished
<1>1. ASSUME NEW t \in Tasks, insert_verification_task(t)
      PROVE  (BundlesArePayloads /\ CompletedIsPublished)'
  BY <1>1 DEF insert_verification_task
<1>2. ASSUME NEW t \in Tasks, insert_invoice_pending_task(t)
      PROVE  (BundlesArePayloads /\ CompletedIsPublished)'
  BY <1>2 DEF insert_invoice_pending_task
<1>3. ASSUME NEW w \in Workers, NEW t \in Tasks, claim_next_verification_task(w, t)
      PROVE  (BundlesArePayloads /\ CompletedIsPublished)'
  BY <1>3 DEF claim_next_verification_task, TakeClaim, Claimable, StartClaimed
<1>4. ASSUME NEW t \in Tasks, drain_begin_entitlement_publication(t)
      PROVE  (BundlesArePayloads /\ CompletedIsPublished)'
  BY <1>4 DEF drain_begin_entitlement_publication
<1>5. ASSUME NEW t \in Tasks, DrainPutBundle(t)
      PROVE  (BundlesArePayloads /\ CompletedIsPublished)'
  BY <1>5 DEF DrainPutBundle
<1>6. ASSUME NEW t \in Tasks, DrainComplete(t)
      PROVE  (BundlesArePayloads /\ CompletedIsPublished)'
  BY <1>6 DEF DrainComplete
<1>7. ASSUME NEW t \in Tasks, DrainExpire(t)
      PROVE  (BundlesArePayloads /\ CompletedIsPublished)'
  BY <1>7 DEF DrainExpire
<1>8. ASSUME NEW i \in InvoiceWorkers, mark_invoice_admission_failed(i)
      PROVE  (BundlesArePayloads /\ CompletedIsPublished)'
  BY <1>8 DEF mark_invoice_admission_failed, OwnsLiveClaim, ClearClaim
<1>9. ASSUME NEW w \in Workers, schedule_verification_task_retry(w)
      PROVE  (BundlesArePayloads /\ CompletedIsPublished)'
  BY <1>9 DEF schedule_verification_task_retry, OwnsLiveClaim, ClearClaim
<1>10. ASSUME NEW w \in Workers, PersistUnsatisfied(w)
      PROVE  (BundlesArePayloads /\ CompletedIsPublished)'
  BY <1>10 DEF PersistUnsatisfied, OwnsLiveClaim, ClearClaim
<1>11. ASSUME NEW w \in Workers, begin_entitlement_publication(w)
      PROVE  (BundlesArePayloads /\ CompletedIsPublished)'
  BY <1>11 DEF begin_entitlement_publication, OwnsLiveClaim
<1>12. ASSUME NEW w \in Workers, PutBundle(w)
      PROVE  (BundlesArePayloads /\ CompletedIsPublished)'
  BY <1>12 DEF PutBundle
<1>13. ASSUME NEW w \in Workers, complete_entitlement_publication(w)
      PROVE  (BundlesArePayloads /\ CompletedIsPublished)'
  BY <1>13 DEF complete_entitlement_publication, OwnsLiveClaim, ClearClaim
<1>14. ASSUME insert_job PROVE (BundlesArePayloads /\ CompletedIsPublished)'
  BY <1>14 DEF insert_job, Submitted
<1>15. ASSUME expire_unresolved_non_paykit_tasks PROVE (BundlesArePayloads /\ CompletedIsPublished)'
  BY <1>15 DEF expire_unresolved_non_paykit_tasks
<1>16. ASSUME NEW t \in Tasks,
             \/ LeaseExpires(t) \/ RetryDue(t) \/ AdmissionDeadlinePasses(t)
      PROVE  (BundlesArePayloads /\ CompletedIsPublished)'
  <2>1. UNCHANGED <<status, entitlement, bundles>>
    BY <1>16 DEF LeaseExpires, RetryDue, AdmissionDeadlinePasses
  <2>2. QED
    BY <2>1
<1>17. ASSUME NEW i \in InvoiceWorkers, NEW t \in Tasks,
             claim_next_invoice_admission(i, t)
      PROVE  (BundlesArePayloads /\ CompletedIsPublished)'
  <2>1. UNCHANGED <<status, entitlement, bundles>>
    BY <1>17 DEF claim_next_invoice_admission
  <2>2. QED
    BY <2>1
<1>18. ASSUME NEW i \in InvoiceWorkers,
             \/ create_invoice(i) \/ mark_invoice_admission_ready(i)
             \/ schedule_invoice_admission_retry(i) \/ AdmitterStops(i)
      PROVE  (BundlesArePayloads /\ CompletedIsPublished)'
  <2>1. UNCHANGED <<status, entitlement, bundles>>
    BY <1>18 DEF create_invoice, mark_invoice_admission_ready,
        schedule_invoice_admission_retry, AdmitterStops
  <2>2. QED
    BY <2>1
<1>19. ASSUME NEW w \in Workers,
             \/ Verify(w) \/ ProbeBundle(w) \/ ReadBackBundle(w) \/ WorkerStops(w)
      PROVE  (BundlesArePayloads /\ CompletedIsPublished)'
  <2>1. UNCHANGED <<status, entitlement, bundles>>
    BY <1>19 DEF Verify, ProbeBundle, ReadBackBundle, WorkerStops
  <2>2. QED
    BY <2>1
<1>20. ASSUME \/ prepare_force_deletion \/ withdraw_content_lock
             \/ complete_force_deletion \/ UNCHANGED vars
      PROVE  (BundlesArePayloads /\ CompletedIsPublished)'
  <2>1. UNCHANGED <<status, entitlement, bundles>>
    BY <1>20 DEF prepare_force_deletion, withdraw_content_lock,
        complete_force_deletion, vars
  <2>2. QED
    BY <2>1
<1>21. QED
  BY <1>1, <1>2, <1>3, <1>4, <1>5, <1>6, <1>7, <1>8, <1>9, <1>10, <1>11,
      <1>12, <1>13, <1>14, <1>15, <1>16, <1>17, <1>18, <1>19, <1>20 DEF Next,
      TaskStep, WorkerStep, AdmitterStep

\* A stored bundle is not removed.
BundlesStay == \A t \in Tasks : bundles[t] # 0 => bundles'[t] # 0

\* A PUT replaces a bundle by a payload.
LEMMA BundlesStayStep == RowInv /\ PublicationInv /\ [Next]_vars => BundlesStay
<1> SUFFICES ASSUME RowInv, PublicationInv, [Next]_vars PROVE BundlesStay
  OBVIOUS
<1>a. /\ bundles \in [Tasks -> Nat]
      /\ \A w \in Workers : worker[w].step = "put" => worker[w].payload # 0
  BY DEF RowInv, PublicationInv, TypeOK, PublishersCarryPayload, PublishSteps
<1> USE <1>a DEF taskVars, deletionVars, externalVars, BundlesStay
<1>1. ASSUME NEW t \in Tasks, DrainPutBundle(t)
      PROVE  BundlesStay
  BY <1>1 DEF DrainPutBundle
<1>2. ASSUME NEW w \in Workers, PutBundle(w)
      PROVE  BundlesStay
  BY <1>2 DEF PutBundle
<1>3. ASSUME NEW t \in Tasks,
             \/ insert_verification_task(t) \/ insert_invoice_pending_task(t)
             \/ drain_begin_entitlement_publication(t) \/ DrainComplete(t)
             \/ DrainExpire(t) \/ LeaseExpires(t) \/ RetryDue(t)
             \/ AdmissionDeadlinePasses(t)
      PROVE  BundlesStay
  <2>1. UNCHANGED bundles
    BY <1>3 DEF insert_verification_task, insert_invoice_pending_task,
        drain_begin_entitlement_publication, DrainComplete, DrainExpire,
        LeaseExpires, RetryDue, AdmissionDeadlinePasses
  <2>2. QED
    BY <2>1
<1>4. ASSUME NEW i \in InvoiceWorkers, NEW t \in Tasks,
             claim_next_invoice_admission(i, t)
      PROVE  BundlesStay
  <2>1. UNCHANGED bundles
    BY <1>4 DEF claim_next_invoice_admission
  <2>2. QED
    BY <2>1
<1>5. ASSUME NEW w \in Workers, NEW t \in Tasks,
             claim_next_verification_task(w, t)
      PROVE  BundlesStay
  <2>1. UNCHANGED bundles
    BY <1>5 DEF claim_next_verification_task
  <2>2. QED
    BY <2>1
<1>6. ASSUME NEW i \in InvoiceWorkers,
             \/ create_invoice(i) \/ mark_invoice_admission_ready(i)
             \/ schedule_invoice_admission_retry(i) \/ mark_invoice_admission_failed(i)
             \/ AdmitterStops(i)
      PROVE  BundlesStay
  <2>1. UNCHANGED bundles
    BY <1>6 DEF create_invoice, mark_invoice_admission_ready,
        schedule_invoice_admission_retry, mark_invoice_admission_failed,
        AdmitterStops
  <2>2. QED
    BY <2>1
<1>7. ASSUME NEW w \in Workers,
             \/ Verify(w) \/ schedule_verification_task_retry(w)
             \/ PersistUnsatisfied(w) \/ begin_entitlement_publication(w)
             \/ ProbeBundle(w) \/ ReadBackBundle(w)
             \/ complete_entitlement_publication(w) \/ WorkerStops(w)
      PROVE  BundlesStay
  <2>1. UNCHANGED bundles
    BY <1>7 DEF Verify, schedule_verification_task_retry, PersistUnsatisfied,
        begin_entitlement_publication, ProbeBundle, ReadBackBundle,
        complete_entitlement_publication, WorkerStops
  <2>2. QED
    BY <2>1
<1>8. ASSUME \/ insert_job \/ prepare_force_deletion \/ withdraw_content_lock
             \/ expire_unresolved_non_paykit_tasks \/ complete_force_deletion
             \/ UNCHANGED vars
      PROVE  BundlesStay
  <2>1. UNCHANGED bundles
    BY Zenon, <1>8 DEF insert_job, prepare_force_deletion, withdraw_content_lock,
        expire_unresolved_non_paykit_tasks, complete_force_deletion, vars
  <2>2. QED
    BY <2>1
<1>9. QED
  BY <1>1, <1>2, <1>3, <1>4, <1>5, <1>6, <1>7, <1>8 DEF Next, TaskStep,
      WorkerStep, AdmitterStep

\* What a worker read back stays on the homeserver.
LEMMA ReadBackStep == RowInv /\ PublicationInv /\ [Next]_vars => ReadBackMatched'
<1> SUFFICES ASSUME RowInv, PublicationInv, [Next]_vars PROVE ReadBackMatched'
  OBVIOUS
<1>1. WrittenOnce /\ WorkerEffect
  BY WrittenOnceStep, EffectStep DEF RowInv
<1>2. BundlesStay /\ BundlesArePayloads'
  BY BundlesStayStep, BundlesStep DEF RowInv, PublicationInv
<1>3. ASSUME NEW t \in Tasks, entitlement[t] # 0, bundles[t] = entitlement[t]
      PROVE  bundles'[t] = entitlement[t]
  BY <1>1, <1>2, <1>3 DEF WrittenOnce, BundlesStay, BundlesArePayloads
<1>4. ASSUME NEW w \in Workers, worker[w].step \in PublishSteps,
             bundles[worker[w].task] = worker[w].payload
      PROVE  bundles'[worker[w].task] = worker[w].payload
  BY <1>3, <1>4 DEF RowInv, PublicationInv, PublishersCarryPayload, WorkersOnTasks, PublishSteps
<1>5. \A w \in Workers : worker[w].step = "complete" =>
          bundles'[worker[w].task] = worker[w].payload
  BY <1>4 DEF PublicationInv, ReadBackMatched, PublishSteps
<1> USE <1>5 DEF ReadBackMatched
<1>6. CASE worker' = worker
  BY <1>6
<1>7. ASSUME NEW w \in Workers, Dropped(w) PROVE ReadBackMatched'
  BY <1>7 DEF Dropped
<1>8. ASSUME NEW w \in Workers, Moved(w, DecideSteps) PROVE ReadBackMatched'
  BY <1>8 DEF Moved, DecideSteps
<1>9. ASSUME NEW w \in Workers, worker[w].step \in PublishSteps, Moved(w, PublishSteps),
             worker'[w].step = "complete" => bundles[worker[w].task] # 0
      PROVE  ReadBackMatched'
  \* The only bundle a task can have is the payload its publisher carries.
  <2>1. bundles[worker[w].task] # 0 => bundles[worker[w].task] = worker[w].payload
    BY <1>9 DEF RowInv, PublicationInv, PublishersCarryPayload, BundlesArePayloads,
        WorkersOnTasks, PublishSteps
  <2>2. QED
    BY <1>4, <1>9, <2>1 DEF Moved
<1>10. ASSUME NEW w \in Workers, Began(w) PROVE ReadBackMatched'
  BY <1>10 DEF Began
<1>11. ASSUME NEW w \in Workers, NEW t \in Tasks, Took(w, t) PROVE ReadBackMatched'
  BY <1>11 DEF Took
<1>12. QED
  BY <1>1, <1>6, <1>7, <1>8, <1>9, <1>10, <1>11 DEF WorkerEffect

=============================================================================
