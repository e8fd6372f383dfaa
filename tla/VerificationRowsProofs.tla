----------------------- MODULE VerificationRowsProofs -----------------------
(***************************************************************************)
(* The inductive invariant of VerificationTasks, what a step does to the   *)
(* workers, and the half of the invariant that is about rows and workers.  *)
(***************************************************************************)
EXTENDS VerificationTypesProofs

\* A busy worker holds a task that was admitted, and stays admitted.
WorkersOnTasks ==
    \A w \in Workers : worker[w].step # "idle" =>
        /\ worker[w].task \in Tasks
        /\ worker[w].token # 0
        /\ status[worker[w].task] # "absent"
        /\ phase[worker[w].task] = "ready"

IdleWorkers ==
    \A w \in Workers : worker[w].step = "idle" => worker[w].token = 0

AdmittersOnTasks ==
    \A i \in InvoiceWorkers : admitter[i].step # "idle" => admitter[i].task \in Tasks

\* A row the cutoff attached has no claim of a verification worker.
AttachedRows ==
    \A t \in Tasks :
        /\ attached[t] => status[t] \notin {"absent", "in_progress"}
        /\ attached[t] /\ phase[t] # "invoice_pending" => lease[t] = "none"
        /\ t \notin PaykitTasks => phase[t] = "ready"

\* What a publishing worker carries is what the row made durable.
PublishersCarryPayload ==
    \A w \in Workers : worker[w].step \in PublishSteps =>
        /\ worker[w].payload # 0
        /\ worker[w].payload = entitlement[worker[w].task]

BundlesArePayloads == \A t \in Tasks : bundles[t] # 0 => bundles[t] = entitlement[t]

ReadBackMatched ==
    \A w \in Workers : worker[w].step = "complete" =>
        bundles[worker[w].task] = worker[w].payload

\* Tokens are handed out in increasing order.
TokensBounded ==
    /\ \A t \in Tasks : claimToken[t] <= lastToken
    /\ \A w \in Workers : worker[w].token <= lastToken

TokensUnique ==
    \A v, w \in Workers :
        v # w /\ worker[v].step # "idle" => worker[v].token # worker[w].token

\* An admitted task has its invoice, and so does one about to be admitted.
InvoiceHeld ==
    /\ \A t \in PaykitTasks : phase[t] = "ready" /\ status[t] # "absent" => invoices[t]
    /\ \A i \in InvoiceWorkers : admitter[i].step = "ready" => invoices[admitter[i].task]

RowInv == TypeOK /\ RowsSatisfyChecks /\ WorkersOnTasks /\ IdleWorkers
          /\ AdmittersOnTasks /\ AttachedRows

PublicationInv ==
    PublishersCarryPayload /\ BundlesArePayloads /\ ReadBackMatched /\ CompletedIsPublished

ClaimInv == TokensBounded /\ TokensUnique /\ LiveClaimIsExclusive

IInv == RowInv /\ PublicationInv /\ ClaimInv /\ InvoiceHeld

-----------------------------------------------------------------------------
(***************************************************************************)
(* What a step does to the workers, field by field.                        *)
(***************************************************************************)
\* w goes on with its claim in one of the steps S.
Moved(w, S) ==
    /\ worker'[w].step \in S
    /\ worker'[w].task = worker[w].task
    /\ worker'[w].token = worker[w].token
    /\ worker'[w].payload = worker[w].payload
    /\ \A v \in Workers \ {w} : worker'[v] = worker[v]

\* w lets its claim go.
Dropped(w) ==
    /\ worker'[w].step = "idle"
    /\ worker'[w].token = 0
    /\ \A v \in Workers \ {w} : worker'[v] = worker[v]

\* w has claimed t with a new token.
Took(w, t) ==
    /\ worker[w].step = "idle"
    /\ worker'[w].step = IF status[t] = "publishing_entitlement" THEN "probe" ELSE "evaluate"
    /\ worker'[w].task = t
    /\ worker'[w].token = lastToken + 1
    /\ worker'[w].payload = entitlement[t]
    /\ \A v \in Workers \ {w} : worker'[v] = worker[v]

\* w has made its payload durable.
Began(w) ==
    /\ worker'[w].step = "probe"
    /\ worker'[w].task = worker[w].task
    /\ worker'[w].token = worker[w].token
    /\ worker'[w].payload = worker[w].token
    /\ \A v \in Workers \ {w} : worker'[v] = worker[v]

LEMMA ClaimMoves ==
    ASSUME TypeOK, NEW w \in Workers, NEW t \in Tasks, claim_next_verification_task(w, t)
    PROVE  Took(w, t)
BY DEF TypeOK, claim_next_verification_task, StartClaimed, Took

LEMMA StepMoves ==
    ASSUME TypeOK, NEW w \in Workers, NEW S, NEW s \in S,
           worker' = [worker EXCEPT ![w].step = s]
    PROVE  Moved(w, S)
BY DEF TypeOK, WorkerState, Moved

LEMMA IdleMoves ==
    ASSUME TypeOK, NEW w \in Workers, worker' = [worker EXCEPT ![w] = Idle]
    PROVE  Dropped(w)
BY DEF TypeOK, Idle, Dropped

LEMMA VerifyMoves ==
    ASSUME TypeOK, NEW w \in Workers, Verify(w)
    PROVE  worker[w].step = "evaluate" /\ Moved(w, DecideSteps)
<1>1. PICK s \in DecideSteps : worker' = [worker EXCEPT ![w].step = s]
  BY DEF Verify, DecideSteps
<1>2. QED
  BY Zenon, <1>1, StepMoves DEF Verify

LEMMA ProbeMoves ==
    ASSUME TypeOK, NEW w \in Workers, ProbeBundle(w)
    PROVE  worker[w].step = "probe" /\ Moved(w, {"put", "read_back"})
<1>1. PICK s \in {"put", "read_back"} : worker' = [worker EXCEPT ![w].step = s]
  BY DEF ProbeBundle
<1>2. QED
  BY Zenon, <1>1, StepMoves DEF ProbeBundle

LEMMA PutMoves ==
    ASSUME TypeOK, NEW w \in Workers, PutBundle(w)
    PROVE  worker[w].step = "put" /\ Moved(w, {"read_back"})
BY Zenon, StepMoves DEF PutBundle

LEMMA ReadBackMoves ==
    ASSUME TypeOK, NEW w \in Workers, ReadBackBundle(w)
    PROVE  /\ worker[w].step = "read_back"
           /\ \/ Dropped(w)
              \/ Moved(w, {"complete"}) /\ bundles[worker[w].task] # 0
<1> DEFINE same == same_entitlement_decision(bundles[worker[w].task], worker[w].payload)
<1>1. CASE same
  BY <1>1 DEF ReadBackBundle, TypeOK, WorkerState, Moved, same_entitlement_decision
<1>2. CASE ~same
  BY Zenon, <1>2, IdleMoves DEF ReadBackBundle
<1>3. QED
  BY <1>1, <1>2

LEMMA BeginMoves ==
    ASSUME TypeOK, NEW w \in Workers, begin_entitlement_publication(w)
    PROVE  /\ worker[w].step = "begin"
           /\ \/ Dropped(w) /\ UNCHANGED <<status, entitlement>>
              \/ /\ Began(w)
                 /\ status[worker[w].task] = "in_progress"
                 /\ status' = [status EXCEPT ![worker[w].task] = "publishing_entitlement"]
                 /\ entitlement' = [entitlement EXCEPT ![worker[w].task] = worker[w].token]
<1> DEFINE t == worker[w].task
           owned == status[t] = "in_progress" /\ OwnsLiveClaim(t, worker[w].token) /\ ~attached[t]
<1>1. CASE owned
  BY <1>1 DEF begin_entitlement_publication, TypeOK, Began
<1>2. CASE ~owned
  BY <1>2, IdleMoves DEF begin_entitlement_publication
<1>3. QED
  BY <1>1, <1>2 DEF begin_entitlement_publication

\* Whatever happens, at most one worker changes, and in one of these ways.
WorkerEffect ==
    \/ worker' = worker
    \/ \E w \in Workers : Dropped(w)
    \/ \E w \in Workers : worker[w].step # "idle" /\ Moved(w, DecideSteps)
    \/ \E w \in Workers :
          /\ worker[w].step \in PublishSteps
          /\ Moved(w, PublishSteps)
          /\ worker'[w].step = "complete" => bundles[worker[w].task] # 0
    \/ \E w \in Workers :
          /\ worker[w].step = "begin" /\ Began(w)
          /\ entitlement' = [entitlement EXCEPT ![worker[w].task] = worker[w].token]
    \/ \E w \in Workers, t \in Tasks :
          Took(w, t) /\ Claimable(t) /\ lastToken' = lastToken + 1 /\ entitlement' = entitlement

LEMMA EffectStep == TypeOK /\ [Next]_vars => WorkerEffect
<1> SUFFICES ASSUME TypeOK, [Next]_vars PROVE WorkerEffect
  OBVIOUS
<1>1. ASSUME NEW w \in Workers, NEW t \in Tasks, claim_next_verification_task(w, t)
      PROVE  WorkerEffect
  BY Zenon, <1>1, ClaimMoves DEF WorkerEffect, claim_next_verification_task, TakeClaim
<1>2. ASSUME NEW w \in Workers, Verify(w) PROVE WorkerEffect
  BY <1>2, VerifyMoves DEF WorkerEffect
<1>3. ASSUME NEW w \in Workers,
             \/ schedule_verification_task_retry(w) \/ PersistUnsatisfied(w)
             \/ complete_entitlement_publication(w) \/ WorkerStops(w)
      PROVE  WorkerEffect
  <2>1. worker' = [worker EXCEPT ![w] = Idle]
    BY <1>3 DEF schedule_verification_task_retry, PersistUnsatisfied,
        complete_entitlement_publication, WorkerStops
  <2>2. QED
    BY Zenon, <2>1, IdleMoves DEF WorkerEffect
<1>4. ASSUME NEW w \in Workers, begin_entitlement_publication(w) PROVE WorkerEffect
  BY <1>4, BeginMoves DEF WorkerEffect
<1>5. ASSUME NEW w \in Workers, ProbeBundle(w) PROVE WorkerEffect
  BY <1>5, ProbeMoves DEF WorkerEffect, Moved, PublishSteps
<1>6. ASSUME NEW w \in Workers, PutBundle(w) PROVE WorkerEffect
  BY <1>6, PutMoves DEF WorkerEffect, Moved, PublishSteps
<1>7. ASSUME NEW w \in Workers, ReadBackBundle(w) PROVE WorkerEffect
  BY <1>7, ReadBackMoves DEF WorkerEffect, Moved, PublishSteps
<1>8. ASSUME NEW i \in InvoiceWorkers, AdmitterStep(i) \/ AdmitterStops(i) PROVE WorkerEffect
  BY <1>8 DEF WorkerEffect, AdmitterStep, create_invoice, mark_invoice_admission_ready,
      schedule_invoice_admission_retry, mark_invoice_admission_failed, AdmitterStops
<1>9. ASSUME NEW t \in Tasks, TaskStep(t) PROVE WorkerEffect
  BY <1>1, <1>9 DEF TaskStep, WorkerEffect, insert_verification_task,
      insert_invoice_pending_task, claim_next_invoice_admission,
      drain_begin_entitlement_publication, DrainPutBundle, DrainComplete, DrainExpire,
      LeaseExpires, RetryDue, AdmissionDeadlinePasses
<1>10. CASE \/ insert_job \/ prepare_force_deletion \/ withdraw_content_lock
            \/ expire_unresolved_non_paykit_tasks \/ complete_force_deletion \/ UNCHANGED vars
  BY Zenon, <1>10 DEF WorkerEffect, insert_job, prepare_force_deletion, withdraw_content_lock,
      expire_unresolved_non_paykit_tasks, complete_force_deletion, vars
<1>11. QED
  BY <1>2, <1>3, <1>4, <1>5, <1>6, <1>7, <1>8, <1>9, <1>10 DEF Next, WorkerStep

-----------------------------------------------------------------------------
\* No step takes an outcome or a publication back.
LEMMA OutcomeStep == TypeOK /\ [Next]_vars => OutcomeStands
<1> SUFFICES ASSUME TypeOK, [Next]_vars PROVE OutcomeStands
  OBVIOUS
<1>a. /\ status \in [Tasks -> Status]
  BY DEF TypeOK
<1> USE <1>a DEF taskVars, deletionVars, externalVars, OutcomeStands, Terminal
<1>1. ASSUME NEW t \in Tasks, insert_verification_task(t)
      PROVE  OutcomeStands
  BY <1>1 DEF insert_verification_task
<1>2. ASSUME NEW t \in Tasks, insert_invoice_pending_task(t)
      PROVE  OutcomeStands
  BY <1>2 DEF insert_invoice_pending_task
<1>3. ASSUME NEW w \in Workers, NEW t \in Tasks, claim_next_verification_task(w, t)
      PROVE  OutcomeStands
  BY <1>3 DEF claim_next_verification_task, TakeClaim, Claimable, StartClaimed
<1>4. ASSUME NEW t \in Tasks, drain_begin_entitlement_publication(t)
      PROVE  OutcomeStands
  BY <1>4 DEF drain_begin_entitlement_publication
<1>5. ASSUME NEW t \in Tasks, DrainComplete(t)
      PROVE  OutcomeStands
  BY <1>5 DEF DrainComplete
<1>6. ASSUME NEW t \in Tasks, DrainExpire(t)
      PROVE  OutcomeStands
  BY <1>6 DEF DrainExpire
<1>7. ASSUME NEW i \in InvoiceWorkers, mark_invoice_admission_failed(i)
      PROVE  OutcomeStands
  BY <1>7 DEF mark_invoice_admission_failed, OwnsLiveClaim, ClearClaim
<1>8. ASSUME NEW w \in Workers, schedule_verification_task_retry(w)
      PROVE  OutcomeStands
  BY <1>8 DEF schedule_verification_task_retry, OwnsLiveClaim, ClearClaim
<1>9. ASSUME NEW w \in Workers, PersistUnsatisfied(w)
      PROVE  OutcomeStands
  BY <1>9 DEF PersistUnsatisfied, OwnsLiveClaim, ClearClaim
<1>10. ASSUME NEW w \in Workers, begin_entitlement_publication(w)
      PROVE  OutcomeStands
  BY <1>10 DEF begin_entitlement_publication, OwnsLiveClaim
<1>11. ASSUME NEW w \in Workers, complete_entitlement_publication(w)
      PROVE  OutcomeStands
  BY <1>11 DEF complete_entitlement_publication, OwnsLiveClaim, ClearClaim
<1>12. ASSUME insert_job PROVE OutcomeStands
  BY <1>12 DEF insert_job, Submitted
<1>13. ASSUME expire_unresolved_non_paykit_tasks PROVE OutcomeStands
  BY <1>13 DEF expire_unresolved_non_paykit_tasks
<1>14. ASSUME NEW t \in Tasks,
             \/ DrainPutBundle(t) \/ LeaseExpires(t) \/ RetryDue(t)
             \/ AdmissionDeadlinePasses(t)
      PROVE  OutcomeStands
  <2>1. UNCHANGED status
    BY <1>14 DEF DrainPutBundle, LeaseExpires, RetryDue,
        AdmissionDeadlinePasses
  <2>2. QED
    BY <2>1
<1>15. ASSUME NEW i \in InvoiceWorkers, NEW t \in Tasks,
             claim_next_invoice_admission(i, t)
      PROVE  OutcomeStands
  <2>1. UNCHANGED status
    BY <1>15 DEF claim_next_invoice_admission
  <2>2. QED
    BY <2>1
<1>16. ASSUME NEW i \in InvoiceWorkers,
             \/ create_invoice(i) \/ mark_invoice_admission_ready(i)
             \/ schedule_invoice_admission_retry(i) \/ AdmitterStops(i)
      PROVE  OutcomeStands
  <2>1. UNCHANGED status
    BY <1>16 DEF create_invoice, mark_invoice_admission_ready,
        schedule_invoice_admission_retry, AdmitterStops
  <2>2. QED
    BY <2>1
<1>17. ASSUME NEW w \in Workers,
             \/ Verify(w) \/ ProbeBundle(w) \/ PutBundle(w) \/ ReadBackBundle(w)
             \/ WorkerStops(w)
      PROVE  OutcomeStands
  <2>1. UNCHANGED status
    BY <1>17 DEF Verify, ProbeBundle, PutBundle, ReadBackBundle, WorkerStops
  <2>2. QED
    BY <2>1
<1>18. ASSUME \/ prepare_force_deletion \/ withdraw_content_lock
             \/ complete_force_deletion \/ UNCHANGED vars
      PROVE  OutcomeStands
  <2>1. UNCHANGED status
    BY <1>18 DEF prepare_force_deletion, withdraw_content_lock,
        complete_force_deletion, vars
  <2>2. QED
    BY <2>1
<1>19. QED
  BY <1>1, <1>2, <1>3, <1>4, <1>5, <1>6, <1>7, <1>8, <1>9, <1>10, <1>11,
      <1>12, <1>13, <1>14, <1>15, <1>16, <1>17, <1>18 DEF Next, TaskStep,
      WorkerStep, AdmitterStep

\* Every row an action writes passes the CHECK constraints.
LEMMA RowsStep == RowInv /\ [Next]_vars => RowsSatisfyChecks'
<1> SUFFICES ASSUME RowInv, [Next]_vars PROVE RowsSatisfyChecks'
  OBVIOUS
<1>a. /\ status \in [Tasks -> Status] /\ lastToken \in Nat
      /\ claimToken \in [Tasks -> Nat] /\ entitlement \in [Tasks -> Nat]
      /\ phase \in [Tasks -> {"invoice_pending", "ready", "failed"}]
      /\ lease \in [Tasks -> {"none", "live", "expired"}]
      /\ startedAt \in [Tasks -> {"null", "set"}]
      /\ RowsSatisfyChecks /\ AttachedRows
      /\ \A w \in Workers : worker[w].step # "idle" => worker[w].token # 0
  BY DEF RowInv, TypeOK, WorkersOnTasks
<1> USE <1>a DEF taskVars, deletionVars, externalVars, RowsSatisfyChecks,
      AttachedRows, Terminal
<1>1. ASSUME NEW t \in Tasks, insert_verification_task(t)
      PROVE  RowsSatisfyChecks'
  BY <1>1 DEF insert_verification_task
<1>2. ASSUME NEW t \in Tasks, insert_invoice_pending_task(t)
      PROVE  RowsSatisfyChecks'
  BY <1>2 DEF insert_invoice_pending_task
<1>3. ASSUME NEW i \in InvoiceWorkers, NEW t \in Tasks, claim_next_invoice_admission(i, t)
      PROVE  RowsSatisfyChecks'
  BY <1>3 DEF claim_next_invoice_admission, TakeClaim
<1>4. ASSUME NEW w \in Workers, NEW t \in Tasks, claim_next_verification_task(w, t)
      PROVE  RowsSatisfyChecks'
  BY <1>4 DEF claim_next_verification_task, TakeClaim, Claimable, StartClaimed
<1>5. ASSUME NEW t \in Tasks, drain_begin_entitlement_publication(t)
      PROVE  RowsSatisfyChecks'
  BY <1>5 DEF drain_begin_entitlement_publication
<1>6. ASSUME NEW t \in Tasks, DrainComplete(t)
      PROVE  RowsSatisfyChecks'
  BY <1>6 DEF DrainComplete
<1>7. ASSUME NEW t \in Tasks, DrainExpire(t)
      PROVE  RowsSatisfyChecks'
  BY <1>7 DEF DrainExpire
<1>8. ASSUME NEW t \in Tasks, LeaseExpires(t)
      PROVE  RowsSatisfyChecks'
  BY <1>8 DEF LeaseExpires
<1>9. ASSUME NEW i \in InvoiceWorkers, mark_invoice_admission_ready(i)
      PROVE  RowsSatisfyChecks'
  BY <1>9 DEF mark_invoice_admission_ready, OwnsLiveClaim, ClearClaim
<1>10. ASSUME NEW i \in InvoiceWorkers, schedule_invoice_admission_retry(i)
      PROVE  RowsSatisfyChecks'
  BY <1>10 DEF schedule_invoice_admission_retry, OwnsLiveClaim, ClearClaim
<1>11. ASSUME NEW i \in InvoiceWorkers, mark_invoice_admission_failed(i)
      PROVE  RowsSatisfyChecks'
  BY <1>11 DEF mark_invoice_admission_failed, OwnsLiveClaim, ClearClaim
<1>12. ASSUME NEW w \in Workers, schedule_verification_task_retry(w)
      PROVE  RowsSatisfyChecks'
  BY <1>12 DEF schedule_verification_task_retry, OwnsLiveClaim, ClearClaim
<1>13. ASSUME NEW w \in Workers, PersistUnsatisfied(w)
      PROVE  RowsSatisfyChecks'
  BY <1>13 DEF PersistUnsatisfied, OwnsLiveClaim, ClearClaim
<1>14. ASSUME NEW w \in Workers, begin_entitlement_publication(w)
      PROVE  RowsSatisfyChecks'
  BY <1>14 DEF begin_entitlement_publication, OwnsLiveClaim
<1>15. ASSUME NEW w \in Workers, complete_entitlement_publication(w)
      PROVE  RowsSatisfyChecks'
  BY <1>15 DEF complete_entitlement_publication, OwnsLiveClaim, ClearClaim
<1>16. ASSUME insert_job PROVE RowsSatisfyChecks'
  BY <1>16 DEF insert_job, Submitted
<1>17. ASSUME expire_unresolved_non_paykit_tasks PROVE RowsSatisfyChecks'
  BY <1>17 DEF expire_unresolved_non_paykit_tasks
<1>18. ASSUME NEW t \in Tasks,
             \/ DrainPutBundle(t) \/ RetryDue(t) \/ AdmissionDeadlinePasses(t)
      PROVE  RowsSatisfyChecks'
  <2>1. UNCHANGED <<status, phase, startedAt, claimToken, lease, entitlement>>
    BY <1>18 DEF DrainPutBundle, RetryDue, AdmissionDeadlinePasses
  <2>2. QED
    BY <2>1
<1>19. ASSUME NEW i \in InvoiceWorkers,
             \/ create_invoice(i) \/ AdmitterStops(i)
      PROVE  RowsSatisfyChecks'
  <2>1. UNCHANGED <<status, phase, startedAt, claimToken, lease, entitlement>>
    BY <1>19 DEF create_invoice, AdmitterStops
  <2>2. QED
    BY <2>1
<1>20. ASSUME NEW w \in Workers,
             \/ Verify(w) \/ ProbeBundle(w) \/ PutBundle(w) \/ ReadBackBundle(w)
             \/ WorkerStops(w)
      PROVE  RowsSatisfyChecks'
  <2>1. UNCHANGED <<status, phase, startedAt, claimToken, lease, entitlement>>
    BY <1>20 DEF Verify, ProbeBundle, PutBundle, ReadBackBundle, WorkerStops
  <2>2. QED
    BY <2>1
<1>21. ASSUME \/ prepare_force_deletion \/ withdraw_content_lock
             \/ complete_force_deletion \/ UNCHANGED vars
      PROVE  RowsSatisfyChecks'
  <2>1. UNCHANGED <<status, phase, startedAt, claimToken, lease, entitlement>>
    BY <1>21 DEF prepare_force_deletion, withdraw_content_lock,
        complete_force_deletion, vars
  <2>2. QED
    BY <2>1
<1>22. QED
  BY Zenon, <1>1, <1>2, <1>3, <1>4, <1>5, <1>6, <1>7, <1>8, <1>9, <1>10, <1>11,
      <1>12, <1>13, <1>14, <1>15, <1>16, <1>17, <1>18, <1>19, <1>20, <1>21 DEF
      Next, TaskStep, WorkerStep, AdmitterStep

\* No claim of a verification worker survives the cutoff or comes after it.
LEMMA AttachedStep == RowInv /\ [Next]_vars => AttachedRows'
<1> SUFFICES ASSUME RowInv, [Next]_vars PROVE AttachedRows'
  OBVIOUS
<1>a. /\ status \in [Tasks -> Status] /\ lastToken \in Nat
      /\ claimToken \in [Tasks -> Nat] /\ entitlement \in [Tasks -> Nat]
      /\ phase \in [Tasks -> {"invoice_pending", "ready", "failed"}]
      /\ lease \in [Tasks -> {"none", "live", "expired"}]
      /\ RowsSatisfyChecks /\ AttachedRows
      /\ attached \in [Tasks -> BOOLEAN]
  BY DEF RowInv, TypeOK
<1> USE <1>a DEF taskVars, deletionVars, externalVars, RowsSatisfyChecks,
      AttachedRows, Terminal
<1>1. ASSUME NEW t \in Tasks, insert_verification_task(t)
      PROVE  AttachedRows'
  BY <1>1 DEF insert_verification_task
<1>2. ASSUME NEW t \in Tasks, insert_invoice_pending_task(t)
      PROVE  AttachedRows'
  BY <1>2 DEF insert_invoice_pending_task
<1>3. ASSUME NEW i \in InvoiceWorkers, NEW t \in Tasks, claim_next_invoice_admission(i, t)
      PROVE  AttachedRows'
  BY <1>3 DEF claim_next_invoice_admission, TakeClaim
<1>4. ASSUME NEW w \in Workers, NEW t \in Tasks, claim_next_verification_task(w, t)
      PROVE  AttachedRows'
  BY <1>4 DEF claim_next_verification_task, TakeClaim, Claimable, StartClaimed
<1>5. ASSUME NEW t \in Tasks, drain_begin_entitlement_publication(t)
      PROVE  AttachedRows'
  BY <1>5 DEF drain_begin_entitlement_publication
<1>6. ASSUME NEW t \in Tasks, DrainComplete(t)
      PROVE  AttachedRows'
  BY <1>6 DEF DrainComplete
<1>7. ASSUME NEW t \in Tasks, DrainExpire(t)
      PROVE  AttachedRows'
  BY <1>7 DEF DrainExpire
<1>8. ASSUME NEW t \in Tasks, LeaseExpires(t)
      PROVE  AttachedRows'
  BY <1>8 DEF LeaseExpires
<1>9. ASSUME NEW i \in InvoiceWorkers, mark_invoice_admission_ready(i)
      PROVE  AttachedRows'
  BY <1>9 DEF mark_invoice_admission_ready, OwnsLiveClaim, ClearClaim
<1>10. ASSUME NEW i \in InvoiceWorkers, schedule_invoice_admission_retry(i)
      PROVE  AttachedRows'
  BY <1>10 DEF schedule_invoice_admission_retry, OwnsLiveClaim, ClearClaim
<1>11. ASSUME NEW i \in InvoiceWorkers, mark_invoice_admission_failed(i)
      PROVE  AttachedRows'
  BY <1>11 DEF mark_invoice_admission_failed, OwnsLiveClaim, ClearClaim
<1>12. ASSUME NEW w \in Workers, schedule_verification_task_retry(w)
      PROVE  AttachedRows'
  BY <1>12 DEF schedule_verification_task_retry, OwnsLiveClaim, ClearClaim
<1>13. ASSUME NEW w \in Workers, PersistUnsatisfied(w)
      PROVE  AttachedRows'
  BY <1>13 DEF PersistUnsatisfied, OwnsLiveClaim, ClearClaim
<1>14. ASSUME NEW w \in Workers, begin_entitlement_publication(w)
      PROVE  AttachedRows'
  BY <1>14 DEF begin_entitlement_publication, OwnsLiveClaim
<1>15. ASSUME NEW w \in Workers, complete_entitlement_publication(w)
      PROVE  AttachedRows'
  BY <1>15 DEF complete_entitlement_publication, OwnsLiveClaim, ClearClaim
<1>16. ASSUME insert_job PROVE AttachedRows'
  BY <1>16 DEF insert_job, Submitted
<1>17. ASSUME expire_unresolved_non_paykit_tasks PROVE AttachedRows'
  BY <1>17 DEF expire_unresolved_non_paykit_tasks
<1>18. ASSUME complete_force_deletion PROVE AttachedRows'
  BY <1>18 DEF complete_force_deletion
<1>19. ASSUME NEW t \in Tasks,
             \/ DrainPutBundle(t) \/ RetryDue(t) \/ AdmissionDeadlinePasses(t)
      PROVE  AttachedRows'
  <2>1. UNCHANGED <<status, phase, lease, attached>>
    BY <1>19 DEF DrainPutBundle, RetryDue, AdmissionDeadlinePasses
  <2>2. QED
    BY <2>1
<1>20. ASSUME NEW i \in InvoiceWorkers,
             \/ create_invoice(i) \/ AdmitterStops(i)
      PROVE  AttachedRows'
  <2>1. UNCHANGED <<status, phase, lease, attached>>
    BY <1>20 DEF create_invoice, AdmitterStops
  <2>2. QED
    BY <2>1
<1>21. ASSUME NEW w \in Workers,
             \/ Verify(w) \/ ProbeBundle(w) \/ PutBundle(w) \/ ReadBackBundle(w)
             \/ WorkerStops(w)
      PROVE  AttachedRows'
  <2>1. UNCHANGED <<status, phase, lease, attached>>
    BY <1>21 DEF Verify, ProbeBundle, PutBundle, ReadBackBundle, WorkerStops
  <2>2. QED
    BY <2>1
<1>22. ASSUME \/ prepare_force_deletion \/ withdraw_content_lock \/ UNCHANGED vars
      PROVE  AttachedRows'
  <2>1. UNCHANGED <<status, phase, lease, attached>>
    BY <1>22 DEF prepare_force_deletion, withdraw_content_lock, vars
  <2>2. QED
    BY <2>1
<1>23. QED
  BY Zenon, <1>1, <1>2, <1>3, <1>4, <1>5, <1>6, <1>7, <1>8, <1>9, <1>10, <1>11,
      <1>12, <1>13, <1>14, <1>15, <1>16, <1>17, <1>18, <1>19, <1>20, <1>21,
      <1>22 DEF Next, TaskStep, WorkerStep, AdmitterStep

\* An admitted task stays admitted.
StaysAdmitted ==
    \A t \in Tasks : status[t] # "absent" /\ phase[t] = "ready" =>
        status'[t] # "absent" /\ phase'[t] = "ready"

\* Only a pending admission moves a phase, and no row disappears.
LEMMA AdmittedStep == TypeOK /\ [Next]_vars => StaysAdmitted
<1> SUFFICES ASSUME TypeOK, [Next]_vars PROVE StaysAdmitted
  OBVIOUS
<1>a. /\ status \in [Tasks -> Status]
      /\ phase \in [Tasks -> {"invoice_pending", "ready", "failed"}]
  BY DEF TypeOK
<1> USE <1>a DEF taskVars, deletionVars, externalVars, StaysAdmitted
<1>1. ASSUME NEW t \in Tasks, insert_verification_task(t)
      PROVE  StaysAdmitted
  BY <1>1 DEF insert_verification_task
<1>2. ASSUME NEW t \in Tasks, insert_invoice_pending_task(t)
      PROVE  StaysAdmitted
  BY <1>2 DEF insert_invoice_pending_task
<1>3. ASSUME NEW w \in Workers, NEW t \in Tasks, claim_next_verification_task(w, t)
      PROVE  StaysAdmitted
  BY <1>3 DEF claim_next_verification_task, TakeClaim, Claimable, StartClaimed
<1>4. ASSUME NEW t \in Tasks, drain_begin_entitlement_publication(t)
      PROVE  StaysAdmitted
  BY <1>4 DEF drain_begin_entitlement_publication
<1>5. ASSUME NEW t \in Tasks, DrainComplete(t)
      PROVE  StaysAdmitted
  BY <1>5 DEF DrainComplete
<1>6. ASSUME NEW t \in Tasks, DrainExpire(t)
      PROVE  StaysAdmitted
  BY <1>6 DEF DrainExpire
<1>7. ASSUME NEW i \in InvoiceWorkers, mark_invoice_admission_ready(i)
      PROVE  StaysAdmitted
  BY <1>7 DEF mark_invoice_admission_ready, OwnsLiveClaim, ClearClaim
<1>8. ASSUME NEW i \in InvoiceWorkers, mark_invoice_admission_failed(i)
      PROVE  StaysAdmitted
  BY <1>8 DEF mark_invoice_admission_failed, OwnsLiveClaim, ClearClaim
<1>9. ASSUME NEW w \in Workers, schedule_verification_task_retry(w)
      PROVE  StaysAdmitted
  BY <1>9 DEF schedule_verification_task_retry, OwnsLiveClaim, ClearClaim
<1>10. ASSUME NEW w \in Workers, PersistUnsatisfied(w)
      PROVE  StaysAdmitted
  BY <1>10 DEF PersistUnsatisfied, OwnsLiveClaim, ClearClaim
<1>11. ASSUME NEW w \in Workers, begin_entitlement_publication(w)
      PROVE  StaysAdmitted
  BY <1>11 DEF begin_entitlement_publication, OwnsLiveClaim
<1>12. ASSUME NEW w \in Workers, complete_entitlement_publication(w)
      PROVE  StaysAdmitted
  BY <1>12 DEF complete_entitlement_publication, OwnsLiveClaim, ClearClaim
<1>13. ASSUME insert_job PROVE StaysAdmitted
  BY <1>13 DEF insert_job, Submitted
<1>14. ASSUME expire_unresolved_non_paykit_tasks PROVE StaysAdmitted
  BY <1>14 DEF expire_unresolved_non_paykit_tasks
<1>15. ASSUME NEW t \in Tasks,
             \/ DrainPutBundle(t) \/ LeaseExpires(t) \/ RetryDue(t)
             \/ AdmissionDeadlinePasses(t)
      PROVE  StaysAdmitted
  <2>1. UNCHANGED <<status, phase>>
    BY <1>15 DEF DrainPutBundle, LeaseExpires, RetryDue,
        AdmissionDeadlinePasses
  <2>2. QED
    BY <2>1
<1>16. ASSUME NEW i \in InvoiceWorkers, NEW t \in Tasks,
             claim_next_invoice_admission(i, t)
      PROVE  StaysAdmitted
  <2>1. UNCHANGED <<status, phase>>
    BY <1>16 DEF claim_next_invoice_admission
  <2>2. QED
    BY <2>1
<1>17. ASSUME NEW i \in InvoiceWorkers,
             \/ create_invoice(i) \/ schedule_invoice_admission_retry(i)
             \/ AdmitterStops(i)
      PROVE  StaysAdmitted
  <2>1. UNCHANGED <<status, phase>>
    BY <1>17 DEF create_invoice, schedule_invoice_admission_retry,
        AdmitterStops
  <2>2. QED
    BY <2>1
<1>18. ASSUME NEW w \in Workers,
             \/ Verify(w) \/ ProbeBundle(w) \/ PutBundle(w) \/ ReadBackBundle(w)
             \/ WorkerStops(w)
      PROVE  StaysAdmitted
  <2>1. UNCHANGED <<status, phase>>
    BY <1>18 DEF Verify, ProbeBundle, PutBundle, ReadBackBundle, WorkerStops
  <2>2. QED
    BY <2>1
<1>19. ASSUME \/ prepare_force_deletion \/ withdraw_content_lock
             \/ complete_force_deletion \/ UNCHANGED vars
      PROVE  StaysAdmitted
  <2>1. UNCHANGED <<status, phase>>
    BY <1>19 DEF prepare_force_deletion, withdraw_content_lock,
        complete_force_deletion, vars
  <2>2. QED
    BY <2>1
<1>20. QED
  BY Zenon, <1>1, <1>2, <1>3, <1>4, <1>5, <1>6, <1>7, <1>8, <1>9, <1>10, <1>11,
      <1>12, <1>13, <1>14, <1>15, <1>16, <1>17, <1>18, <1>19 DEF Next,
      TaskStep, WorkerStep, AdmitterStep

\* A busy worker keeps an admitted task.
LEMMA WorkersStep == RowInv /\ [Next]_vars => (WorkersOnTasks /\ IdleWorkers)'
<1> SUFFICES ASSUME RowInv, [Next]_vars PROVE (WorkersOnTasks /\ IdleWorkers)'
  OBVIOUS
<1>1. StaysAdmitted /\ WorkerEffect
  BY AdmittedStep, EffectStep DEF RowInv
<1>2. /\ WorkersOnTasks /\ IdleWorkers
      /\ lastToken \in Nat /\ \A w \in Workers : worker[w].token \in Nat
  BY DEF RowInv, TypeOK, WorkerState
<1> USE <1>1, <1>2 DEF WorkersOnTasks, IdleWorkers, StaysAdmitted
<1>3. CASE worker' = worker
  BY <1>3
<1>4. ASSUME NEW w \in Workers, Dropped(w) PROVE (WorkersOnTasks /\ IdleWorkers)'
  BY <1>4 DEF Dropped
<1>5. ASSUME NEW w \in Workers, worker[w].step # "idle",
             Moved(w, DecideSteps) \/ Moved(w, PublishSteps) \/ Began(w)
      PROVE  (WorkersOnTasks /\ IdleWorkers)'
  <2>1. /\ worker'[w].step # "idle" /\ worker'[w].task = worker[w].task
        /\ worker'[w].token = worker[w].token
        /\ \A v \in Workers \ {w} : worker'[v] = worker[v]
    BY <1>5 DEF Moved, Began, DecideSteps, PublishSteps
  <2>2. QED
    BY <1>5, <2>1
<1>6. ASSUME NEW w \in Workers, NEW t \in Tasks, Took(w, t), Claimable(t)
      PROVE  (WorkersOnTasks /\ IdleWorkers)'
  <2>1. /\ worker'[w].step # "idle" /\ worker'[w].token # 0
        /\ worker'[w].task = t
        /\ \A v \in Workers \ {w} : worker'[v] = worker[v]
    BY <1>6 DEF Took
  <2>2. status'[t] # "absent" /\ phase'[t] = "ready"
    BY <1>6 DEF Claimable
  <2>3. ASSUME NEW v \in Workers
        PROVE  /\ worker'[v].step # "idle" =>
                     /\ worker'[v].task \in Tasks /\ worker'[v].token # 0
                     /\ status'[worker'[v].task] # "absent"
                     /\ phase'[worker'[v].task] = "ready"
               /\ worker'[v].step = "idle" => worker'[v].token = 0
    <3>1. CASE v = w
      BY <1>6, <2>1, <2>2, <3>1
    <3>2. CASE v # w
      BY <2>1, <3>2
    <3>3. QED
      BY <3>1, <3>2
  <2>4. QED
    BY Zenon, <2>3
<1>7. QED
  BY Zenon, <1>3, <1>4, <1>5, <1>6 DEF WorkerEffect, PublishSteps

\* A busy invoice worker keeps a task.
LEMMA AdmittersStep == RowInv /\ [Next]_vars => AdmittersOnTasks'
<1> SUFFICES ASSUME RowInv, [Next]_vars PROVE AdmittersOnTasks'
  OBVIOUS
<1>a. /\ AdmittersOnTasks
      /\ admitter \in [InvoiceWorkers -> AdmitterState]
  BY DEF RowInv, TypeOK
<1> USE <1>a DEF taskVars, deletionVars, externalVars, AdmittersOnTasks,
      AdmitterState, Idle
<1>1. ASSUME NEW i \in InvoiceWorkers, NEW t \in Tasks, claim_next_invoice_admission(i, t)
      PROVE  AdmittersOnTasks'
  BY <1>1 DEF claim_next_invoice_admission, TakeClaim
<1>2. ASSUME NEW i \in InvoiceWorkers, create_invoice(i)
      PROVE  AdmittersOnTasks'
  BY <1>2 DEF create_invoice
<1>3. ASSUME NEW i \in InvoiceWorkers, mark_invoice_admission_ready(i)
      PROVE  AdmittersOnTasks'
  BY <1>3 DEF mark_invoice_admission_ready, OwnsLiveClaim, ClearClaim
<1>4. ASSUME NEW i \in InvoiceWorkers, schedule_invoice_admission_retry(i)
      PROVE  AdmittersOnTasks'
  BY <1>4 DEF schedule_invoice_admission_retry, OwnsLiveClaim, ClearClaim
<1>5. ASSUME NEW i \in InvoiceWorkers, mark_invoice_admission_failed(i)
      PROVE  AdmittersOnTasks'
  BY <1>5 DEF mark_invoice_admission_failed, OwnsLiveClaim, ClearClaim
<1>6. ASSUME NEW i \in InvoiceWorkers, AdmitterStops(i)
      PROVE  AdmittersOnTasks'
  BY <1>6 DEF AdmitterStops
<1>7. ASSUME NEW t \in Tasks,
             \/ insert_verification_task(t) \/ insert_invoice_pending_task(t)
             \/ drain_begin_entitlement_publication(t) \/ DrainPutBundle(t)
             \/ DrainComplete(t) \/ DrainExpire(t) \/ LeaseExpires(t) \/ RetryDue(t)
             \/ AdmissionDeadlinePasses(t)
      PROVE  AdmittersOnTasks'
  <2>1. UNCHANGED admitter
    BY Zenon, <1>7 DEF insert_verification_task, insert_invoice_pending_task,
        drain_begin_entitlement_publication, DrainPutBundle, DrainComplete,
        DrainExpire, LeaseExpires, RetryDue, AdmissionDeadlinePasses
  <2>2. QED
    BY <2>1
<1>8. ASSUME NEW w \in Workers, NEW t \in Tasks,
             claim_next_verification_task(w, t)
      PROVE  AdmittersOnTasks'
  <2>1. UNCHANGED admitter
    BY <1>8 DEF claim_next_verification_task
  <2>2. QED
    BY <2>1
<1>9. ASSUME NEW w \in Workers,
             \/ Verify(w) \/ schedule_verification_task_retry(w)
             \/ PersistUnsatisfied(w) \/ begin_entitlement_publication(w)
             \/ ProbeBundle(w) \/ PutBundle(w) \/ ReadBackBundle(w)
             \/ complete_entitlement_publication(w) \/ WorkerStops(w)
      PROVE  AdmittersOnTasks'
  <2>1. UNCHANGED admitter
    BY <1>9 DEF Verify, schedule_verification_task_retry, PersistUnsatisfied,
        begin_entitlement_publication, ProbeBundle, PutBundle, ReadBackBundle,
        complete_entitlement_publication, WorkerStops
  <2>2. QED
    BY <2>1
<1>10. ASSUME \/ insert_job \/ prepare_force_deletion \/ withdraw_content_lock
             \/ expire_unresolved_non_paykit_tasks \/ complete_force_deletion
             \/ UNCHANGED vars
      PROVE  AdmittersOnTasks'
  <2>1. UNCHANGED admitter
    BY Zenon, <1>10 DEF insert_job, prepare_force_deletion, withdraw_content_lock,
        expire_unresolved_non_paykit_tasks, complete_force_deletion, vars
  <2>2. QED
    BY <2>1
<1>11. QED
  BY Zenon, <1>1, <1>2, <1>3, <1>4, <1>5, <1>6, <1>7, <1>8, <1>9, <1>10 DEF Next,
      TaskStep, WorkerStep, AdmitterStep

=============================================================================
