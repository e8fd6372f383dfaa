---------------------- MODULE VerificationTypesProofs ----------------------
(***************************************************************************)
(* Type correctness of VerificationTasks, for any number of tasks, workers *)
(* and faults.                                                             *)
(***************************************************************************)
EXTENDS VerificationTasks, TLAPS

\* Moving a worker to another of its steps, or making it idle, keeps its type.
LEMMA WorkerTyped ==
    ASSUME TypeOK, NEW w \in Workers
    PROVE  /\ \A s \in {"idle"} \cup DecideSteps \cup PublishSteps :
                 [worker EXCEPT ![w].step = s] \in [Workers -> WorkerState]
           /\ [worker EXCEPT ![w] = Idle] \in [Workers -> WorkerState]
           /\ worker[w].token \in Nat /\ worker[w].payload \in Nat
BY DEF TypeOK, WorkerState, Idle

LEMMA AdmitterTyped ==
    ASSUME TypeOK, NEW i \in InvoiceWorkers
    PROVE  /\ \A s \in {"idle"} \cup AdmitSteps :
                 [admitter EXCEPT ![i].step = s] \in [InvoiceWorkers -> AdmitterState]
           /\ [admitter EXCEPT ![i] = Idle] \in [InvoiceWorkers -> AdmitterState]
BY DEF TypeOK, AdmitterState, Idle

LEMMA FaultTyped == TypeOK /\ (Fault \/ NoFault) => faults' \in 0 .. MaxFaults
BY MaxFaultsAssumption DEF TypeOK, Fault, NoFault

\* Every step keeps the columns and the workers in their types.
LEMMA TypeStep == TypeOK /\ [Next]_vars => TypeOK'
<1> SUFFICES ASSUME TypeOK, [Next]_vars PROVE TypeOK'
  OBVIOUS
<1> USE DEF taskVars, deletionVars, externalVars
<1>1. ASSUME NEW t \in Tasks, insert_verification_task(t) PROVE TypeOK'
  BY <1>1 DEF insert_verification_task, TypeOK, Status, Terminal
<1>2. ASSUME NEW t \in Tasks, insert_invoice_pending_task(t) PROVE TypeOK'
  BY <1>2 DEF insert_invoice_pending_task, TypeOK, Status, Terminal
<1>3. ASSUME NEW i \in InvoiceWorkers, NEW t \in Tasks, claim_next_invoice_admission(i, t) PROVE TypeOK'
  <2>1. admitter' \in [InvoiceWorkers -> AdmitterState]
    BY <1>3 DEF claim_next_invoice_admission, TypeOK, AdmitterState,
        AdmitSteps
  <2>2. QED
    BY <1>3, <2>1 DEF claim_next_invoice_admission, TakeClaim, TypeOK
<1>4. ASSUME NEW w \in Workers, NEW t \in Tasks, claim_next_verification_task(w, t) PROVE TypeOK'
  <2>1. worker' \in [Workers -> WorkerState]
    BY <1>4 DEF claim_next_verification_task, TypeOK, WorkerState,
        DecideSteps, PublishSteps, StartClaimed
  <2>2. QED
    BY <1>4, <2>1 DEF claim_next_verification_task, TakeClaim, Claimable,
        StartClaimed, TypeOK, Status, Terminal
<1>5. ASSUME NEW t \in Tasks, drain_begin_entitlement_publication(t) PROVE TypeOK'
  BY <1>5 DEF drain_begin_entitlement_publication, TypeOK, Status, Terminal
<1>6. ASSUME NEW t \in Tasks, DrainPutBundle(t) PROVE TypeOK'
  BY <1>6 DEF DrainPutBundle, TypeOK
<1>7. ASSUME NEW t \in Tasks, DrainComplete(t) PROVE TypeOK'
  BY <1>7 DEF DrainComplete, TypeOK, Status, Terminal
<1>8. ASSUME NEW t \in Tasks, DrainExpire(t) PROVE TypeOK'
  BY <1>8 DEF DrainExpire, TypeOK, Status, Terminal
<1>9. ASSUME NEW t \in Tasks, LeaseExpires(t) PROVE TypeOK'
  <2>1. faults' \in 0 .. MaxFaults
    BY <1>9, FaultTyped DEF LeaseExpires
  <2>2. QED
    BY <1>9, <2>1 DEF LeaseExpires, TypeOK
<1>10. ASSUME NEW t \in Tasks, RetryDue(t) PROVE TypeOK'
  BY <1>10 DEF RetryDue, TypeOK
<1>11. ASSUME NEW t \in Tasks, AdmissionDeadlinePasses(t) PROVE TypeOK'
  BY <1>11 DEF AdmissionDeadlinePasses, TypeOK
<1>12. ASSUME NEW i \in InvoiceWorkers, create_invoice(i) PROVE TypeOK'
  <2>0. PICK s \in AdmitSteps : admitter' = [admitter EXCEPT ![i].step = s]
    BY <1>12 DEF create_invoice, AdmitSteps
  <2>1. admitter' \in [InvoiceWorkers -> AdmitterState]
    BY Zenon, <2>0, AdmitterTyped
  <2>2. faults' \in 0 .. MaxFaults
    BY <1>12, FaultTyped DEF create_invoice
  <2>3. invoices' \in [Tasks -> BOOLEAN]
    BY Zenon, <1>12 DEF create_invoice, TypeOK
  <2>4. QED
    BY <1>12, <2>1, <2>2, <2>3 DEF create_invoice, TypeOK
<1>13. ASSUME NEW i \in InvoiceWorkers, mark_invoice_admission_ready(i) PROVE TypeOK'
  <2>1. admitter' \in [InvoiceWorkers -> AdmitterState]
    BY Zenon, <1>13, AdmitterTyped DEF mark_invoice_admission_ready, AdmitSteps
  <2>2. phase' \in [Tasks -> {"invoice_pending", "ready", "failed"}]
    BY <1>13 DEF mark_invoice_admission_ready, TypeOK
  <2>3. due' \in [Tasks -> BOOLEAN]
    BY Zenon, <1>13 DEF mark_invoice_admission_ready, TypeOK
  <2>4. claimToken' \in [Tasks -> Nat]
    BY <1>13 DEF mark_invoice_admission_ready, TypeOK, ClearClaim
  <2>5. lease' \in [Tasks -> {"none", "live", "expired"}]
    BY <1>13 DEF mark_invoice_admission_ready, TypeOK, ClearClaim
  <2>6. QED
    BY <1>13, <2>1, <2>2, <2>3, <2>4, <2>5 DEF mark_invoice_admission_ready,
        TypeOK
<1>14. ASSUME NEW i \in InvoiceWorkers, schedule_invoice_admission_retry(i) PROVE TypeOK'
  <2>1. admitter' \in [InvoiceWorkers -> AdmitterState]
    BY Zenon, <1>14, AdmitterTyped DEF schedule_invoice_admission_retry, AdmitSteps
  <2>2. due' \in [Tasks -> BOOLEAN]
    BY Zenon, <1>14 DEF schedule_invoice_admission_retry, TypeOK
  <2>3. claimToken' \in [Tasks -> Nat]
    BY <1>14 DEF schedule_invoice_admission_retry, TypeOK, ClearClaim
  <2>4. lease' \in [Tasks -> {"none", "live", "expired"}]
    BY <1>14 DEF schedule_invoice_admission_retry, TypeOK, ClearClaim
  <2>5. QED
    BY <1>14, <2>1, <2>2, <2>3, <2>4 DEF schedule_invoice_admission_retry,
        TypeOK
<1>15. ASSUME NEW i \in InvoiceWorkers, mark_invoice_admission_failed(i) PROVE TypeOK'
  <2>1. admitter' \in [InvoiceWorkers -> AdmitterState]
    BY Zenon, <1>15, AdmitterTyped DEF mark_invoice_admission_failed, AdmitSteps
  <2>2. phase' \in [Tasks -> {"invoice_pending", "ready", "failed"}]
    BY <1>15 DEF mark_invoice_admission_failed, TypeOK
  <2>3. status' \in [Tasks -> Status]
    BY <1>15 DEF mark_invoice_admission_failed, TypeOK, Status, Terminal
  <2>4. due' \in [Tasks -> BOOLEAN]
    BY Zenon, <1>15 DEF mark_invoice_admission_failed, TypeOK
  <2>5. claimToken' \in [Tasks -> Nat]
    BY <1>15 DEF mark_invoice_admission_failed, TypeOK, ClearClaim
  <2>6. lease' \in [Tasks -> {"none", "live", "expired"}]
    BY <1>15 DEF mark_invoice_admission_failed, TypeOK, ClearClaim
  <2>7. startedAt' \in [Tasks -> {"null", "set"}]
    BY <1>15 DEF mark_invoice_admission_failed, TypeOK
  <2>8. QED
    BY <1>15, <2>1, <2>2, <2>3, <2>4, <2>5, <2>6, <2>7 DEF
        mark_invoice_admission_failed, TypeOK
<1>16. ASSUME NEW i \in InvoiceWorkers, AdmitterStops(i) PROVE TypeOK'
  <2>1. admitter' \in [InvoiceWorkers -> AdmitterState]
    BY Zenon, <1>16, AdmitterTyped DEF AdmitterStops, AdmitSteps
  <2>2. faults' \in 0 .. MaxFaults
    BY <1>16, FaultTyped DEF AdmitterStops
  <2>3. QED
    BY <1>16, <2>1, <2>2 DEF AdmitterStops, TypeOK
<1>17. ASSUME NEW w \in Workers, Verify(w) PROVE TypeOK'
  <2>1. worker' \in [Workers -> WorkerState]
    <3>1. PICK s \in DecideSteps : worker' = [worker EXCEPT ![w].step = s]
      BY <1>17 DEF Verify, DecideSteps
    <3>2. QED
      BY <3>1, WorkerTyped
  <2>2. faults' \in 0 .. MaxFaults
    BY <1>17, FaultTyped DEF Verify
  <2>3. QED
    BY <1>17, <2>1, <2>2 DEF Verify, TypeOK
<1>18. ASSUME NEW w \in Workers, schedule_verification_task_retry(w) PROVE TypeOK'
  <2>1. worker' \in [Workers -> WorkerState]
    BY Zenon, <1>18, WorkerTyped DEF schedule_verification_task_retry, DecideSteps,
        PublishSteps
  <2>2. status' \in [Tasks -> Status]
    BY <1>18 DEF schedule_verification_task_retry, TypeOK, Status, Terminal
  <2>3. due' \in [Tasks -> BOOLEAN]
    BY Zenon, <1>18 DEF schedule_verification_task_retry, TypeOK
  <2>4. claimToken' \in [Tasks -> Nat]
    BY <1>18 DEF schedule_verification_task_retry, TypeOK, ClearClaim
  <2>5. lease' \in [Tasks -> {"none", "live", "expired"}]
    BY <1>18 DEF schedule_verification_task_retry, TypeOK, ClearClaim
  <2>6. startedAt' \in [Tasks -> {"null", "set"}]
    BY <1>18 DEF schedule_verification_task_retry, TypeOK
  <2>7. QED
    BY <1>18, <2>1, <2>2, <2>3, <2>4, <2>5, <2>6 DEF
        schedule_verification_task_retry, TypeOK
<1>19. ASSUME NEW w \in Workers, PersistUnsatisfied(w) PROVE TypeOK'
  <2>1. worker' \in [Workers -> WorkerState]
    BY Zenon, <1>19, WorkerTyped DEF PersistUnsatisfied, DecideSteps, PublishSteps
  <2>2. status' \in [Tasks -> Status]
    BY <1>19 DEF PersistUnsatisfied, TypeOK, Status, Terminal
  <2>3. claimToken' \in [Tasks -> Nat]
    BY <1>19 DEF PersistUnsatisfied, TypeOK, ClearClaim
  <2>4. lease' \in [Tasks -> {"none", "live", "expired"}]
    BY <1>19 DEF PersistUnsatisfied, TypeOK, ClearClaim
  <2>5. QED
    BY <1>19, <2>1, <2>2, <2>3, <2>4 DEF PersistUnsatisfied, TypeOK
<1>20. ASSUME NEW w \in Workers, begin_entitlement_publication(w) PROVE TypeOK'
  <2>1. worker' \in [Workers -> WorkerState]
    BY <1>20 DEF begin_entitlement_publication, TypeOK, WorkerState, Idle,
        DecideSteps, PublishSteps
  <2>2. status' \in [Tasks -> Status]
    BY <1>20 DEF begin_entitlement_publication, TypeOK, Status, Terminal
  <2>3. entitlement' \in [Tasks -> Nat]
    BY <1>20, WorkerTyped DEF begin_entitlement_publication, TypeOK
  <2>4. QED
    BY <1>20, <2>1, <2>2, <2>3 DEF begin_entitlement_publication, TypeOK
<1>21. ASSUME NEW w \in Workers, ProbeBundle(w) PROVE TypeOK'
  <2>0. PICK s \in {"put", "read_back"} : worker' = [worker EXCEPT ![w].step = s]
    BY <1>21 DEF ProbeBundle
  <2>1. worker' \in [Workers -> WorkerState]
    BY Zenon, <2>0, WorkerTyped DEF PublishSteps
  <2>2. faults' \in 0 .. MaxFaults
    BY <1>21, FaultTyped DEF ProbeBundle
  <2>3. QED
    BY <1>21, <2>1, <2>2 DEF ProbeBundle, TypeOK
<1>22. ASSUME NEW w \in Workers, PutBundle(w) PROVE TypeOK'
  <2>1. worker' \in [Workers -> WorkerState]
    BY Zenon, <1>22, WorkerTyped DEF PutBundle, DecideSteps, PublishSteps
  <2>2. faults' \in 0 .. MaxFaults
    BY <1>22, FaultTyped DEF PutBundle
  <2>3. bundles' \in [Tasks -> Nat]
    BY <1>22, WorkerTyped DEF PutBundle, TypeOK
  <2>4. QED
    BY <1>22, <2>1, <2>2, <2>3 DEF PutBundle, TypeOK
<1>23. ASSUME NEW w \in Workers, ReadBackBundle(w) PROVE TypeOK'
  <2>1. worker' \in [Workers -> WorkerState]
    BY Zenon, <1>23, WorkerTyped DEF ReadBackBundle, DecideSteps, PublishSteps
  <2>2. QED
    BY <1>23, <2>1 DEF ReadBackBundle, TypeOK
<1>24. ASSUME NEW w \in Workers, complete_entitlement_publication(w) PROVE TypeOK'
  <2>1. worker' \in [Workers -> WorkerState]
    BY Zenon, <1>24, WorkerTyped DEF complete_entitlement_publication, DecideSteps,
        PublishSteps
  <2>2. status' \in [Tasks -> Status]
    BY <1>24 DEF complete_entitlement_publication, TypeOK, Status, Terminal
  <2>3. claimToken' \in [Tasks -> Nat]
    BY <1>24 DEF complete_entitlement_publication, TypeOK, ClearClaim
  <2>4. lease' \in [Tasks -> {"none", "live", "expired"}]
    BY <1>24 DEF complete_entitlement_publication, TypeOK, ClearClaim
  <2>5. QED
    BY <1>24, <2>1, <2>2, <2>3, <2>4 DEF complete_entitlement_publication,
        TypeOK
<1>25. ASSUME NEW w \in Workers, WorkerStops(w) PROVE TypeOK'
  <2>1. worker' \in [Workers -> WorkerState]
    BY Zenon, <1>25, WorkerTyped DEF WorkerStops, DecideSteps, PublishSteps
  <2>2. faults' \in 0 .. MaxFaults
    BY <1>25, FaultTyped DEF WorkerStops
  <2>3. QED
    BY <1>25, <2>1, <2>2 DEF WorkerStops, TypeOK
<1>26. CASE insert_job
  <2>1. status' \in [Tasks -> Status]
    BY <1>26 DEF insert_job, TypeOK, Status, Terminal
  <2>2. claimToken' \in [Tasks -> Nat]
    BY <1>26 DEF insert_job, TypeOK
  <2>3. lease' \in [Tasks -> {"none", "live", "expired"}]
    BY <1>26 DEF insert_job, TypeOK
  <2>4. due' \in [Tasks -> BOOLEAN]
    BY Zenon, <1>26 DEF insert_job, TypeOK
  <2>5. attached' \in [Tasks -> BOOLEAN]
    BY <1>26 DEF insert_job, TypeOK
  <2>6. startedAt' \in [Tasks -> {"null", "set"}]
    BY <1>26 DEF insert_job, TypeOK
  <2>7. QED
    BY Zenon, <1>26, <2>1, <2>2, <2>3, <2>4, <2>5, <2>6 DEF insert_job, TypeOK
<1>27. CASE prepare_force_deletion
  BY <1>27 DEF prepare_force_deletion, TypeOK
<1>28. CASE withdraw_content_lock
  BY Zenon, <1>28 DEF withdraw_content_lock, TypeOK
<1>29. CASE expire_unresolved_non_paykit_tasks
  BY <1>29 DEF expire_unresolved_non_paykit_tasks, TypeOK, Status, Terminal
<1>30. CASE complete_force_deletion
  BY <1>30 DEF complete_force_deletion, TypeOK
<1>31. CASE UNCHANGED vars
  BY <1>31 DEF TypeOK, vars
<1>32. QED
  BY Zenon, <1>1, <1>2, <1>3, <1>4, <1>5, <1>6, <1>7, <1>8, <1>9, <1>10, <1>11,
      <1>12, <1>13, <1>14, <1>15, <1>16, <1>17, <1>18, <1>19, <1>20, <1>21,
      <1>22, <1>23, <1>24, <1>25, <1>26, <1>27, <1>28, <1>29, <1>30, <1>31 DEF
      Next, TaskStep, WorkerStep, AdmitterStep

LEMMA InitType == Init => TypeOK
BY MaxFaultsAssumption DEF Init, TypeOK, Status, WorkerState, AdmitterState, Idle

\* The columns, the workers and the external stores always have the values their
\* types allow, for any number of tasks and workers.
THEOREM TypeCorrect == Spec => []TypeOK
BY InitType, TypeStep, PTL DEF Spec

=============================================================================
