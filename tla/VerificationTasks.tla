-------------------------- MODULE VerificationTasks --------------------------
(***************************************************************************)
(* The v1 verification-task table of one content lock, the verification    *)
(* workers that claim its tasks under a lease, the invoice-admission       *)
(* workers that admit Paykit tasks first, and the two external stores they *)
(* write: the creator's homeserver (verified proof bundles) and Paykit     *)
(* (invoices).                                                             *)
(*                                                                         *)
(* Every step of a worker that awaits is an action of its own, so what a   *)
(* worker read or decided before an await may be stale when it writes.     *)
(* Every database write is one statement (or one transaction) and is one   *)
(* action; a write whose fence no longer matches updates no row and the    *)
(* worker drops its claim.                                                 *)
(*                                                                         *)
(* Database time is kept as what the statements compare it with: lease     *)
(* (claim_expires_at against now), due (next_attempt_at against now) and   *)
(* late (admission_deadline_at against now).                               *)
(***************************************************************************)
EXTENDS Naturals, FiniteSets

CONSTANTS
    Tasks,           \* verification tasks that may be submitted for the lock
    PaykitTasks,     \* those whose bundle carries a paykit-payment proof
    Workers,         \* verification worker loops
    InvoiceWorkers,  \* invoice-admission worker loops
    MaxFaults        \* bound on crashes, slow leases, errors and "not yet" answers

ASSUME PaykitTasksAssumption == PaykitTasks \subseteq Tasks

ASSUME MaxFaultsAssumption == MaxFaults \in Nat

VARIABLES
    status,       \* verification_tasks.status ("absent": not inserted)
    phase,        \* invoice_admission_phase
    startedAt,    \* started_at is NULL or set
    claimToken,   \* claim_token, 0 when NULL
    lease,        \* claim_expires_at: NULL, after now, at or before now
    due,          \* next_attempt_at is NULL or not after now
    late,         \* admission_deadline_at is not after now
    entitlement,  \* entitlement_to_publish, 0 when NULL
    attached,     \* deletion_job_id is not NULL
    cutoff,       \* deletion job or force receipt of the lock
    lockPublic,   \* the content lock is readable at its public path
    bundles,      \* verified proof bundles on the homeserver, 0 when absent
    invoices,     \* Paykit holds an invoice for the task
    worker,       \* what each verification worker is doing
    admitter,     \* what each invoice worker is doing
    lastToken,    \* the claim tokens handed out so far are 1..lastToken
    faults

taskVars == <<status, phase, startedAt, claimToken, lease, due, late, entitlement, attached>>
deletionVars == <<cutoff, lockPublic>>
externalVars == <<bundles, invoices>>
vars == <<taskVars, deletionVars, externalVars, worker, admitter, lastToken, faults>>

Terminal == {"completed", "failed", "expired"}

Status == {"absent", "pending", "in_progress", "publishing_entitlement"} \cup Terminal

\* The steps of CompleteVerificationTaskUseCase that end in an await, named for
\* what the worker does next: decide on the claimed task, or publish the
\* persisted entitlement and complete.
DecideSteps == {"evaluate", "begin", "fail", "expire", "retry"}
PublishSteps == {"probe", "put", "read_back", "complete"}

\* The steps of InvoiceAdmissionWorker::run_once after its claim.
AdmitSteps == {"create_invoice", "ready", "retry", "fail"}

NoTask == "no task"

Idle == [step |-> "idle", task |-> NoTask, token |-> 0, payload |-> 0]

WorkerState ==
    [step : {"idle"} \cup DecideSteps \cup PublishSteps,
     task : Tasks \cup {NoTask}, token : Nat, payload : Nat]

AdmitterState ==
    [step : {"idle"} \cup AdmitSteps, task : Tasks \cup {NoTask}, token : Nat, payload : Nat]

\* One type invariant for the module: the columns hold values their CHECK
\* constraints allow and the workers are in one of their steps.
TypeOK ==
    /\ status \in [Tasks -> Status]
    /\ phase \in [Tasks -> {"invoice_pending", "ready", "failed"}]
    /\ startedAt \in [Tasks -> {"null", "set"}]
    /\ claimToken \in [Tasks -> Nat]
    /\ lease \in [Tasks -> {"none", "live", "expired"}]
    /\ due \in [Tasks -> BOOLEAN]
    /\ late \in [Tasks -> BOOLEAN]
    /\ entitlement \in [Tasks -> Nat]
    /\ attached \in [Tasks -> BOOLEAN]
    /\ cutoff \in {"none", "job", "receipt"}
    /\ lockPublic \in BOOLEAN
    /\ bundles \in [Tasks -> Nat]
    /\ invoices \in [Tasks -> BOOLEAN]
    /\ worker \in [Workers -> WorkerState]
    /\ admitter \in [InvoiceWorkers -> AdmitterState]
    /\ lastToken \in Nat
    /\ faults \in 0 .. MaxFaults

Init ==
    /\ status = [t \in Tasks |-> "absent"]
    /\ phase = [t \in Tasks |-> "ready"]
    /\ startedAt = [t \in Tasks |-> "null"]
    /\ claimToken = [t \in Tasks |-> 0]
    /\ lease = [t \in Tasks |-> "none"]
    /\ due = [t \in Tasks |-> TRUE]
    /\ late = [t \in Tasks |-> FALSE]
    /\ entitlement = [t \in Tasks |-> 0]
    /\ attached = [t \in Tasks |-> FALSE]
    /\ cutoff = "none"
    /\ lockPublic = TRUE
    /\ bundles = [t \in Tasks |-> 0]
    /\ invoices = [t \in Tasks |-> FALSE]
    /\ worker = [w \in Workers |-> Idle]
    /\ admitter = [i \in InvoiceWorkers |-> Idle]
    /\ lastToken = 0
    /\ faults = 0

-----------------------------------------------------------------------------
(***************************************************************************)
(* Submission.  Both inserts run under the admission lock of the content   *)
(* lock and are refused once a deletion job or a force receipt exists.     *)
(* A replay of the same bundle finds its row and changes nothing.          *)
(***************************************************************************)
Fault == faults < MaxFaults /\ faults' = faults + 1

NoFault == UNCHANGED faults

insert_verification_task(t) ==
    /\ t \notin PaykitTasks
    /\ status[t] = "absent"
    /\ cutoff = "none"
    /\ status' = [status EXCEPT ![t] = "pending"]
    /\ phase' = [phase EXCEPT ![t] = "ready"]
    /\ due' = [due EXCEPT ![t] = TRUE]
    /\ UNCHANGED <<startedAt, claimToken, lease, late, entitlement, attached>>
    /\ UNCHANGED <<deletionVars, externalVars, worker, admitter, lastToken, faults>>

insert_invoice_pending_task(t) ==
    /\ t \in PaykitTasks
    /\ status[t] = "absent"
    /\ cutoff = "none"
    /\ status' = [status EXCEPT ![t] = "pending"]
    /\ phase' = [phase EXCEPT ![t] = "invoice_pending"]
    /\ due' = [due EXCEPT ![t] = TRUE]
    /\ UNCHANGED <<startedAt, claimToken, lease, late, entitlement, attached>>
    /\ UNCHANGED <<deletionVars, externalVars, worker, admitter, lastToken, faults>>

-----------------------------------------------------------------------------
(***************************************************************************)
(* The claim fence.  Every write of a worker names the token it was given  *)
(* and requires that the lease it came with has not expired.               *)
(***************************************************************************)
\* Mutant: the fence compares the lease only.
OwnsLiveClaim_any_token(t, token) == lease[t] = "live"

OwnsLiveClaim(t, token) == claimToken[t] = token /\ lease[t] = "live"

\* claim_token = fresh uuid, claim_expires_at = now + ttl, next_attempt_at = NULL
TakeClaim(t) ==
    /\ lastToken' = lastToken + 1
    /\ claimToken' = [claimToken EXCEPT ![t] = lastToken + 1]
    /\ lease' = [lease EXCEPT ![t] = "live"]
    /\ due' = [due EXCEPT ![t] = TRUE]

ClearClaim(t) ==
    /\ claimToken' = [claimToken EXCEPT ![t] = 0]
    /\ lease' = [lease EXCEPT ![t] = "none"]

-----------------------------------------------------------------------------
(***************************************************************************)
(* Invoice admission of Paykit tasks.                                      *)
(***************************************************************************)
claim_next_invoice_admission(i, t) ==
    /\ admitter[i].step = "idle"
    /\ phase[t] = "invoice_pending"
    /\ status[t] = "pending"
    /\ due[t] /\ lease[t] # "live"
    /\ TakeClaim(t)
    /\ admitter' = [admitter EXCEPT ![i] =
           [step |-> IF late[t] THEN "fail" ELSE "create_invoice",
            task |-> t, token |-> lastToken + 1, payload |-> 0]]
    /\ UNCHANGED <<status, phase, startedAt, late, entitlement, attached>>
    /\ UNCHANGED <<deletionVars, externalVars, worker, faults>>

\* POST to Paykit, idempotent in the task id.  A transport error or a 5xx may
\* follow an invoice that Paykit did create; a definite refusal does not.
create_invoice(i) ==
    /\ admitter[i].step = "create_invoice"
    /\ LET t == admitter[i].task IN
       \/ /\ invoices' = [invoices EXCEPT ![t] = TRUE]
          /\ admitter' = [admitter EXCEPT ![i].step = "ready"]
          /\ NoFault
       \/ /\ invoices' \in {invoices, [invoices EXCEPT ![t] = TRUE]}
          /\ admitter' = [admitter EXCEPT ![i].step = "retry"]
          /\ Fault
       \/ /\ admitter' = [admitter EXCEPT ![i].step = "fail"]
          /\ UNCHANGED invoices
          /\ NoFault
    /\ UNCHANGED <<taskVars, deletionVars, bundles, worker, lastToken>>

\* The late answer of a claim that is still live is accepted after the
\* admission deadline as well.
mark_invoice_admission_ready(i) ==
    /\ admitter[i].step = "ready"
    /\ LET t == admitter[i].task IN
       IF phase[t] = "invoice_pending" /\ status[t] = "pending"
          /\ OwnsLiveClaim(t, admitter[i].token)
       THEN /\ phase' = [phase EXCEPT ![t] = "ready"]
            /\ due' = [due EXCEPT ![t] = TRUE]
            /\ ClearClaim(t)
       ELSE UNCHANGED <<phase, due, claimToken, lease>>
    /\ admitter' = [admitter EXCEPT ![i] = Idle]
    /\ UNCHANGED <<status, startedAt, late, entitlement, attached>>
    /\ UNCHANGED <<deletionVars, externalVars, worker, lastToken, faults>>

\* After the deadline no row matches: the claim stays until its lease expires
\* and the next claim finds the admission late.
schedule_invoice_admission_retry(i) ==
    /\ admitter[i].step = "retry"
    /\ LET t == admitter[i].task IN
       IF phase[t] = "invoice_pending" /\ status[t] = "pending"
          /\ OwnsLiveClaim(t, admitter[i].token) /\ ~late[t]
       THEN /\ due' = [due EXCEPT ![t] = FALSE]
            /\ ClearClaim(t)
       ELSE UNCHANGED <<due, claimToken, lease>>
    /\ admitter' = [admitter EXCEPT ![i] = Idle]
    /\ UNCHANGED <<status, phase, startedAt, late, entitlement, attached>>
    /\ UNCHANGED <<deletionVars, externalVars, worker, lastToken, faults>>

mark_invoice_admission_failed(i) ==
    /\ admitter[i].step = "fail"
    /\ LET t == admitter[i].task IN
       IF phase[t] = "invoice_pending" /\ status[t] = "pending"
          /\ OwnsLiveClaim(t, admitter[i].token)
       THEN /\ phase' = [phase EXCEPT ![t] = "failed"]
            /\ status' = [status EXCEPT ![t] = "failed"]
            /\ startedAt' = [startedAt EXCEPT ![t] = "set"]
            /\ due' = [due EXCEPT ![t] = TRUE]
            /\ ClearClaim(t)
       ELSE UNCHANGED <<phase, status, startedAt, due, claimToken, lease>>
    /\ admitter' = [admitter EXCEPT ![i] = Idle]
    /\ UNCHANGED <<late, entitlement, attached>>
    /\ UNCHANGED <<deletionVars, externalVars, worker, lastToken, faults>>

-----------------------------------------------------------------------------
(***************************************************************************)
(* Verification.                                                           *)
(***************************************************************************)
\* Mutants: an expired claim on a publishing task, or on a task in progress, is
\* not taken over; a task whose invoice is not admitted is claimed.
Claimable_not_publishing(t) ==
    /\ \/ status[t] = "pending" /\ due[t]
       \/ status[t] = "in_progress" /\ lease[t] = "expired"
    /\ phase[t] = "ready" /\ ~attached[t]

Claimable_not_in_progress(t) ==
    /\ \/ status[t] = "pending" /\ due[t]
       \/ status[t] = "publishing_entitlement" /\ lease[t] = "expired"
    /\ phase[t] = "ready" /\ ~attached[t]

Claimable_not_admitted(t) ==
    /\ \/ status[t] = "pending" /\ due[t]
       \/ status[t] \in {"in_progress", "publishing_entitlement"} /\ lease[t] = "expired"
    /\ ~attached[t]

\* The WHERE clause of the claim.
Claimable(t) ==
    /\ \/ status[t] = "pending" /\ due[t]
       \/ status[t] \in {"in_progress", "publishing_entitlement"} /\ lease[t] = "expired"
    /\ phase[t] = "ready" /\ ~attached[t]

\* Mutant: a resumed publication evaluates the entitlement again.
StartClaimed_reevaluates(t, token) ==
    [step |-> IF status[t] = "publishing_entitlement" THEN "probe" ELSE "evaluate",
     task |-> t, token |-> token, payload |-> token]

\* A claimed publishing task resumes its persisted payload, any other one is
\* evaluated.
StartClaimed(t, token) ==
    [step |-> IF status[t] = "publishing_entitlement" THEN "probe" ELSE "evaluate",
     task |-> t, token |-> token, payload |-> entitlement[t]]

claim_next_verification_task(w, t) ==
    /\ worker[w].step = "idle"
    /\ Claimable(t)
    /\ TakeClaim(t)
    /\ status' = [status EXCEPT ![t] = IF @ = "pending" THEN "in_progress" ELSE @]
    /\ startedAt' = [startedAt EXCEPT ![t] = "set"]
    /\ worker' = [worker EXCEPT ![w] = StartClaimed(t, lastToken + 1)]
    /\ UNCHANGED <<phase, late, entitlement, attached>>
    /\ UNCHANGED <<deletionVars, externalVars, admitter, faults>>

\* get_content_lock, the identity check, verify_criteria and
\* evaluate_entitlement: reads only, and a decision.  An unreadable lock or a
\* verifier error fails the task; "not yet" schedules a retry; a storage error
\* of the lock read leaves the claim to its lease.
Verify(w) ==
    /\ worker[w].step = "evaluate"
    /\ \/ /\ worker' = [worker EXCEPT ![w].step = "fail"]
          /\ NoFault
       \/ /\ lockPublic
          /\ \E decision \in {"begin", "expire"} :
                worker' = [worker EXCEPT ![w].step = decision]
          /\ NoFault
       \/ /\ lockPublic
          /\ worker' = [worker EXCEPT ![w].step = "retry"]
          /\ Fault
    /\ UNCHANGED <<taskVars, deletionVars, externalVars, admitter, lastToken>>

\* Mutant: started_at is not reset with the status.
schedule_verification_task_retry_keeps_start(w) ==
    /\ worker[w].step = "retry"
    /\ LET t == worker[w].task IN
       IF status[t] = "in_progress" /\ OwnsLiveClaim(t, worker[w].token) /\ ~attached[t]
       THEN /\ status' = [status EXCEPT ![t] = "pending"]
            /\ due' = [due EXCEPT ![t] = FALSE]
            /\ ClearClaim(t)
       ELSE UNCHANGED <<status, due, claimToken, lease>>
    /\ worker' = [worker EXCEPT ![w] = Idle]
    /\ UNCHANGED <<phase, startedAt, late, entitlement, attached>>
    /\ UNCHANGED <<deletionVars, externalVars, admitter, lastToken, faults>>

schedule_verification_task_retry(w) ==
    /\ worker[w].step = "retry"
    /\ LET t == worker[w].task IN
       IF status[t] = "in_progress" /\ OwnsLiveClaim(t, worker[w].token) /\ ~attached[t]
       THEN /\ status' = [status EXCEPT ![t] = "pending"]
            /\ startedAt' = [startedAt EXCEPT ![t] = "null"]
            /\ due' = [due EXCEPT ![t] = FALSE]
            /\ ClearClaim(t)
       ELSE UNCHANGED <<status, startedAt, due, claimToken, lease>>
    /\ worker' = [worker EXCEPT ![w] = Idle]
    /\ UNCHANGED <<phase, late, entitlement, attached>>
    /\ UNCHANGED <<deletionVars, externalVars, admitter, lastToken, faults>>

\* Mutant: the decision is stored under its own name, which no status has.
PersistUnsatisfied_raw(w) ==
    /\ worker[w].step \in {"fail", "expire"}
    /\ LET t == worker[w].task IN
       IF status[t] = "in_progress" /\ OwnsLiveClaim(t, worker[w].token) /\ ~attached[t]
       THEN /\ status' = [status EXCEPT ![t] = worker[w].step]
            /\ ClearClaim(t)
       ELSE UNCHANGED <<status, claimToken, lease>>
    /\ worker' = [worker EXCEPT ![w] = Idle]
    /\ UNCHANGED <<phase, startedAt, due, late, entitlement, attached>>
    /\ UNCHANGED <<deletionVars, externalVars, admitter, lastToken, faults>>

\* persist_claimed_verification_task_transition to failed or expired.  started_at
\* is written back as the claim returned it.
PersistUnsatisfied(w) ==
    /\ worker[w].step \in {"fail", "expire"}
    /\ LET t == worker[w].task IN
       IF status[t] = "in_progress" /\ OwnsLiveClaim(t, worker[w].token) /\ ~attached[t]
       THEN /\ status' = [status EXCEPT ![t] =
                   IF worker[w].step = "fail" THEN "failed" ELSE "expired"]
            /\ ClearClaim(t)
       ELSE UNCHANGED <<status, claimToken, lease>>
    /\ worker' = [worker EXCEPT ![w] = Idle]
    /\ UNCHANGED <<phase, startedAt, due, late, entitlement, attached>>
    /\ UNCHANGED <<deletionVars, externalVars, admitter, lastToken, faults>>

\* persist_claimed_verification_task_transition to publishing_entitlement: the
\* exact bytes to publish are made durable and the claim is kept.  Each attempt
\* evaluates anew (verified_at), so its payload is named by its token.
begin_entitlement_publication(w) ==
    /\ worker[w].step = "begin"
    /\ LET t == worker[w].task IN
       IF status[t] = "in_progress" /\ OwnsLiveClaim(t, worker[w].token) /\ ~attached[t]
       THEN /\ status' = [status EXCEPT ![t] = "publishing_entitlement"]
            /\ entitlement' = [entitlement EXCEPT ![t] = worker[w].token]
            /\ worker' = [worker EXCEPT ![w] =
                   [step |-> "probe", task |-> t,
                    token |-> worker[w].token, payload |-> worker[w].token]]
       ELSE /\ worker' = [worker EXCEPT ![w] = Idle]
            /\ UNCHANGED <<status, entitlement>>
    /\ UNCHANGED <<phase, startedAt, due, late, attached, claimToken, lease>>
    /\ UNCHANGED <<deletionVars, externalVars, admitter, lastToken, faults>>

\* insert_verified_proof_bundle reads the path first and writes only if it is
\* empty.  A failed read ends the insert; the outcome is settled by read-back.
ProbeBundle(w) ==
    /\ worker[w].step = "probe"
    /\ \/ /\ worker' = [worker EXCEPT ![w].step =
                 IF bundles[worker[w].task] = 0 THEN "put" ELSE "read_back"]
          /\ NoFault
       \/ /\ worker' = [worker EXCEPT ![w].step = "read_back"]
          /\ Fault
    /\ UNCHANGED <<taskVars, deletionVars, externalVars, admitter, lastToken>>

\* A PUT that reports an error may have been applied.
PutBundle(w) ==
    /\ worker[w].step = "put"
    /\ \/ /\ bundles' = [bundles EXCEPT ![worker[w].task] = worker[w].payload]
          /\ NoFault
       \/ /\ bundles' \in {bundles, [bundles EXCEPT ![worker[w].task] = worker[w].payload]}
          /\ Fault
    /\ worker' = [worker EXCEPT ![w].step = "read_back"]
    /\ UNCHANGED <<taskVars, deletionVars, invoices, admitter, lastToken>>

\* Mutant: success is reported without comparing what was read back.
ReadBackBundle_trusting(w) ==
    /\ worker[w].step = "read_back"
    /\ worker' = [worker EXCEPT ![w].step = "complete"]
    /\ UNCHANGED <<taskVars, deletionVars, externalVars, admitter, lastToken, faults>>

\* Two evaluations of a task differ in verified_at only, which the comparison
\* leaves out: any bundle stored for the task counts, a missing one does not.
same_entitlement_decision(stored, payload) == stored # 0 /\ payload # 0

\* The stored bundle must hold the payload's decision; otherwise the task stays
\* publishing until its lease expires, as it does when the read fails
\* (WorkerStops).
ReadBackBundle(w) ==
    /\ worker[w].step = "read_back"
    /\ worker' = [worker EXCEPT ![w] =
           IF same_entitlement_decision(bundles[worker[w].task], worker[w].payload)
           THEN [worker[w] EXCEPT !.step = "complete"] ELSE Idle]
    /\ UNCHANGED <<taskVars, deletionVars, externalVars, admitter, lastToken, faults>>

complete_entitlement_publication(w) ==
    /\ worker[w].step = "complete"
    /\ LET t == worker[w].task IN
       IF status[t] = "publishing_entitlement" /\ OwnsLiveClaim(t, worker[w].token)
          /\ ~attached[t]
       THEN /\ status' = [status EXCEPT ![t] = "completed"]
            /\ ClearClaim(t)
       ELSE UNCHANGED <<status, claimToken, lease>>
    /\ worker' = [worker EXCEPT ![w] = Idle]
    /\ UNCHANGED <<phase, startedAt, due, late, entitlement, attached>>
    /\ UNCHANGED <<deletionVars, externalVars, admitter, lastToken, faults>>

-----------------------------------------------------------------------------
(***************************************************************************)
(* What content-lock deletion does to the table.  PaymentDrain splits the  *)
(* cutoff into its statements and models the deletion worker, its claim    *)
(* and its snapshot; its steps are steps of this module.                   *)
(***************************************************************************)
Submitted == {t \in Tasks : status[t] # "absent"}

\* The cutoff refuses while an entitlement is being published, then takes the
\* lock's tasks away from the verification workers: active ones go back to
\* pending without a claim, except that an invoice admission keeps its claim and
\* its schedule.
insert_job ==
    /\ cutoff = "none"
    /\ \A t \in Tasks : status[t] # "publishing_entitlement"
    /\ cutoff' = "job"
    /\ attached' = [t \in Tasks |-> t \in Submitted]
    /\ status' = [t \in Tasks |-> IF status[t] = "in_progress" THEN "pending" ELSE status[t]]
    /\ startedAt' = [t \in Tasks |->
           IF status[t] \in {"pending", "in_progress"} THEN "null" ELSE startedAt[t]]
    /\ claimToken' = [t \in Tasks |-> IF phase[t] = "invoice_pending" THEN claimToken[t] ELSE 0]
    /\ lease' = [t \in Tasks |-> IF phase[t] = "invoice_pending" THEN lease[t] ELSE "none"]
    /\ due' = [t \in Tasks |-> IF phase[t] = "invoice_pending" THEN due[t] ELSE TRUE]
    /\ UNCHANGED <<phase, late, entitlement, lockPublic>>
    /\ UNCHANGED <<externalVars, worker, admitter, lastToken, faults>>

\* Forced deletion without a job only leaves a receipt, which closes admission.
prepare_force_deletion ==
    /\ cutoff = "none"
    /\ cutoff' = "receipt"
    /\ UNCHANGED <<taskVars, lockPublic, externalVars, worker, admitter, lastToken, faults>>

\* The public lock is replaced by a tombstone or deleted.
withdraw_content_lock ==
    /\ cutoff # "none"
    /\ lockPublic
    /\ lockPublic' = FALSE
    /\ UNCHANGED <<taskVars, cutoff, externalVars, worker, admitter, lastToken, faults>>

\* The drain closes what needs no payment: unfinished tasks without a Paykit
\* proof expire with the lock.  Their claims are NULL since the cutoff.
expire_unresolved_non_paykit_tasks ==
    /\ cutoff = "job"
    /\ LET unresolved == {t \in Tasks \ PaykitTasks :
                             attached[t] /\ status[t] \in {"pending", "in_progress"}}
       IN  /\ status' = [t \in Tasks |-> IF t \in unresolved THEN "expired" ELSE status[t]]
           /\ startedAt' = [t \in Tasks |-> IF t \in unresolved THEN "set" ELSE startedAt[t]]
    /\ UNCHANGED <<phase, claimToken, lease, due, late, entitlement, attached>>
    /\ UNCHANGED <<deletionVars, externalVars, worker, admitter, lastToken, faults>>

\* A payment that satisfies the frozen rule is published by the drain, from a
\* payload it makes durable first, exactly as a worker does.  A job only reaches
\* the payment phases once no admission of the lock is pending.
drain_begin_entitlement_publication(t) ==
    /\ cutoff = "job" /\ attached[t]
    /\ t \in PaykitTasks /\ phase[t] = "ready"
    /\ status[t] \in {"pending", "in_progress"} /\ entitlement[t] = 0
    /\ lastToken' = lastToken + 1
    /\ status' = [status EXCEPT ![t] = "publishing_entitlement"]
    /\ startedAt' = [startedAt EXCEPT ![t] = "set"]
    /\ entitlement' = [entitlement EXCEPT ![t] = lastToken + 1]
    /\ UNCHANGED <<phase, claimToken, lease, due, late, attached>>
    /\ UNCHANGED <<deletionVars, externalVars, worker, admitter, faults>>

\* A drain worker may be stalled between its read and its PUT for any time.
DrainPutBundle(t) ==
    /\ cutoff # "none"
    /\ t \in PaykitTasks /\ entitlement[t] # 0
    /\ bundles' = [bundles EXCEPT ![t] = entitlement[t]]
    /\ UNCHANGED <<taskVars, deletionVars, invoices, worker, admitter, lastToken, faults>>

\* persist_terminal_obligation to completed
DrainComplete(t) ==
    /\ cutoff = "job" /\ attached[t]
    /\ t \in PaykitTasks /\ status[t] = "publishing_entitlement"
    /\ bundles[t] = entitlement[t]
    /\ status' = [status EXCEPT ![t] = "completed"]
    /\ UNCHANGED <<phase, startedAt, claimToken, lease, due, late, entitlement, attached>>
    /\ UNCHANGED <<deletionVars, externalVars, worker, admitter, lastToken, faults>>

\* Mutant: the row is expired whatever its status is.
DrainExpire_any_status(t) ==
    /\ cutoff = "job" /\ attached[t]
    /\ t \in PaykitTasks /\ phase[t] = "ready"
    /\ status' = [status EXCEPT ![t] = "expired"]
    /\ startedAt' = [startedAt EXCEPT ![t] = "set"]
    /\ UNCHANGED <<phase, claimToken, lease, due, late, entitlement, attached>>
    /\ UNCHANGED <<deletionVars, externalVars, worker, admitter, lastToken, faults>>

\* persist_terminal_obligation to expired
DrainExpire(t) ==
    /\ cutoff = "job" /\ attached[t]
    /\ t \in PaykitTasks /\ phase[t] = "ready"
    /\ status[t] \in {"pending", "in_progress"} /\ entitlement[t] = 0
    /\ status' = [status EXCEPT ![t] = "expired"]
    /\ startedAt' = [startedAt EXCEPT ![t] = "set"]
    /\ UNCHANGED <<phase, claimToken, lease, due, late, entitlement, attached>>
    /\ UNCHANGED <<deletionVars, externalVars, worker, admitter, lastToken, faults>>

\* A forced job ends as a receipt and hands its unfinished tasks back; it is not
\* forced while the drain is publishing.
complete_force_deletion ==
    /\ cutoff = "job"
    /\ ~lockPublic
    /\ \A t \in Tasks : attached[t] => status[t] # "publishing_entitlement"
    /\ cutoff' = "receipt"
    /\ attached' = [t \in Tasks |-> FALSE]
    /\ UNCHANGED <<status, phase, startedAt, claimToken, lease, due, late, entitlement, lockPublic>>
    /\ UNCHANGED <<externalVars, worker, admitter, lastToken, faults>>

-----------------------------------------------------------------------------
(***************************************************************************)
(* Time and failures.                                                      *)
(***************************************************************************)
Abandoned(t) ==
    /\ \A w \in Workers : worker[w].task = t => worker[w].token # claimToken[t]
    /\ \A i \in InvoiceWorkers : admitter[i].task = t => admitter[i].token # claimToken[t]

\* A lease runs out on a worker that is still busy (a fault) or on one that is gone.
LeaseExpires(t) ==
    /\ lease[t] = "live"
    /\ lease' = [lease EXCEPT ![t] = "expired"]
    /\ IF Abandoned(t) THEN NoFault ELSE Fault
    /\ UNCHANGED <<status, phase, startedAt, claimToken, due, late, entitlement, attached>>
    /\ UNCHANGED <<deletionVars, externalVars, worker, admitter, lastToken>>

RetryDue(t) ==
    /\ ~due[t]
    /\ due' = [due EXCEPT ![t] = TRUE]
    /\ UNCHANGED <<status, phase, startedAt, claimToken, lease, late, entitlement, attached>>
    /\ UNCHANGED <<deletionVars, externalVars, worker, admitter, lastToken, faults>>

\* An admission retry is never scheduled beyond the deadline, so passing it makes
\* the task due.
AdmissionDeadlinePasses(t) ==
    /\ phase[t] = "invoice_pending"
    /\ ~late[t]
    /\ late' = [late EXCEPT ![t] = TRUE]
    /\ due' = [due EXCEPT ![t] = TRUE]
    /\ UNCHANGED <<status, phase, startedAt, claimToken, lease, entitlement, attached>>
    /\ UNCHANGED <<deletionVars, externalVars, worker, admitter, lastToken, faults>>

\* The process dies, or a storage error ends the tick: the claim stays in the row.
WorkerStops(w) ==
    /\ worker[w].step # "idle"
    /\ worker' = [worker EXCEPT ![w] = Idle]
    /\ Fault
    /\ UNCHANGED <<taskVars, deletionVars, externalVars, admitter, lastToken>>

AdmitterStops(i) ==
    /\ admitter[i].step # "idle"
    /\ admitter' = [admitter EXCEPT ![i] = Idle]
    /\ Fault
    /\ UNCHANGED <<taskVars, deletionVars, externalVars, worker, lastToken>>

-----------------------------------------------------------------------------
AdmitterStep(i) ==
    \/ create_invoice(i)
    \/ mark_invoice_admission_ready(i)
    \/ schedule_invoice_admission_retry(i)
    \/ mark_invoice_admission_failed(i)

WorkerStep(w) ==
    \/ Verify(w)
    \/ schedule_verification_task_retry(w)
    \/ PersistUnsatisfied(w)
    \/ begin_entitlement_publication(w)
    \/ ProbeBundle(w)
    \/ PutBundle(w)
    \/ ReadBackBundle(w)
    \/ complete_entitlement_publication(w)

TaskStep(t) ==
    \/ insert_verification_task(t)
    \/ insert_invoice_pending_task(t)
    \/ \E i \in InvoiceWorkers : claim_next_invoice_admission(i, t)
    \/ \E w \in Workers : claim_next_verification_task(w, t)
    \/ drain_begin_entitlement_publication(t)
    \/ DrainPutBundle(t)
    \/ DrainComplete(t)
    \/ DrainExpire(t)
    \/ LeaseExpires(t)
    \/ RetryDue(t)
    \/ AdmissionDeadlinePasses(t)

Next ==
    \/ \E t \in Tasks : TaskStep(t)
    \/ \E i \in InvoiceWorkers : AdmitterStep(i) \/ AdmitterStops(i)
    \/ \E w \in Workers : WorkerStep(w) \/ WorkerStops(w)
    \/ insert_job
    \/ prepare_force_deletion
    \/ withdraw_content_lock
    \/ expire_unresolved_non_paykit_tasks
    \/ complete_force_deletion

Spec == Init /\ [][Next]_vars

\* The worker loops keep polling and a claimed task is worked on; time passes.
Fairness ==
    /\ \A t \in Tasks :
          /\ WF_vars(\E w \in Workers : claim_next_verification_task(w, t))
          /\ WF_vars(\E i \in InvoiceWorkers : claim_next_invoice_admission(i, t))
          /\ WF_vars(Abandoned(t) /\ LeaseExpires(t))
          /\ WF_vars(RetryDue(t))
    /\ \A w \in Workers : WF_vars(WorkerStep(w))
    /\ \A i \in InvoiceWorkers : WF_vars(AdmitterStep(i))

FairSpec == Spec /\ Fairness

-----------------------------------------------------------------------------
(***************************************************************************)
(* Properties.                                                             *)
(***************************************************************************)
Publishing(w) == worker[w].step \in PublishSteps

\* Whatever workers crash, stall past their lease or run twice, the bundle on
\* the homeserver is byte for byte the payload the task row made durable before
\* the first write, and only a publishing or completed task has one
\* (publish_entitlement_and_complete replays the persisted payload).
PublishedIsPersisted ==
    \A t \in Tasks : bundles[t] # 0 =>
        /\ bundles[t] = entitlement[t]
        /\ status[t] \in {"publishing_entitlement", "completed"}

\* No statement runs into what the CHECK constraints verification_tasks_state_check
\* and verification_tasks_invoice_admission_check say of started_at, the payload,
\* the claim and the admission phase, which would turn a legal step of a worker
\* into a storage error: a start time from the first claim on and none on a row
\* that was handed back, a payload exactly while publishing or completed, a claim
\* only on active rows, and on a pending row only during its admission.
RowsSatisfyChecks ==
    \A t \in Tasks :
        /\ startedAt[t] = "null" <=> status[t] \in {"absent", "pending"}
        /\ entitlement[t] # 0 <=> status[t] \in {"publishing_entitlement", "completed"}
        /\ claimToken[t] = 0 <=> lease[t] = "none"
        /\ status[t] \in Terminal \cup {"absent"} => lease[t] = "none"
        /\ status[t] = "pending" /\ phase[t] # "invoice_pending" => lease[t] = "none"
        /\ phase[t] = "invoice_pending" => status[t] = "pending"
        /\ phase[t] = "failed" => status[t] = "failed"

\* A completed task has its exact payload on the homeserver, although the read-back
\* compares decisions and not bytes: no worker reports success for a bundle that
\* was never stored.
CompletedIsPublished ==
    \A t \in Tasks : status[t] = "completed" => bundles[t] = entitlement[t] /\ bundles[t] # 0

\* As long as a worker's lease lives and deletion has not taken the task, no
\* other worker, late retry or stale write moves the task under it: the row still
\* has the status the worker's next fenced write expects.
LiveClaimIsExclusive ==
    \A w \in Workers, t \in Tasks :
        (worker[w].task = t /\ claimToken[t] = worker[w].token
         /\ lease[t] = "live" /\ ~attached[t]) =>
            /\ status[t] = IF Publishing(w) THEN "publishing_entitlement" ELSE "in_progress"
            /\ Publishing(w) => worker[w].payload = entitlement[t]

\* A Paykit task is never evaluated, and never grants access, before Paykit holds
\* its invoice, even though the answer that said so may come from a retry, a
\* restarted worker or after the admission deadline.
AdmittedBeforeVerified ==
    \A t \in PaykitTasks :
        status[t] \in {"in_progress", "publishing_entitlement", "completed", "expired"} => invoices[t]

\* Terminal statuses are final, and a task that began publishing can only complete:
\* it is never handed back, failed or expired, by a worker or by the cutoff.
OutcomeStands ==
    \A t \in Tasks :
        /\ status[t] \in Terminal => status'[t] = status[t]
        /\ status[t] = "publishing_entitlement" =>
              status'[t] \in {"publishing_entitlement", "completed"}

OutcomeIsFinal == [][OutcomeStands]_vars

\* Every admitted task is decided unless deletion takes it.
EveryTaskDecided ==
    \A t \in Tasks : status[t] = "pending" ~> (status[t] \in Terminal \/ attached[t])

\* A publication a worker made durable is always carried out, across crashes: an
\* expired claim on it is taken over and its payload replayed.
PublicationCompletes ==
    \A t \in Tasks :
        (status[t] = "publishing_entitlement" /\ ~attached[t]) ~> status[t] = "completed"

=============================================================================
