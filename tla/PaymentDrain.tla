---------------------------- MODULE PaymentDrain ----------------------------
(***************************************************************************)
(* Graceful deletion of a content lock up to the point where its payments  *)
(* are drained, and its escalation to a forced deletion.  The module adds  *)
(* to VerificationTasks the statements of the cutoff transaction, the      *)
(* snapshot of the lock's tasks, the deletion job with its claim, the      *)
(* deletion workers that run it and the payment drain kept by Paykit.      *)
(*                                                                         *)
(* The tasks are the variables of VerificationTasks and every step of this *)
(* module is a step of that module or leaves its variables alone.          *)
(*                                                                         *)
(* A deletion worker runs one claim at a time, so the token in the job row *)
(* is its token exactly when job.claim names it.                           *)
(***************************************************************************)
EXTENDS VerificationTasks

CONSTANTS
    DeletionWorkers,   \* deletion worker loops
    MaxDrainFaults     \* bound on failed calls, lost leases and crashes of deletion

ASSUME MaxDrainFaultsAssumption == MaxDrainFaults \in Nat

NoWorker == "no worker"

VARIABLES
    tx,             \* the statement the cutoff transaction has reached
    snapshot,       \* content_lock_deletion_task_snapshot.status_at_cutoff
    resolved,       \* resolved_status
    hadCredential,  \* had_active_credential_at_cutoff
    eligible,       \* final_credential_eligible_at is not NULL
    job,            \* the row of content_lock_deletion_jobs
    receipt,        \* a force receipt exists next to a failed job
    drainRow,       \* content_lock_payment_drains.status
    draining,       \* Paykit holds a drain for the lock
    pay,            \* what Paykit says of each invoice
    drainer,        \* what each deletion worker is doing
    drainFaults

snapshotVars == <<tx, snapshot, resolved, hadCredential, eligible>>
jobVars == <<job, receipt, drainRow>>
paykitVars == <<draining, pay>>
drainVars == <<snapshotVars, jobVars, paykitVars, drainer, drainFaults>>
dvars == <<vars, drainVars>>

JobPhase == {"withdraw", "start_payment_drain", "drain_payments", "drain_existing_credentials"}

NoJob == [state |-> "none", phase |-> "withdraw", claim |-> NoWorker,
          lease |-> "none", forced |-> FALSE]

\* seen: status and payload of each obligation when the worker listed them.
NothingSeen == [t \in Tasks |-> [status |-> "absent", payload |-> 0]]

DrainIdle == [step |-> "idle", task |-> NoTask, payload |-> 0, replay |-> FALSE,
              todo |-> {}, summary |-> "none", seen |-> NothingSeen]

PhaseSteps == {"withdraw", "start_payment_drain", "drain_payments"}
DrainSteps == {"paykit_start", "store", "list", "drain_row", "replay", "lookup", "reconcile",
               "classify", "begin", "probe", "put", "read_back", "complete", "expire"}
EndSteps == {"advance", "defer", "retry", "exhausted", "corrupt", "force", "force_finish"}

DTypeOK ==
    /\ TypeOK
    /\ tx \in {"none", "checked", "frozen"}
    /\ snapshot \in [Tasks -> Status]
    /\ resolved \in [Tasks -> Terminal \cup {"none"}]
    /\ hadCredential \in [Tasks -> BOOLEAN]
    /\ eligible \in [Tasks -> BOOLEAN]
    /\ job \in [state : {"none", "queued", "running", "failed"}, phase : JobPhase,
                claim : DeletionWorkers \cup {NoWorker},
                lease : {"none", "live", "expired"}, forced : BOOLEAN]
    /\ receipt \in BOOLEAN
    /\ drainRow \in {"none", "active", "completed"}
    /\ draining \in BOOLEAN
    /\ pay \in [Tasks -> {"open", "matched", "paid", "lapsed", "unsupported"}]
    /\ drainer \in [DeletionWorkers ->
           [step : {"idle"} \cup PhaseSteps \cup DrainSteps \cup EndSteps,
            task : Tasks \cup {NoTask}, payload : Nat, replay : BOOLEAN,
            todo : SUBSET Tasks, summary : {"none", "active", "completed"},
            seen : [Tasks -> [status : Status, payload : Nat]]]]
    /\ drainFaults \in 0 .. MaxDrainFaults

NoSnapshot ==
    /\ snapshot' = [t \in Tasks |-> "absent"]
    /\ resolved' = [t \in Tasks |-> "none"]
    /\ hadCredential' = [t \in Tasks |-> FALSE]
    /\ eligible' = [t \in Tasks |-> FALSE]

DInit ==
    /\ Init
    /\ tx = "none"
    /\ snapshot = [t \in Tasks |-> "absent"]
    /\ resolved = [t \in Tasks |-> "none"]
    /\ hadCredential = [t \in Tasks |-> FALSE]
    /\ eligible = [t \in Tasks |-> FALSE]
    /\ job = NoJob
    /\ receipt = FALSE
    /\ drainRow = "none"
    /\ draining = FALSE
    /\ pay = [t \in Tasks |-> "open"]
    /\ drainer = [d \in DeletionWorkers |-> DrainIdle]
    /\ drainFaults = 0

DrainFault == drainFaults < MaxDrainFaults /\ drainFaults' = drainFaults + 1

-----------------------------------------------------------------------------
(***************************************************************************)
(* The cutoff transaction holds the admission lock of the content lock but *)
(* runs at READ COMMITTED: workers commit task rows between its            *)
(* statements.                                                             *)
(***************************************************************************)
\* The pre-checks and the INSERT of the job.
CutoffCheck ==
    /\ tx = "none" /\ cutoff = "none"
    /\ \A t \in Tasks : status[t] # "publishing_entitlement"
    /\ tx' = "checked"
    /\ UNCHANGED <<vars, snapshot, resolved, hadCredential, eligible, jobVars, paykitVars, drainFaults, drainer>>

\* Mutant: every snapshot row is resolved, whatever its status is.
CutoffSnapshot_resolves_all ==
    /\ tx = "checked"
    /\ tx' = "frozen"
    /\ snapshot' = status
    /\ resolved' = status
    /\ hadCredential' = [t \in Tasks |-> FALSE]
    /\ eligible' = [t \in Tasks |-> status[t] = "completed" /\ t \in PaykitTasks]
    /\ UNCHANGED <<vars, jobVars, paykitVars, drainFaults, drainer>>

\* INSERT ... SELECT of the snapshot with a plain read of the tasks, then the
\* credential flags and the resolution of what was already terminal.  Only a
\* published bundle can have a credential.
CutoffSnapshot ==
    /\ tx = "checked"
    /\ tx' = "frozen"
    /\ snapshot' = status
    /\ resolved' = [t \in Tasks |-> IF status[t] \in Terminal THEN status[t] ELSE "none"]
    /\ \E held \in SUBSET {t \in Tasks : bundles[t] # 0} :
          hadCredential' = [t \in Tasks |-> t \in held]
    /\ eligible' = [t \in Tasks |->
           status[t] = "completed" /\ t \in PaykitTasks /\ ~hadCredential'[t]]
    /\ UNCHANGED <<vars, jobVars, paykitVars, drainFaults, drainer>>

\* The UPDATE that takes the tasks, the last check for a publication and the commit.
CutoffCommit ==
    /\ tx = "frozen"
    /\ insert_job
    /\ tx' = "none"
    /\ job' = [NoJob EXCEPT !.state = "queued"]
    /\ UNCHANGED <<snapshot, resolved, hadCredential, eligible>>
    /\ UNCHANGED <<receipt, drainRow, paykitVars, drainFaults, drainer>>

\* A publication won the race, or the transaction was cut off: nothing is kept.
CutoffAbort ==
    /\ tx # "none"
    /\ \/ /\ tx = "frozen"
          /\ \E t \in Tasks : status[t] = "publishing_entitlement"
          /\ UNCHANGED drainFaults
       \/ DrainFault
    /\ tx' = "none"
    /\ NoSnapshot
    /\ UNCHANGED <<vars, jobVars, paykitVars, drainer>>

-----------------------------------------------------------------------------
(***************************************************************************)
(* Requests of the creator on an existing job, under the admission lock.   *)
(***************************************************************************)
Release(state) ==
    [job EXCEPT !.state = state, !.claim = NoWorker, !.lease = "none"]

DrainPublishing == \E t \in Tasks : attached[t] /\ status[t] = "publishing_entitlement"

\* Without a job the receipt alone closes admission.
force_without_job ==
    /\ tx = "none"
    /\ prepare_force_deletion
    /\ UNCHANGED drainVars

\* Mutant: force does not look for a publication.
force_with_job_any_time ==
    /\ tx = "none" /\ cutoff = "job" /\ ~receipt
    /\ \/ /\ job.state \in {"queued", "running"}
          /\ job' = [Release("queued") EXCEPT !.forced = TRUE]
          /\ UNCHANGED receipt
       \/ /\ job.state = "failed"
          /\ receipt' = TRUE
          /\ UNCHANGED job
    /\ UNCHANGED <<vars, snapshotVars, drainRow, paykitVars, drainFaults, drainer>>

\* An entitlement the drain is publishing is not cut off: an active job refuses,
\* a failed one is resumed without force.  Otherwise an active job is escalated
\* and a failed one is left behind under a receipt.
force_with_job ==
    /\ tx = "none" /\ cutoff = "job" /\ ~receipt
    /\ \/ /\ DrainPublishing /\ job.state = "failed"
          /\ job' = Release("queued")
          /\ UNCHANGED receipt
       \/ /\ ~DrainPublishing /\ job.state \in {"queued", "running"}
          /\ job' = [Release("queued") EXCEPT !.forced = TRUE]
          /\ UNCHANGED receipt
       \/ /\ ~DrainPublishing /\ job.state = "failed"
          /\ receipt' = TRUE
          /\ UNCHANGED job
    /\ UNCHANGED <<vars, snapshotVars, drainRow, paykitVars, drainFaults, drainer>>

resume_failed_job ==
    /\ tx = "none" /\ ~receipt
    /\ job.state = "failed"
    /\ job' = Release("queued")
    /\ UNCHANGED <<vars, snapshotVars, receipt, drainRow, paykitVars, drainFaults, drainer>>

\* The request that starts the deletion finds a foreign object at the lock path.
fail_graceful_withdrawal ==
    /\ job.state \in {"queued", "running"} /\ job.phase = "withdraw" /\ ~job.forced
    /\ job' = Release("failed")
    /\ DrainFault
    /\ UNCHANGED <<vars, snapshotVars, receipt, drainRow, paykitVars, drainer>>

\* The same request, or a synchronous forced deletion, takes the lock away.
withdraw_by_request ==
    /\ cutoff = "receipt" \/ receipt \/ (job.phase = "withdraw" /\ ~job.forced)
    /\ withdraw_content_lock
    /\ UNCHANGED drainVars

-----------------------------------------------------------------------------
(***************************************************************************)
(* The deletion worker: a claim of the job, the steps of its phase and one *)
(* write that gives the claim back.                                        *)
(***************************************************************************)
OwnsJob(d) == job.state = "running" /\ job.claim = d /\ job.lease = "live"

\* owns_live_drain_claim
OwnsDrain(d, p) == OwnsJob(d) /\ job.phase = p /\ ~job.forced

Goto(d, s) == drainer' = [drainer EXCEPT ![d].step = s]

\* Mutant: a job whose lease expired is not taken over.
claim_next_queued_only(d) ==
    /\ drainer[d].step = "idle"
    /\ job.state = "queued"
    /\ job.forced \/ job.phase \in PhaseSteps
    /\ job' = [job EXCEPT !.state = "running", !.claim = d, !.lease = "live"]
    /\ drainer' = [drainer EXCEPT ![d] =
           [DrainIdle EXCEPT !.step = IF job.forced THEN "force" ELSE job.phase]]
    /\ UNCHANGED <<vars, snapshotVars, receipt, drainRow, paykitVars, drainFaults>>

claim_next(d) ==
    /\ drainer[d].step = "idle"
    /\ job.state = "queued" \/ (job.state = "running" /\ job.lease = "expired")
    /\ job.forced \/ job.phase \in PhaseSteps
    /\ job' = [job EXCEPT !.state = "running", !.claim = d, !.lease = "live"]
    /\ drainer' = [drainer EXCEPT ![d] =
           [DrainIdle EXCEPT !.step = IF job.forced THEN "force" ELSE job.phase]]
    /\ UNCHANGED <<vars, snapshotVars, receipt, drainRow, paykitVars, drainFaults>>

\* The tombstone replaces the public lock, or is found in place; the homeserver
\* may be out of reach, or hold something else at the path.
withdraw_with_evidence(d) ==
    /\ drainer[d].step = "withdraw"
    /\ \/ /\ IF lockPublic THEN withdraw_content_lock ELSE UNCHANGED vars
          /\ Goto(d, "advance")
          /\ UNCHANGED drainFaults
       \/ /\ \E s \in {"retry", "corrupt"} : Goto(d, s)
          /\ DrainFault
          /\ UNCHANGED vars
    /\ UNCHANGED <<snapshotVars, jobVars, paykitVars>>

AfterExpiry(d) ==
    IF drainer[d].step = "drain_payments" THEN "list"
    ELSE IF \E t \in PaykitTasks : snapshot[t] # "absent" THEN "paykit_start" ELSE "advance"

\* Mutants: the snapshot is resolved without its tasks; the filter on tasks
\* without a Paykit proof is dropped.
ExpireNonPaykit_snapshot_only(d) ==
    /\ drainer[d].step \in {"start_payment_drain", "drain_payments"}
    /\ IF OwnsJob(d)
       THEN /\ resolved' = [t \in Tasks |->
                   IF t \notin PaykitTasks /\ snapshot[t] # "absent" /\ resolved[t] = "none"
                   THEN "expired" ELSE resolved[t]]
            /\ Goto(d, AfterExpiry(d))
       ELSE Goto(d, "defer") /\ UNCHANGED resolved
    /\ UNCHANGED <<vars, tx, snapshot, hadCredential, eligible, jobVars, paykitVars, drainFaults>>

ExpireNonPaykit_every_task(d) ==
    /\ drainer[d].step \in {"start_payment_drain", "drain_payments"}
    /\ IF OwnsJob(d)
       THEN /\ status' = [t \in Tasks |-> IF status[t] = "pending" THEN "expired" ELSE status[t]]
            /\ startedAt' = [t \in Tasks |-> IF status[t] = "pending" THEN "set" ELSE startedAt[t]]
            /\ resolved' = [t \in Tasks |->
                   IF snapshot[t] # "absent" /\ resolved[t] = "none" THEN "expired" ELSE resolved[t]]
            /\ UNCHANGED <<phase, claimToken, lease, due, late, entitlement, attached>>
            /\ UNCHANGED <<deletionVars, externalVars, worker, admitter, lastToken, faults>>
            /\ Goto(d, AfterExpiry(d))
       ELSE Goto(d, "defer") /\ UNCHANGED <<vars, resolved>>
    /\ UNCHANGED <<tx, snapshot, hadCredential, eligible, jobVars, paykitVars, drainFaults>>

\* Both payment phases begin by closing the tasks that need no payment.
ExpireNonPaykit(d) ==
    /\ drainer[d].step \in {"start_payment_drain", "drain_payments"}
    /\ IF OwnsJob(d)
       THEN /\ expire_unresolved_non_paykit_tasks
            /\ resolved' = [t \in Tasks |->
                   IF t \notin PaykitTasks /\ snapshot[t] # "absent" /\ resolved[t] = "none"
                   THEN "expired" ELSE resolved[t]]
            /\ Goto(d, AfterExpiry(d))
       ELSE Goto(d, "defer") /\ UNCHANGED <<vars, resolved>>
    /\ UNCHANGED <<tx, snapshot, hadCredential, eligible, jobVars, paykitVars, drainFaults>>

PaykitSummary ==
    IF \E t \in Tasks : invoices[t] /\ pay[t] = "open" THEN "active" ELSE "completed"

\* POST of the drain, idempotent; an error may follow a drain that was started.
start_payment_drain(d) ==
    /\ drainer[d].step = "paykit_start"
    /\ \/ /\ draining' = TRUE
          /\ drainer' = [drainer EXCEPT ![d].step = "store", ![d].summary = PaykitSummary]
          /\ UNCHANGED drainFaults
       \/ /\ draining' \in {draining, TRUE}
          /\ Goto(d, "retry")
          /\ DrainFault
    /\ UNCHANGED <<vars, snapshotVars, jobVars, pay>>

\* A stored drain that would go back from completed is a corrupt state.
store_payment_drain(d) ==
    /\ drainer[d].step = "store"
    /\ IF ~OwnsDrain(d, "start_payment_drain")
       THEN Goto(d, "defer") /\ UNCHANGED drainRow
       ELSE IF drainRow = "completed" /\ drainer[d].summary = "active"
       THEN Goto(d, "corrupt") /\ UNCHANGED drainRow
       ELSE drainRow' = drainer[d].summary /\ Goto(d, "advance")
    /\ UNCHANGED <<vars, snapshotVars, job, receipt, paykitVars, drainFaults>>

Obligations == {t \in PaykitTasks : snapshot[t] # "absent" /\ phase[t] # "failed"}

all_obligations_terminal ==
    \A t \in PaykitTasks :
        snapshot[t] = "absent" \/ resolved[t] # "none" \/ snapshot[t] \in Terminal

\* The obligations as the worker reads them; everything it decides later in the
\* tick uses this reading.
list_obligations(d) ==
    /\ drainer[d].step = "list"
    /\ drainer' = [drainer EXCEPT ![d].step = "drain_row",
           ![d].seen = [t \in Tasks |->
               IF t \in Obligations THEN [status |-> status[t], payload |-> entitlement[t]]
               ELSE NothingSeen[t]]]
    /\ UNCHANGED <<vars, snapshotVars, jobVars, paykitVars, drainFaults>>

\* Mutant: publications that were left behind are not taken up.
get_payment_drain_no_replay(d) ==
    /\ drainer[d].step = "drain_row"
    /\ LET seen == drainer[d].seen
       IN  drainer' = [drainer EXCEPT ![d].summary = drainRow,
               ![d].step =
                   IF seen = NothingSeen /\ drainRow # "active" THEN "advance"
                   ELSE IF seen # NothingSeen /\ drainRow = "none" THEN "corrupt"
                   ELSE IF drainRow = "completed" THEN "replay" ELSE "lookup"]
    /\ UNCHANGED <<vars, snapshotVars, jobVars, paykitVars, drainFaults>>

\* The drain row, read after the obligations, and where it sends the tick.
get_payment_drain(d) ==
    /\ drainer[d].step = "drain_row"
    /\ LET seen == drainer[d].seen
           publishing == {t \in Tasks : seen[t].status = "publishing_entitlement"}
       IN  drainer' = [drainer EXCEPT ![d].summary = drainRow, ![d].todo = publishing,
               ![d].step =
                   IF seen = NothingSeen /\ drainRow # "active" THEN "advance"
                   ELSE IF seen # NothingSeen /\ drainRow = "none" THEN "corrupt"
                   ELSE IF publishing # {} \/ drainRow = "completed" THEN "replay"
                   ELSE "lookup"]
    /\ UNCHANGED <<vars, snapshotVars, jobVars, paykitVars, drainFaults>>

\* A publication that a lost worker left behind is taken up with its payload.
\* A drain that was already complete ends here once nothing is open.
replay_publications(d) ==
    /\ drainer[d].step = "replay"
    /\ \/ \E t \in drainer[d].todo :
             drainer' = [drainer EXCEPT ![d] =
                 [@ EXCEPT !.step = "begin", !.task = t, !.replay = TRUE,
                           !.payload = drainer[d].seen[t].payload]]
       \/ /\ drainer[d].todo = {}
          /\ Goto(d, IF drainer[d].summary = "completed" /\ all_obligations_terminal
                     THEN "advance"
                     ELSE IF drainer[d].replay THEN "defer" ELSE "lookup")
    /\ UNCHANGED <<vars, snapshotVars, jobVars, paykitVars, drainFaults>>

\* An aggregate that went back from completed is a corrupt state.
lookup_payment_drain(d) ==
    /\ drainer[d].step = "lookup"
    /\ \/ /\ drainer' = [drainer EXCEPT ![d] =
                 [@ EXCEPT !.summary = PaykitSummary,
                           !.step = IF drainer[d].summary = "completed"
                                       /\ PaykitSummary = "active"
                                    THEN "corrupt" ELSE "reconcile"]]
          /\ UNCHANGED drainFaults
       \/ /\ Goto(d, "retry")
          /\ DrainFault
    /\ UNCHANGED <<vars, snapshotVars, jobVars, paykitVars>>

reconcile_payment_drain(d) ==
    /\ drainer[d].step = "reconcile"
    /\ IF /\ OwnsDrain(d, "drain_payments")
          /\ ~(drainRow = "completed" /\ drainer[d].summary = "active")
       THEN /\ drainRow' = drainer[d].summary
            /\ drainer' = [drainer EXCEPT ![d] =
                   [@ EXCEPT !.step = "classify",
                             !.todo = {t \in Tasks : drainer[d].seen[t].status
                                          \in {"pending", "in_progress"}}]]
       ELSE Goto(d, "defer") /\ UNCHANGED drainRow
    /\ UNCHANGED <<vars, snapshotVars, job, receipt, paykitVars, drainFaults>>

\* Mutant: a payment that is not confirmed yet counts as lapsed.
classify_payment_task_impatient(d) ==
    /\ drainer[d].step = "classify"
    /\ \/ \E t \in drainer[d].todo : drainer' = [drainer EXCEPT ![d] =
              CASE pay[t] = "paid" -> [@ EXCEPT !.step = "begin", !.task = t, !.replay = FALSE]
                [] pay[t] \in {"matched", "lapsed"} -> [@ EXCEPT !.step = "expire", !.task = t]
                [] pay[t] = "unsupported" -> [@ EXCEPT !.step = "corrupt"]
                [] OTHER -> [@ EXCEPT !.todo = @ \ {t}]]
       \/ /\ drainer[d].todo = {}
          /\ Goto(d, IF drainer[d].summary = "completed"
                        /\ (drainer[d].seen = NothingSeen \/ all_obligations_terminal)
                     THEN "advance" ELSE "defer")
    /\ UNCHANGED <<vars, snapshotVars, jobVars, paykitVars, drainFaults>>

\* One obligation after the other: what Paykit says of its payment now.
classify_payment_task(d) ==
    /\ drainer[d].step = "classify"
    /\ \/ /\ \E t \in drainer[d].todo : drainer' = [drainer EXCEPT ![d] =
                 CASE pay[t] = "paid" ->
                        [@ EXCEPT !.step = "begin", !.task = t, !.replay = FALSE]
                   [] pay[t] = "lapsed" -> [@ EXCEPT !.step = "expire", !.task = t]
                   [] pay[t] = "unsupported" -> [@ EXCEPT !.step = "corrupt"]
                   [] OTHER -> [@ EXCEPT !.todo = @ \ {t}]]
          /\ UNCHANGED drainFaults
       \/ /\ drainer[d].todo # {}
          /\ Goto(d, "retry")
          /\ DrainFault
       \/ /\ drainer[d].todo = {}
          /\ Goto(d, IF drainer[d].summary = "completed"
                        /\ (drainer[d].seen = NothingSeen \/ all_obligations_terminal)
                     THEN "advance" ELSE "defer")
          /\ UNCHANGED drainFaults
    /\ UNCHANGED <<vars, snapshotVars, jobVars, paykitVars>>

\* Mutant: a replay makes a new payload and stores it over the old one.
DrainBegin_overwrites(d) ==
    /\ drainer[d].step = "begin"
    /\ LET t == drainer[d].task IN
       IF OwnsDrain(d, "drain_payments") /\ resolved[t] = "none" /\ attached[t]
       THEN /\ status' = [status EXCEPT ![t] = "publishing_entitlement"]
            /\ entitlement' = [entitlement EXCEPT ![t] = lastToken + 1]
            /\ startedAt' = [startedAt EXCEPT ![t] = "set"]
            /\ lastToken' = lastToken + 1
            /\ UNCHANGED <<phase, claimToken, lease, due, late, attached>>
            /\ UNCHANGED <<deletionVars, externalVars, worker, admitter, faults>>
            /\ drainer' = [drainer EXCEPT ![d].step = "probe", ![d].payload = lastToken + 1]
       ELSE Goto(d, "defer") /\ UNCHANGED vars
    /\ UNCHANGED <<snapshotVars, jobVars, paykitVars, drainFaults>>

\* begin_entitlement_publication of the drain: a fresh payload is stored only on
\* a row without one; a replay needs the row to hold exactly its payload.  The
\* publication token is made, returned and cleared with the payload, so the
\* payload stands for both.
DrainBegin(d) ==
    /\ drainer[d].step = "begin"
    /\ LET t == drainer[d].task IN
       IF OwnsDrain(d, "drain_payments") /\ resolved[t] = "none" /\ attached[t]
          /\ IF drainer[d].replay
             THEN status[t] = "publishing_entitlement" /\ entitlement[t] = drainer[d].payload
             ELSE status[t] \in {"pending", "in_progress"} /\ entitlement[t] = 0
       THEN IF drainer[d].replay
            THEN Goto(d, "probe") /\ UNCHANGED vars
            ELSE /\ drain_begin_entitlement_publication(t)
                 /\ drainer' = [drainer EXCEPT ![d].step = "probe", ![d].payload = entitlement'[t]]
       ELSE Goto(d, "defer") /\ UNCHANGED vars
    /\ UNCHANGED <<snapshotVars, jobVars, paykitVars, drainFaults>>

\* persist_entitlement: write if absent, then read back and compare.
DrainProbe(d) ==
    /\ drainer[d].step = "probe"
    /\ \/ /\ Goto(d, IF bundles[drainer[d].task] = 0 THEN "put" ELSE "read_back")
          /\ UNCHANGED drainFaults
       \/ /\ Goto(d, "read_back")
          /\ DrainFault
    /\ UNCHANGED <<vars, snapshotVars, jobVars, paykitVars>>

DrainPut(d) ==
    /\ drainer[d].step = "put"
    /\ \/ /\ bundles' = [bundles EXCEPT ![drainer[d].task] = drainer[d].payload]
          /\ UNCHANGED drainFaults
       \/ /\ UNCHANGED bundles
          /\ DrainFault
    /\ Goto(d, "read_back")
    /\ UNCHANGED <<taskVars, deletionVars, invoices, worker, admitter, lastToken, faults>>
    /\ UNCHANGED <<snapshotVars, jobVars, paykitVars>>

\* What is stored must hold the payload's decision; a failed read is an error.
DrainReadBack(d) ==
    /\ drainer[d].step = "read_back"
    /\ \/ /\ Goto(d, IF same_entitlement_decision(bundles[drainer[d].task], drainer[d].payload)
                     THEN "complete" ELSE "retry")
          /\ UNCHANGED drainFaults
       \/ /\ Goto(d, "retry")
          /\ DrainFault
    /\ UNCHANGED <<vars, snapshotVars, jobVars, paykitVars>>

\* The next obligation of the tick.
NextObligation(d) ==
    drainer' = [drainer EXCEPT ![d] =
        [@ EXCEPT !.step = IF drainer[d].step = "complete" /\ drainer[d].replay
                           THEN "replay" ELSE "classify",
                  !.task = NoTask, !.payload = 0, !.todo = @ \ {drainer[d].task}]]

\* Mutant: only what was completed before the cutoff earns a final credential.
ResolveObligation_not_eligible(t, s) ==
    /\ resolved' = [resolved EXCEPT ![t] = s]
    /\ UNCHANGED eligible

ResolveObligation(t, s) ==
    /\ resolved' = [resolved EXCEPT ![t] = s]
    /\ eligible' = [eligible EXCEPT ![t] = s = "completed" /\ ~hadCredential[t]]

\* The task row and its snapshot row end in one transaction.
persist_terminal_obligation(d) ==
    /\ drainer[d].step \in {"complete", "expire"}
    /\ LET t == drainer[d].task
           s == IF drainer[d].step = "complete" THEN "completed" ELSE "expired"
       IN IF OwnsDrain(d, "drain_payments") /\ resolved[t] = "none" /\ attached[t]
             /\ IF s = "completed"
                THEN status[t] = "publishing_entitlement" /\ entitlement[t] = drainer[d].payload
                ELSE status[t] \in {"pending", "in_progress"} /\ entitlement[t] = 0
          THEN /\ status' = [status EXCEPT ![t] = s]
               /\ startedAt' = [startedAt EXCEPT ![t] = IF s = "expired" THEN "set" ELSE @]
               /\ ClearClaim(t)
               /\ due' = [due EXCEPT ![t] = TRUE]
               /\ UNCHANGED <<phase, late, entitlement, attached>>
               /\ UNCHANGED <<deletionVars, externalVars, worker, admitter, lastToken, faults>>
               /\ ResolveObligation(t, s)
               /\ NextObligation(d)
          ELSE Goto(d, "defer") /\ UNCHANGED <<vars, resolved, eligible>>
    /\ UNCHANGED <<tx, snapshot, hadCredential, jobVars, paykitVars, drainFaults>>

-----------------------------------------------------------------------------
(***************************************************************************)
(* How a tick ends.  Each write needs the claim; without it the worker     *)
(* only drops what it was doing.                                           *)
(***************************************************************************)
NextPhase ==
    CASE job.phase = "withdraw" -> "start_payment_drain"
      [] job.phase = "start_payment_drain" -> "drain_payments"
      [] OTHER -> "drain_existing_credentials"

\* ensure_all_frozen_snapshots_terminal and ensure_payment_drain_completed
PaymentsDrained ==
    /\ \A t \in Tasks : snapshot[t] # "absent" => resolved[t] # "none"
    /\ drainRow = "completed" \/ (drainRow = "none" /\ Obligations = {})

advance_phase(d) ==
    /\ drainer[d].step = "advance"
    /\ LET pending == /\ job.phase = "withdraw"
                      /\ \E t \in PaykitTasks :
                            snapshot[t] # "absent" /\ phase[t] = "invoice_pending"
           open == job.phase = "drain_payments" /\ ~PaymentsDrained
       IN  IF ~OwnsJob(d) \/ pending \/ open
           THEN Goto(d, IF OwnsJob(d) /\ open THEN "corrupt" ELSE "defer") /\ UNCHANGED job
           ELSE /\ job' = [Release("queued") EXCEPT !.phase = NextPhase]
                /\ drainer' = [drainer EXCEPT ![d] = DrainIdle]
    /\ UNCHANGED <<vars, snapshotVars, receipt, drainRow, paykitVars, drainFaults>>

\* defer, schedule_retry or its exhaustion, and finish(StateCorrupt).
GiveBack(d) ==
    /\ drainer[d].step \in {"defer", "retry", "exhausted", "corrupt"}
    /\ IF OwnsJob(d)
       THEN \E s \in CASE drainer[d].step = "defer" -> {"queued"}
                        [] drainer[d].step = "retry" -> {"queued", "failed"}
                        [] OTHER -> {"failed"} : job' = Release(s)
       ELSE UNCHANGED job
    /\ drainer' = [drainer EXCEPT ![d] = DrainIdle]
    /\ UNCHANGED <<vars, snapshotVars, receipt, drainRow, paykitVars, drainFaults>>

\* Forced execution: the lock goes first, then the content.
ForceWithdraw(d) ==
    /\ drainer[d].step = "force"
    /\ \/ /\ IF lockPublic THEN withdraw_content_lock ELSE UNCHANGED vars
          /\ Goto(d, "force_finish")
          /\ UNCHANGED drainFaults
       \/ /\ Goto(d, "retry")
          /\ DrainFault
          /\ UNCHANGED vars
    /\ UNCHANGED <<snapshotVars, jobVars, paykitVars>>

\* The job goes and its snapshot and drain rows with it (ON DELETE CASCADE).
ForceFinish(d) ==
    /\ drainer[d].step = "force_finish" /\ tx = "none"
    /\ IF OwnsJob(d) /\ job.forced
       THEN complete_force_deletion /\ job' = NoJob /\ drainRow' = "none" /\ NoSnapshot
       ELSE UNCHANGED <<vars, job, drainRow, snapshot, resolved, hadCredential, eligible>>
    /\ drainer' = [drainer EXCEPT ![d] = DrainIdle]
    /\ UNCHANGED <<tx, receipt, paykitVars, drainFaults>>

-----------------------------------------------------------------------------
(***************************************************************************)
(* Paykit, time and failures.                                              *)
(***************************************************************************)
\* An invoice is paid in two stages (amount matched, then confirmed), lapses or
\* ends in a state the service does not support.
PaymentSettles(t) ==
    /\ invoices[t]
    /\ \/ /\ pay[t] = "open"
          /\ \E s \in {"matched", "lapsed"} : pay' = [pay EXCEPT ![t] = s]
          /\ UNCHANGED drainFaults
       \/ /\ pay[t] = "matched"
          /\ pay' = [pay EXCEPT ![t] = "paid"]
          /\ UNCHANGED drainFaults
       \/ /\ pay[t] = "open"
          /\ pay' = [pay EXCEPT ![t] = "unsupported"]
          /\ DrainFault
    /\ UNCHANGED <<vars, snapshotVars, jobVars, draining, drainer>>

\* A drain at Paykit takes no new invoice.
DrainCreateInvoice(i) ==
    /\ create_invoice(i)
    /\ draining => invoices' = invoices
    /\ UNCHANGED drainVars

\* The failure of an admission after the cutoff resolves its snapshot row; the
\* admission lock keeps it out of the cutoff transaction.
DrainAdmissionFailed(i) ==
    /\ tx = "none"
    /\ mark_invoice_admission_failed(i)
    /\ LET t == admitter[i].task IN
       resolved' = [resolved EXCEPT ![t] =
           IF attached[t] /\ phase'[t] # phase[t] THEN "failed" ELSE @]
    /\ UNCHANGED <<tx, snapshot, hadCredential, eligible, jobVars, paykitVars, drainFaults, drainer>>

JobAbandoned == job.claim # NoWorker => drainer[job.claim].step = "idle"

JobLeaseExpires ==
    /\ job.lease = "live"
    /\ job' = [job EXCEPT !.lease = "expired"]
    /\ IF JobAbandoned THEN UNCHANGED drainFaults ELSE DrainFault
    /\ UNCHANGED <<vars, snapshotVars, receipt, drainRow, paykitVars, drainer>>

\* A claim that is not executed: the process shuts down and gives it back, or the
\* claims that were lost before it have used up the attempts.
ClaimNotRun(d) ==
    /\ drainer[d].step \in PhaseSteps \cup {"force"}
    /\ \E s \in {"defer", "exhausted"} : Goto(d, s)
    /\ DrainFault
    /\ UNCHANGED <<vars, snapshotVars, jobVars, paykitVars>>

DrainerStops(d) ==
    /\ drainer[d].step # "idle"
    /\ drainer' = [drainer EXCEPT ![d] = DrainIdle]
    /\ DrainFault
    /\ UNCHANGED <<vars, snapshotVars, jobVars, paykitVars>>

-----------------------------------------------------------------------------
DrainerStep(d) ==
    \/ withdraw_with_evidence(d)
    \/ ExpireNonPaykit(d)
    \/ start_payment_drain(d)
    \/ store_payment_drain(d)
    \/ list_obligations(d)
    \/ get_payment_drain(d)
    \/ replay_publications(d)
    \/ lookup_payment_drain(d)
    \/ reconcile_payment_drain(d)
    \/ classify_payment_task(d)
    \/ DrainBegin(d)
    \/ DrainProbe(d)
    \/ DrainPut(d)
    \/ DrainReadBack(d)
    \/ persist_terminal_obligation(d)
    \/ advance_phase(d)
    \/ GiveBack(d)
    \/ ForceWithdraw(d)
    \/ ForceFinish(d)

Request ==
    \/ CutoffCheck
    \/ force_without_job
    \/ force_with_job
    \/ resume_failed_job
    \/ fail_graceful_withdrawal
    \/ withdraw_by_request

\* Submissions wait for the admission lock; the other steps of the task table are
\* those of VerificationTasks.
Submit(t) ==
    /\ tx = "none"
    /\ insert_verification_task(t) \/ insert_invoice_pending_task(t)
    /\ UNCHANGED drainVars

TaskTime(t) ==
    /\ LeaseExpires(t) \/ RetryDue(t) \/ AdmissionDeadlinePasses(t)
    /\ UNCHANGED drainVars

ClaimAdmission(t) ==
    (\E i \in InvoiceWorkers : claim_next_invoice_admission(i, t)) /\ UNCHANGED drainVars

ClaimTask(t) ==
    (\E w \in Workers : claim_next_verification_task(w, t)) /\ UNCHANGED drainVars

DAdmitterStep(i) ==
    \/ DrainCreateInvoice(i)
    \/ DrainAdmissionFailed(i)
    \/ (mark_invoice_admission_ready(i) \/ schedule_invoice_admission_retry(i))
          /\ UNCHANGED drainVars

\* payment_status_decision: the worker's verifier reads the same payment.  It
\* also decides in states the drain does not support.
PaymentDecision(t) ==
    CASE pay[t] = "paid" -> {"begin"}
      [] pay[t] = "lapsed" -> {"expire"}
      [] pay[t] = "unsupported" -> {"begin", "expire"}
      [] OTHER -> {}

DWorkerStep(w) ==
    /\ WorkerStep(w)
    /\ worker[w].step = "evaluate" /\ worker[w].task \in PaykitTasks =>
           worker'[w].step \in {"fail", "retry"} \cup PaymentDecision(worker[w].task)
    /\ UNCHANGED drainVars

Stops ==
    \/ (\E w \in Workers : WorkerStops(w)) /\ UNCHANGED drainVars
    \/ (\E i \in InvoiceWorkers : AdmitterStops(i)) /\ UNCHANGED drainVars
    \/ \E d \in DeletionWorkers : ClaimNotRun(d) \/ DrainerStops(d)

DNext ==
    \/ \E t \in Tasks : \/ Submit(t) \/ ClaimAdmission(t) \/ ClaimTask(t)
                        \/ TaskTime(t) \/ PaymentSettles(t)
    \/ \E i \in InvoiceWorkers : DAdmitterStep(i)
    \/ \E w \in Workers : DWorkerStep(w)
    \/ \E d \in DeletionWorkers : claim_next(d) \/ DrainerStep(d)
    \/ CutoffSnapshot \/ CutoffCommit \/ CutoffAbort
    \/ Request
    \/ JobLeaseExpires
    \/ Stops

DSpec == DInit /\ [][DNext]_dvars

\* The worker loops poll, a claimed job and a claimed task are worked on, time
\* passes, a transaction ends and Paykit settles every invoice.
DFairness ==
    /\ WF_dvars(\E d \in DeletionWorkers : claim_next(d))
    /\ \A d \in DeletionWorkers : WF_dvars(DrainerStep(d))
    /\ WF_dvars(JobAbandoned /\ JobLeaseExpires)
    /\ WF_dvars(CutoffSnapshot \/ CutoffCommit \/ CutoffAbort)
    /\ \A t \in Tasks :
          /\ WF_dvars(ClaimAdmission(t))
          /\ WF_dvars(Abandoned(t) /\ LeaseExpires(t) /\ UNCHANGED drainVars)
          /\ WF_dvars(RetryDue(t) /\ UNCHANGED drainVars)
          /\ WF_dvars(PaymentSettles(t))
    /\ \A i \in InvoiceWorkers : WF_dvars(DAdmitterStep(i))

FairDSpec == DSpec /\ DFairness

-----------------------------------------------------------------------------
(***************************************************************************)
(* Properties.                                                             *)
(***************************************************************************)
\* Every step of the deletion worker, of the cutoff transaction and of the
\* requests is one of the steps VerificationTasks allows deletion, so what is
\* proved there of the task table holds with the drain running beside it.
ImplementsVerificationTasks == Spec

\* Once the drain hands over to the credential phases, each payment that was
\* unfinished at the cutoff has been settled as Paykit settled it: paid means an
\* entitlement on the homeserver and the right to a final credential, lapsed
\* means none, and nothing is open, whatever worker lost its claim on the way.
DrainHonoursPayments ==
    job.phase = "drain_existing_credentials" =>
        \A t \in PaykitTasks :
            snapshot[t] \notin Terminal \cup {"absent"} /\ phase[t] = "ready" =>
                /\ pay[t] \in {"paid", "lapsed"}
                /\ status[t] = IF pay[t] = "paid" THEN "completed" ELSE "expired"
                /\ status[t] = "completed" => bundles[t] = entitlement[t] /\ eligible[t]

\* A snapshot row of a Paykit task is resolved as its task ended, by whichever of
\* the cutoff, the invoice worker and the drain resolved it.
ResolvedAsEnded ==
    \A t \in PaykitTasks :
        tx = "none" /\ resolved[t] # "none" =>
            /\ status[t] = resolved[t]
            /\ eligible[t] <=> status[t] = "completed" /\ ~hadCredential[t]

\* Once the payment drain was started, every frozen task without a Paykit proof
\* has ended, and it stays ended: a worker whose claim the cutoff took cannot
\* bring it back, and one that finished before the cutoff took its row has
\* published what it completed.
NonPaykitClosed ==
    job.phase \in {"drain_payments", "drain_existing_credentials"} =>
        \A t \in Tasks \ PaykitTasks :
            snapshot[t] # "absent" =>
                /\ status[t] \in Terminal /\ resolved[t] # "none"
                /\ status[t] = "completed" => bundles[t] = entitlement[t] /\ bundles[t] # 0

\* Force never cuts off a publication of the drain, and no drain begins one once
\* force was requested.
ForcedHasNoPublication == job.forced \/ receipt => ~DrainPublishing

\* What the cutoff saw as unfinished and a worker finished before the cutoff took
\* the task row: nobody resolves that obligation.
FinishedInCutoff ==
    \E t \in PaykitTasks :
        attached[t] /\ snapshot[t] \notin Terminal /\ resolved[t] = "none" /\ status[t] \in Terminal

\* A graceful deletion leaves the payment phases: its payments are drained, or it
\* fails, or it is forced.
DrainEnds ==
    cutoff = "job" ~>
        \/ job.phase = "drain_existing_credentials"
        \/ job.state = "failed" \/ job.forced \/ cutoff = "receipt"
        \/ FinishedInCutoff

\* A publication the drain made durable completes unless the job fails.
DrainPublicationCompletes ==
    \A t \in Tasks :
        (attached[t] /\ status[t] = "publishing_entitlement") ~>
            (status[t] = "completed" \/ job.state = "failed")

\* Every paid entitlement without an active credential at the cutoff can obtain a
\* final credential.
PaidIsEligible ==
    \A t \in PaykitTasks :
        attached[t] /\ status[t] = "completed" /\ ~hadCredential[t] => eligible[t]

=============================================================================
