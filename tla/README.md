# Pubky Locks: a TLA+ model

Pubky Locks gates content behind proofs. A creator publishes a content lock on
their homeserver; a reader submits a proof bundle for it; the service verifies
the bundle, publishes a verified proof bundle next to the lock and then issues
access credentials with which the reader fetches the guarded content through
the service. Payments go through Paykit, graph criteria through Nexus. The
creator may delete a lock, gracefully or by force.

The state lives in Postgres (READ COMMITTED), on the homeserver and at Paykit.
Several worker loops and any number of HTTP requests work on it at once, in
several processes, and each of them can stop between two awaits. This
directory models the parts where that matters, checks them with TLC on small
instances and proves the task table's invariants with TLAPS for all instances.

`PROJECT.json` lists the components, the runs, the mutants, the source lines of
every definition, the hazards and the theorems.

## 1. Inventory

Paths are relative to `src/`; `pg/` is
`locks-service/src/infrastructure/postgres/`, `uc/` is
`locks-service/src/application/use_cases/`, `pubky/` is
`locks-service/src/infrastructure/pubky/`, `srv/` is `locks-server/src/`.

| component | state | operations | what is hard | status |
|---|---|---|---|---|
| verification tasks, `pg/verification_tasks.rs`, `pg/verification_task_claims.rs` | row: status, claim, lease, schedule, payload, deletion job | insert, claim, retry, fenced transition | leases that run out under a busy worker; resumed publications | `VerificationTasks` |
| verification worker, `srv/worker.rs`, `uc/complete_verification_task.rs` | the claim in hand | claim, verify, persist, put, read back, complete | crash between durable payload, put and completion | `VerificationTasks` |
| invoice admission, `srv/worker/invoice.rs` | admission phase, deadline | claim, create invoice, ready, retry, fail | an invoice that exists although its answer was lost | `VerificationTasks` |
| deletion jobs, `pg/content_lock_deletions.rs` | job row, phase, claim, retry budget, snapshot | cutoff, claim, defer, retry, advance, finish, resume, force | cutoff against running workers; force against a drain | `PaymentDrain` up to the credential phases |
| payment drain, `uc/drain_lock_payments.rs`, `pg/payment_drains.rs` | drain row, obligations, Paykit's drain | start, lookup, reconcile, classify, publish, resolve | stale readings; replay of a publication | `PaymentDrain` |
| deletion worker, `srv/deletion_worker.rs`, `uc/execute_content_lock_deletion_phase.rs` | the claim in hand | one phase per claim | lost claims, exhausted retries | payment phases in `PaymentDrain` |
| forced deletion, `uc/execute_forced_content_lock_deletion.rs` | force flag, receipt, manifest | prepare, execute, complete | late publications | on a job: `PaymentDrain` |
| publication of locks, `uc/create_content_lock.rs`, `pg/content_lock_ownership.rs` | publication intent, path ownership | begin, reserve, put, mark, compensate, recover | crash between intent and write; failed compensation | planned |
| access credentials, `pg/access_credentials.rs`, `uc/proxy_read_guarded_resource.rs` | credentials, final windows, read claims | issue, enrol, prepare, consume, release | exactly one final credential, single-use reads | planned |
| action ownership, `pg/content_lock_deletion_action_ownership.rs` | advisory lock on a connection | acquire, release | lost connection | planned |
| graph tasks, `pg/graph_tasks.rs`, `srv/graph_worker.rs` | row, snapshot, revision | insert, claim, observe, persist, publish | four ticks in one join, two clocks | planned |
| payment-only tasks, `pg/payment_tasks.rs`, `srv/payment_worker.rs` | row, snapshot, revision | admit, claim, persist, publish | as above, with force receipts | planned |
| folded authorization, `pg/folded_auth.rs`, `uc/poll_folded_auth.rs` | attempt, generation, dispatched poll | start or rotate, poll, renew, accept, expire, purge | late approval of an old generation | planned |
| creator connection and sessions, `uc/complete_creator_connect_flow.rs`, `pg/frontend_sessions.rs` | pending flow, authority, codes, sessions | start, complete, exchange | consumed flow and a failing store | planned |
| grant session cache, `pubky/grant_session_cache.rs` | entries, generations, observations | restore, wait, evict, invalidate | rotation during a restoration, full cache | planned |
| rate limits, `srv/rate_limit.rs` | windows, token bucket | check, refill | wall clock that steps back | planned |
| runtime, `srv/runtime.rs` | root tasks, shutdown channels | supervise, stop workers, drain | order of shutdown | planned |

The tables interact through the *admission lock* of a content lock (an advisory
lock: submissions, cutoff, force and the failure of an admission are serialized
by it) and through `verification_tasks.deletion_job_id`, which takes a task away
from the ordinary workers.

The properties each component owes its users:

- verification: what is on the homeserver is what the row made durable; a
  completed task is published; outcomes are final; a claim excludes others;
  every task is decided and every begun publication completes;
- admission: nothing is verified before Paykit holds its invoice;
- deletion: every payment ends as Paykit ended it, with its entitlement and its
  right to a final credential; force never cuts off a publication; the job ends;
- publication: no path has two owners, a failed publication leaves nothing;
- access: one final credential per obligation, each read consumed once;
- authorization and sessions: a code or an approval is used once, and only for
  the generation it was given to;
- cache and limits: never a superseded session; never more than the budget.

## 2. Modules

### VerificationTasks

The v1 task table of one content lock with its two kinds of worker.

| state | code |
|---|---|
| `status`, `phase`, `claimToken`, `entitlement`, `attached` | columns `status`, `invoice_admission_phase`, `claim_token`, `entitlement_to_publish`, `deletion_job_id` |
| `startedAt` | `started_at`: NULL or set |
| `lease`, `due`, `late` | `claim_expires_at`, `next_attempt_at`, `admission_deadline_at`, each as the comparison with the database clock that the statements make |
| `cutoff`, `lockPublic` | deletion job or force receipt of the lock; its public document |
| `bundles`, `invoices` | homeserver and Paykit |
| `worker`, `admitter` | the local state of a tick between two awaits |

Payloads and tokens are numbers: a payload is named by the attempt that made
it, because two evaluations of the same proof differ (`verified_at`). The
read-back after a put (`same_entitlement_decision`) ignores `verified_at`, so it
accepts any bundle stored for the task; that this bundle is exactly the payload
of the row is a property (`CompletedIsPublished`), not part of the comparison.

`completed_at`, `failure_message` and `terminal_reason` are written by the same
statement as the terminal status they go with and are left out.

Each await of a tick ends an action. A database write is one action and is
refused, exactly as its `WHERE` clause does, when the token, the lease, the
status or the deletion job no longer match; the worker then drops the task. The
put of a bundle is a read followed by a write, and either may fail after or
before taking effect.

Deletion is present as what it may do to the table (the actions from
`insert_job` to `complete_force_deletion`); `PaymentDrain` refines these.

### PaymentDrain

Extends `VerificationTasks` with the cutoff transaction, the deletion job, the
deletion workers and Paykit's drain. The cutoff is three actions
(`CutoffCheck`, `CutoffSnapshot`, `CutoffCommit`) because it runs at READ
COMMITTED and workers commit between its statements. A deletion worker claims
the job, runs the steps of its phase (`withdraw`, `start_payment_drain`,
`drain_payments`) and gives the claim back in one write. What it reads when it
lists the obligations (`seen`) is what it acts on later in the tick; the drain
row is read after them, in a step of its own. A claim may also be given back or
failed before it is run (`ClaimNotRun`: shutdown, or attempts used up).

Phases after the payments are the single value `drain_existing_credentials`, in
which nothing is claimed. Paykit (`pay`, `draining`) is external: an invoice is
open, matched, paid, lapsed or in a state the service does not support, and a
drain takes no new invoice.

`PaymentDrain` implements `VerificationTasks`: the variables of the latter are
its own, so the refinement mapping is the identity and
`ImplementsVerificationTasks == Spec` is checked as a property.

### MCVerificationTasks, MCPaymentDrain

Model values and symmetry sets for TLC. Workers of one kind are
interchangeable; symmetry is used in safety runs only.

## 3. Runs

| run | instance | distinct states | shows |
|---|---|---|---|
| `verification_safety` | 1 Paykit task, 1 other, 2 workers, 1 invoice worker, 2 faults | 455,457 | the six invariants and `OutcomeIsFinal` |
| `verification_liveness` | 1 Paykit task, 2 workers, 3 faults | 36,543 | `EveryTaskDecided`, `PublicationCompletes` |
| `drain_safety` | 1 Paykit task, 1 worker, 2 deletion workers, 2 drain faults | 1,041,724 | the drain's invariants and the refinement |
| `drain_mixed` | 1 Paykit task, 1 other, 1 deletion worker, 1 worker fault | 1,023,941 | `NonPaykitClosed` and the refinement |
| `drain_liveness` | 1 Paykit task, 1 deletion worker, 1 drain fault | 53,162 | `DrainEnds`, `DrainPublicationCompletes` |
| `drain_cutoff_race` | no fault at all | violation | the finding below |

*Bounds.* A fault is a crash, a lease that runs out on a busy worker, a failed
call or, for a verification, the answer "not yet". Two faults let a worker stall
and its successor crash, the shortest way to three holders of one publication;
three in the liveness run let a publication be interrupted in each of its steps.
Two workers suffice for every race of a stale and a current claim; a third
could only repeat the part of the stale one. Tasks of one lock only interact
through the cutoff and the drain's phases, which treat them alike within their
kind, so one of each kind covers the mixtures. The theorems do not depend on
any of these bounds.

*Deadlock.* All runs allow the system to stop: when each task has ended and the
deletion is over there is nothing left to do.

*Fairness.* Weak fairness of claiming (the loops poll for ever), of the next
step of a busy worker (a tick runs to its end unless it stops, which is a
bounded fault), of a lease nobody holds and of a retry becoming due (time
passes), of the cutoff transaction, and of Paykit settling an invoice (it
expires unpaid ones). New requests, faults and the expiry of a held lease are
not fair. `EveryTaskDecided` therefore says: a task is decided if the verifier
answers "not yet" only finitely often.

*Finding.* `drain_cutoff_race` shows, without any failure, that a worker which
publishes and completes a paid task between the snapshot (`insert_job`,
`pg/content_lock_deletions.rs:451`) and the update of the tasks (line 571)
leaves a snapshot row that says `in_progress` beside a completed task. No later
statement resolves it, so the reader gets no final credential and the job does
not leave `drain_payments`, while the plan
(`docs/plans/2026-08-10-graceful-content-lock-deletion.md:54`) promises one for
every paid entitlement. `DrainEnds` excludes exactly this state
(`FinishedInCutoff`).

## 4. Proofs

Proved with TLAPS for any sets of tasks, workers and invoice workers and any
number of faults, assuming only `PaykitTasks \subseteq Tasks` and
`MaxFaults \in Nat`:

| theorem | states |
|---|---|
| `TypeCorrect` | `Spec => []TypeOK` |
| `ChecksHold` | no statement violates the CHECK constraints on start time, payload, claim and admission phase |
| `PublicationSafe` | the homeserver holds the payload the row made durable |
| `CompletionSafe` | a completed task has its payload on the homeserver |
| `ClaimFence` | a live claim excludes every other writer |
| `AdmissionSafe` | no Paykit task is decided before its invoice exists |
| `OutcomeFinal` | outcomes are final, a begun publication can only complete |

The argument is one inductive invariant, `IInv`, in four parts:

- `RowInv`: types, the CHECK constraints on start time, payload, claim and
  admission phase, and that a busy worker holds an admitted task. A task the cutoff attached has no claim of a verification
  worker; without this the writes of deletion, which carry no task claim, could
  meet a live one.
- `PublicationInv`: a publishing worker carries the payload of the row and a
  worker about to complete has it on the homeserver: the read-back only says
  that some bundle is stored, the invariant that it can be no other. This makes
  `PublishedIsPersisted` inductive: a stalled worker may put at any later time,
  and what it puts is still the row's payload because the payload is written
  once (`WrittenOnce`).
- `ClaimInv`: tokens are handed out in increasing order and no two busy workers
  share one, so a stale token never matches again.
- `InvoiceHeld`: an admitted task, and a worker about to admit one, has its
  invoice.

The proof is split by subject so that each module stays small enough for the
prover: `VerificationTypesProofs` (types), `VerificationRowsProofs` (the
invariant, what a step does to workers and rows), `VerificationPublicationProofs`
(payload and bundle), `VerificationTasksProofs` (claims, invoices and the
theorems). In each, a step lemma has one case per action; `WorkerEffect` and the
`...Moves` lemmas state once what an action does to the fields of a worker.

Only model-checked: liveness (out of the prover's reach, as is `ENABLED`), the
properties of `PaymentDrain` and its refinement of `VerificationTasks`.

## 5. Not modelled

`update_verification_task` and `delete_verification_task` (no production
caller), row decoding, retry back-off (a retry is due "later"), metrics and
readiness. A v1 insertion is also refused while another lane (a graph task, a
pending folded authorization) holds its handle; this waits for the v2 modules,
and the model's tasks have handles of their own. The retry budget of a deletion job is a choice between another
attempt and failure. HTTP parsing, configuration, ciphers, wire formats, the
SDKs and the in-memory repositories are outside the model; `PROJECT.json` gives
the reason for each. The components marked *planned* above are next.

## 6. Plan

Modules, in order:

1. `GraphTasks` and `PaymentTasks`: the two v2 lanes, their fenced publication
   under the session advisory lock, force receipts, shutdown release and the
   wave of four ticks. Properties: as for v1, and that a release never runs into
   the CHECK constraints.
2. `ContentLockPublication`: intents, path ownership, put, compensation and
   recovery, with crashes; abstract specification: a path has at most one owner,
   and an owner has a published lock or an open intent.
3. `AccessDrain`: final windows, final credentials by reader and by worker, read
   claims; abstract specification: a set of unspent reads.
4. `ContentLockDeletion`: the job's phases from withdrawal to purge with action
   ownership, retry budget, synchronous force and receipts; composed with
   `PaymentDrain` and `AccessDrain` through the job row.
5. `FoldedAuth`, `CreatorConnect`, `GrantSessionCache`, `RateLimit`, `Runtime`:
   small modules of their own. `FoldedAuth` composes with `GraphTasks` at the
   acceptance of an attempt.

Runs: one safety run per module with two actors of each kind and two faults, one
liveness run where the component owes progress, and one run per composition.

Theorems: types and the refinement step `DNext => [Next]_vars` of
`PaymentDrain`, which carries the theorems above over to the drain;
`ForcedHasNoPublication` and `ResolvedAsEnded` by an inductive invariant of the
drain; for the later modules, single ownership of a path and single consumption
of a read.
