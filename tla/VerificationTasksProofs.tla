---------------------- MODULE VerificationTasksProofs ----------------------
(***************************************************************************)
(* Claims and invoices, the last part of the inductive invariant of        *)
(* VerificationTasks, and the safety theorems that follow from it.         *)
(***************************************************************************)
EXTENDS VerificationPublicationProofs

-----------------------------------------------------------------------------
(***************************************************************************)
(* What a step does to the claims, row by row.                             *)
(***************************************************************************)
SameRow(u) ==
    /\ status'[u] = status[u] /\ entitlement'[u] = entitlement[u]
    /\ claimToken'[u] = claimToken[u] /\ lease'[u] = lease[u] /\ attached'[u] = attached[u]

\* The claim of t is given back.
Freed(t) == claimToken'[t] = 0 /\ \A u \in Tasks \ {t} : SameRow(u)

\* t is claimed with the next token.
Claimed(t) ==
    /\ claimToken'[t] = lastToken + 1 /\ lastToken' = lastToken + 1
    /\ \A u \in Tasks \ {t} : SameRow(u)

ClaimTypes ==
    /\ status \in [Tasks -> Status] /\ entitlement \in [Tasks -> Nat]
    /\ claimToken \in [Tasks -> Nat] /\ lastToken \in Nat
    /\ lease \in [Tasks -> {"none", "live", "expired"}] /\ attached \in [Tasks -> BOOLEAN]

LEMMA ClearFrees ==
    ASSUME ClaimTypes, NEW t \in Tasks, NEW s, status' = [status EXCEPT ![t] = s],
           ClearClaim(t), UNCHANGED <<entitlement, attached>>
    PROVE  Freed(t)
BY DEF ClaimTypes, ClearClaim, Freed, SameRow

LEMMA TakeClaims ==
    ASSUME ClaimTypes, NEW t \in Tasks, NEW s, status' = [status EXCEPT ![t] = s],
           TakeClaim(t), UNCHANGED <<entitlement, attached>>
    PROVE  Claimed(t)
BY DEF ClaimTypes, TakeClaim, Claimed, SameRow

\* A worker's last write frees its row, or matches no row.
LEMMA WorkerFrees ==
    ASSUME RowInv, NEW w \in Workers,
           \/ schedule_verification_task_retry(w) \/ PersistUnsatisfied(w)
           \/ complete_entitlement_publication(w)
    PROVE  (\A u \in Tasks : SameRow(u)) \/ (\E t \in Tasks : Freed(t))
<1>1. worker[w].task \in Tasks /\ ClaimTypes
  BY DEF RowInv, TypeOK, WorkersOnTasks, ClaimTypes, schedule_verification_task_retry,
      PersistUnsatisfied, complete_entitlement_publication
<1>2. UNCHANGED <<entitlement, attached>>
  BY DEF schedule_verification_task_retry, PersistUnsatisfied,
      complete_entitlement_publication
<1>3. \/ UNCHANGED <<status, claimToken, lease>>
      \/ /\ ClearClaim(worker[w].task)
         /\ \E s : status' = [status EXCEPT ![worker[w].task] = s]
  BY DEF schedule_verification_task_retry, PersistUnsatisfied,
      complete_entitlement_publication
<1>4. CASE UNCHANGED <<status, claimToken, lease>>
  BY <1>2, <1>4 DEF SameRow
<1>5. ASSUME ClearClaim(worker[w].task), NEW s,
             status' = [status EXCEPT ![worker[w].task] = s]
      PROVE  Freed(worker[w].task)
  BY Zenon, <1>1, <1>2, <1>5, ClearFrees
<1>6. QED
  BY <1>1, <1>3, <1>4, <1>5

\* And so does an invoice worker's.
LEMMA AdmitterFrees ==
    ASSUME RowInv, NEW i \in InvoiceWorkers,
           \/ mark_invoice_admission_ready(i) \/ schedule_invoice_admission_retry(i)
           \/ mark_invoice_admission_failed(i)
    PROVE  (\A u \in Tasks : SameRow(u)) \/ (\E t \in Tasks : Freed(t))
<1>1. admitter[i].task \in Tasks /\ ClaimTypes
  BY DEF RowInv, TypeOK, AdmittersOnTasks, ClaimTypes, mark_invoice_admission_ready,
      schedule_invoice_admission_retry, mark_invoice_admission_failed
<1>2. UNCHANGED <<entitlement, attached>>
  BY DEF mark_invoice_admission_ready, schedule_invoice_admission_retry,
      mark_invoice_admission_failed
<1>3. status = [status EXCEPT ![admitter[i].task] = @]
  BY <1>1 DEF ClaimTypes
<1>4. \/ UNCHANGED <<status, claimToken, lease>>
      \/ /\ ClearClaim(admitter[i].task)
         /\ \E s : status' = [status EXCEPT ![admitter[i].task] = s]
  <2>1. CASE mark_invoice_admission_ready(i) \/ schedule_invoice_admission_retry(i)
    BY <1>3, <2>1 DEF mark_invoice_admission_ready, schedule_invoice_admission_retry
  <2>2. CASE mark_invoice_admission_failed(i)
    BY <2>2 DEF mark_invoice_admission_failed
  <2>3. QED
    BY <2>1, <2>2
<1>5. CASE UNCHANGED <<status, claimToken, lease>>
  BY <1>2, <1>5 DEF SameRow
<1>6. ASSUME ClearClaim(admitter[i].task), NEW s,
             status' = [status EXCEPT ![admitter[i].task] = s]
      PROVE  Freed(admitter[i].task)
  BY Zenon, <1>1, <1>2, <1>6, ClearFrees
<1>7. QED
  BY <1>1, <1>4, <1>5, <1>6

\* Both claim handlers take one row.
LEMMA HandlersClaim ==
    ASSUME RowInv, NEW t \in Tasks,
           \/ \E i \in InvoiceWorkers : claim_next_invoice_admission(i, t)
           \/ \E w \in Workers : claim_next_verification_task(w, t)
    PROVE  Claimed(t)
<1>1. ClaimTypes
  BY DEF RowInv, TypeOK, ClaimTypes
<1>2. TakeClaim(t) /\ UNCHANGED <<entitlement, attached>>
  BY DEF claim_next_invoice_admission, claim_next_verification_task
<1>3. status = [status EXCEPT ![t] = @]
  BY <1>1 DEF ClaimTypes
<1>4. \E s : status' = [status EXCEPT ![t] = s]
  BY <1>3 DEF claim_next_invoice_admission, claim_next_verification_task
<1>5. QED
  BY Zenon, <1>1, <1>2, <1>4, TakeClaims

\* Tokens only grow, and rows carry tokens that were handed out.
TokensGrow ==
    /\ lastToken <= lastToken'
    /\ \A t \in Tasks : claimToken[t] <= lastToken => claimToken'[t] <= lastToken'

\* TakeClaim hands out the next token.
LEMMA TokensGrowStep == RowInv /\ [Next]_vars => TokensGrow
<1> SUFFICES ASSUME RowInv, [Next]_vars PROVE TokensGrow
  OBVIOUS
<1>a. /\ claimToken \in [Tasks -> Nat] /\ lastToken \in Nat
  BY DEF RowInv, TypeOK
<1>b. ASSUME UNCHANGED <<claimToken, lastToken>> PROVE TokensGrow
  BY <1>a, <1>b DEF TokensGrow
<1>c. ASSUME lastToken' = lastToken,
             (\A u \in Tasks : SameRow(u)) \/ (\E t \in Tasks : Freed(t))
      PROVE  TokensGrow
  BY <1>a, <1>c DEF TokensGrow, SameRow, Freed
<1>d. ASSUME NEW t \in Tasks, Claimed(t) PROVE TokensGrow
  BY <1>a, <1>d DEF TokensGrow, SameRow, Claimed
<1>1. ASSUME NEW i \in InvoiceWorkers, NEW t \in Tasks, claim_next_invoice_admission(i, t)
      PROVE  TokensGrow
  BY <1>1, <1>d, HandlersClaim
<1>2. ASSUME NEW w \in Workers, NEW t \in Tasks, claim_next_verification_task(w, t)
      PROVE  TokensGrow
  BY <1>2, <1>d, HandlersClaim
<1>3. ASSUME NEW t \in Tasks, drain_begin_entitlement_publication(t)
      PROVE  TokensGrow
  BY <1>a, <1>3 DEF drain_begin_entitlement_publication, TokensGrow
<1>4. ASSUME NEW i \in InvoiceWorkers,
             \/ mark_invoice_admission_ready(i) \/ schedule_invoice_admission_retry(i)
             \/ mark_invoice_admission_failed(i)
      PROVE  TokensGrow
  <2>1. lastToken' = lastToken
    BY <1>4 DEF mark_invoice_admission_ready, schedule_invoice_admission_retry,
        mark_invoice_admission_failed
  <2>2. QED
    BY <1>4, <1>c, <2>1, AdmitterFrees
<1>5. ASSUME NEW w \in Workers,
             \/ schedule_verification_task_retry(w) \/ PersistUnsatisfied(w)
             \/ complete_entitlement_publication(w)
      PROVE  TokensGrow
  <2>1. lastToken' = lastToken
    BY <1>5 DEF schedule_verification_task_retry, PersistUnsatisfied,
        complete_entitlement_publication
  <2>2. QED
    BY <1>5, <1>c, <2>1, WorkerFrees
<1>6. ASSUME insert_job PROVE TokensGrow
  <2>1. lastToken' = lastToken /\ \A t \in Tasks : claimToken'[t] \in {claimToken[t], 0}
    BY <1>6 DEF insert_job
  <2>2. QED
    BY <1>a, <2>1 DEF TokensGrow
<1>7. ASSUME NEW t \in Tasks,
             \/ insert_verification_task(t) \/ insert_invoice_pending_task(t)
             \/ DrainPutBundle(t) \/ DrainComplete(t) \/ DrainExpire(t)
             \/ LeaseExpires(t) \/ RetryDue(t) \/ AdmissionDeadlinePasses(t)
      PROVE  TokensGrow
  BY <1>7, <1>b DEF insert_verification_task, insert_invoice_pending_task, taskVars,
      DrainPutBundle, DrainComplete, DrainExpire, LeaseExpires, RetryDue,
      AdmissionDeadlinePasses
<1>8. ASSUME NEW i \in InvoiceWorkers, create_invoice(i) \/ AdmitterStops(i)
      PROVE  TokensGrow
  BY <1>8, <1>b DEF create_invoice, AdmitterStops, taskVars
<1>9. ASSUME NEW w \in Workers,
             \/ Verify(w) \/ begin_entitlement_publication(w) \/ ProbeBundle(w)
             \/ PutBundle(w) \/ ReadBackBundle(w) \/ WorkerStops(w)
      PROVE  TokensGrow
  BY <1>9, <1>b DEF Verify, begin_entitlement_publication, ProbeBundle,
      PutBundle, ReadBackBundle, WorkerStops, taskVars
<1>10. ASSUME \/ prepare_force_deletion \/ withdraw_content_lock
             \/ expire_unresolved_non_paykit_tasks \/ complete_force_deletion
             \/ UNCHANGED vars
      PROVE  TokensGrow
  BY <1>10, <1>b DEF prepare_force_deletion, withdraw_content_lock, taskVars,
      expire_unresolved_non_paykit_tasks, complete_force_deletion, vars
<1>11. QED
  BY <1>1, <1>2, <1>3, <1>4, <1>5, <1>6, <1>7, <1>8, <1>9, <1>10
  DEF Next, TaskStep, WorkerStep, AdmitterStep

\* Every claim gets a token nobody has seen.
LEMMA TokensStep ==
    RowInv /\ TokensBounded /\ TokensUnique /\ [Next]_vars => (TokensBounded /\ TokensUnique)'
<1> SUFFICES ASSUME RowInv, TokensBounded, TokensUnique, [Next]_vars
             PROVE  (TokensBounded /\ TokensUnique)'
  OBVIOUS
<1>1. TokensGrow /\ WorkerEffect
  BY TokensGrowStep, EffectStep DEF RowInv
<1>2. /\ IdleWorkers /\ WorkersOnTasks
      /\ lastToken \in Nat /\ lastToken' \in Nat /\ \A w \in Workers : worker[w].token \in Nat
  BY TypeStep DEF RowInv, TypeOK, WorkerState
<1>g. \A t \in Tasks : claimToken'[t] <= lastToken'
  BY <1>1 DEF TokensBounded, TokensGrow
<1>h. \A w \in Workers : worker[w].token <= lastToken /\ worker[w].token <= lastToken'
  BY <1>1, <1>2 DEF TokensBounded, TokensGrow
<1>u. \A v, w \in Workers :
         v # w /\ worker[v].step # "idle" => worker[v].token # worker[w].token
  BY DEF TokensUnique
<1>z. \A v \in Workers : /\ worker[v].step # "idle" => worker[v].token # 0
                         /\ worker[v].step = "idle" => worker[v].token = 0
  BY <1>2 DEF IdleWorkers, WorkersOnTasks
\* It is enough to look at the pairs one of which is the worker that changed.
<1>k. ASSUME NEW w \in Workers, \A v \in Workers \ {w} : worker'[v] = worker[v],
             worker'[w].token <= lastToken',
             \A v \in Workers \ {w} :
                /\ worker[v].step # "idle" => worker[v].token # worker'[w].token
                /\ worker'[w].step # "idle" => worker'[w].token # worker[v].token
      PROVE  (TokensBounded /\ TokensUnique)'
  <2>1. TokensBounded'
    BY <1>g, <1>h, <1>k DEF TokensBounded
  <2>2. ASSUME NEW x \in Workers, NEW y \in Workers, x # y, worker'[x].step # "idle"
        PROVE  worker'[x].token # worker'[y].token
    <3>1. CASE x = w
      BY <1>k, <2>2, <3>1
    <3>2. CASE y = w
      BY <1>k, <2>2, <3>2
    <3>3. CASE x # w /\ y # w
      BY <1>k, <1>u, <2>2, <3>3
    <3>4. QED
      BY <3>1, <3>2, <3>3
  <2>3. QED
    BY <2>1, <2>2 DEF TokensUnique
<1>3. CASE worker' = worker
  BY <1>3, <1>g, <1>h, <1>u DEF TokensBounded, TokensUnique
<1>4. ASSUME NEW w \in Workers, Dropped(w) PROVE (TokensBounded /\ TokensUnique)'
  <2>1. worker'[w].token <= lastToken'
    BY <1>2, <1>4 DEF Dropped
  <2>2. QED
    BY <1>4, <1>k, <1>z, <2>1 DEF Dropped
<1>5. ASSUME NEW w \in Workers, worker[w].step # "idle",
             Moved(w, DecideSteps) \/ Moved(w, PublishSteps) \/ Began(w)
      PROVE  (TokensBounded /\ TokensUnique)'
  <2>1. /\ worker'[w].token = worker[w].token
        /\ \A v \in Workers \ {w} : worker'[v] = worker[v]
    BY <1>5 DEF Moved, Began
  <2>2. QED
    BY <1>5, <1>h, <1>k, <1>u, <2>1
<1>6. ASSUME NEW w \in Workers, NEW t \in Tasks, Took(w, t), lastToken' = lastToken + 1
      PROVE  (TokensBounded /\ TokensUnique)'
  <2>1. /\ worker'[w].token = lastToken'
        /\ \A v \in Workers \ {w} : worker'[v] = worker[v]
    BY <1>6 DEF Took
  <2>2. \A v \in Workers : worker[v].token # lastToken'
    BY <1>2, <1>6, <1>h
  <2>3. worker'[w].token <= lastToken'
    BY <1>2, <2>1
  <2>4. QED
    BY <1>k, <2>1, <2>2, <2>3
<1>7. QED
  BY <1>1, <1>3, <1>4, <1>5, <1>6 DEF WorkerEffect, PublishSteps

\* Only the holder of the live claim moves the row.
LEMMA LiveClaimStep ==
    RowInv /\ ClaimInv /\ RowInv' /\ [Next]_vars => LiveClaimIsExclusive'
<1> SUFFICES ASSUME RowInv, ClaimInv, RowInv', [Next]_vars,
                    NEW v \in Workers, NEW u \in Tasks,
                    worker'[v].task = u, claimToken'[u] = worker'[v].token,
                    lease'[u] = "live", ~attached'[u]
             PROVE  /\ status'[u] = IF Publishing(v)' THEN "publishing_entitlement" ELSE "in_progress"
                    /\ Publishing(v)' => worker'[v].payload = entitlement'[u]
  BY DEF LiveClaimIsExclusive, Publishing
<1> DEFINE Kept ==
      /\ status'[u] = IF Publishing(v)' THEN "publishing_entitlement" ELSE "in_progress"
      /\ Publishing(v)' => worker'[v].payload = entitlement'[u]
<1>a. ClaimTypes
  BY DEF RowInv, TypeOK, ClaimTypes
\* v is busy, on an admitted task.
<1>b. worker'[v].token # 0 /\ worker'[v].step # "idle" /\ phase'[u] = "ready"
  <2>1. claimToken'[u] # 0
    BY DEF RowInv, RowsSatisfyChecks
  <2>2. worker'[v].step # "idle"
    BY <2>1 DEF RowInv, IdleWorkers
  <2>3. QED
    BY <2>1, <2>2 DEF RowInv, WorkersOnTasks
\* If v holds its claim already before the step, the row is in the right state.
<1>c. ASSUME worker[v].task = u, claimToken[u] = worker[v].token, lease[u] = "live", ~attached[u]
      PROVE  /\ status[u] = IF Publishing(v) THEN "publishing_entitlement" ELSE "in_progress"
             /\ Publishing(v) => worker[v].payload = entitlement[u]
  BY <1>c DEF ClaimInv, LiveClaimIsExclusive
<1>d. /\ attached[u] /\ phase[u] = "ready" => lease[u] = "none"
      /\ status[u] \in {"absent", "pending"} /\ phase[u] = "ready" => lease[u] = "none"
      /\ worker[v].step # "idle" => phase[worker[v].task] = "ready" /\ worker[v].task \in Tasks
  BY DEF RowInv, AttachedRows, RowsSatisfyChecks, WorkersOnTasks
\* No two workers share a token, and the next one is new.
<1>e. /\ worker[v].token <= lastToken /\ claimToken[u] <= lastToken
      /\ worker[v].token \in Nat
      /\ \A w \in Workers : v # w /\ worker[v].step # "idle" => worker[v].token # worker[w].token
  BY DEF ClaimInv, TokensBounded, TokensUnique, RowInv, TypeOK, WorkerState
\* A row and a worker that stand still keep the property.
<1>f. ASSUME worker'[v] = worker[v], SameRow(u) PROVE Kept
  BY Zenon, <1>c, <1>f DEF SameRow, Publishing
\* A freed row is not u.
<1>g. ASSUME worker'[v] = worker[v],
             (\A x \in Tasks : SameRow(x)) \/ (\E t \in Tasks : Freed(t))
      PROVE  Kept
  BY <1>b, <1>f, <1>g DEF Freed
\* Neither is a row that another worker claims.
<1>h. ASSUME worker'[v] = worker[v], NEW t \in Tasks, Claimed(t) PROVE Kept
  <2>1. worker'[v].token # lastToken + 1
    BY <1>a, <1>e, <1>h DEF ClaimTypes
  <2>2. QED
    BY <1>f, <1>h, <2>1 DEF Claimed
\* A worker that goes on within its part, on rows that stand still.
<1>m. ASSUME NEW w \in Workers, NEW S, Moved(w, S), UNCHANGED taskVars,
             (worker[w].step \in PublishSteps) <=> (S \cap PublishSteps # {}),
             S \subseteq PublishSteps \/ S \cap PublishSteps = {}
      PROVE  Kept
  <2>1. SameRow(u)
    BY <1>m DEF taskVars, SameRow
  <2>2. CASE v = w
    BY Zenon, <1>c, <1>m, <2>1, <2>2 DEF Moved, SameRow, Publishing
  <2>3. CASE v # w
    BY <1>f, <1>m, <2>1, <2>3 DEF Moved
  <2>4. QED
    BY <2>2, <2>3
<1>1. ASSUME NEW t \in Tasks,
             \/ insert_verification_task(t) \/ insert_invoice_pending_task(t)
      PROVE  Kept
  <2>1. /\ UNCHANGED <<worker, entitlement, claimToken, lease, attached>>
        /\ status[t] = "absent" /\ status' = [status EXCEPT ![t] = "pending"]
    BY <1>1 DEF insert_verification_task, insert_invoice_pending_task
  <2>2. u # t
    BY <1>b, <1>c, <2>1 DEF Publishing
  <2>3. QED
    BY <1>a, <1>f, <2>1, <2>2 DEF SameRow, ClaimTypes
<1>2. ASSUME NEW i \in InvoiceWorkers, NEW t \in Tasks, claim_next_invoice_admission(i, t) PROVE Kept
  <2>1. worker'[v] = worker[v]
    BY <1>2 DEF claim_next_invoice_admission
  <2>2. QED
    BY <1>2, <1>h, <2>1, HandlersClaim
<1>3. ASSUME NEW w \in Workers, NEW t \in Tasks, claim_next_verification_task(w, t) PROVE Kept
  <2>1. Took(w, t) /\ Claimable(t) /\ Claimed(t)
    BY Zenon, <1>3, ClaimMoves, HandlersClaim DEF RowInv, claim_next_verification_task
  <2>2. CASE v = w
    <3>1. /\ u = t /\ entitlement' = entitlement
          /\ status' = [status EXCEPT ![t] = IF @ = "pending" THEN "in_progress" ELSE @]
      BY Zenon, <1>3, <2>1, <2>2 DEF claim_next_verification_task, Took
    <3>2. status'[t] = IF status[t] = "publishing_entitlement"
                       THEN "publishing_entitlement" ELSE "in_progress"
      BY <1>a, <2>1, <3>1 DEF Claimable, ClaimTypes
    <3>3. QED
      BY <2>1, <2>2, <3>1, <3>2 DEF Took, Publishing, PublishSteps
  <2>3. CASE v # w
    BY <1>h, <2>1, <2>3 DEF Took
  <2>4. QED
    BY <2>2, <2>3
<1>4. ASSUME NEW t \in Tasks,
             \/ drain_begin_entitlement_publication(t) \/ DrainComplete(t) \/ DrainExpire(t)
      PROVE  Kept
  <2>1. /\ UNCHANGED <<worker, claimToken, lease, attached>> /\ attached[t]
        /\ \E s : status' = [status EXCEPT ![t] = s]
        /\ entitlement' = entitlement \/ \E e : entitlement' = [entitlement EXCEPT ![t] = e]
    BY <1>4 DEF drain_begin_entitlement_publication, DrainComplete, DrainExpire
  <2>2. u # t
    BY <2>1
  <2>3. QED
    BY <1>a, <1>f, <2>1, <2>2 DEF SameRow, ClaimTypes
<1>5. ASSUME NEW t \in Tasks, LeaseExpires(t) PROVE Kept
  <2>1. /\ UNCHANGED <<worker, status, entitlement, claimToken, attached>>
        /\ lease' = [lease EXCEPT ![t] = "expired"]
    BY Zenon, <1>5 DEF LeaseExpires
  <2>2. u # t
    BY <1>a, <2>1 DEF ClaimTypes
  <2>3. QED
    BY <1>a, <1>f, <2>1, <2>2 DEF SameRow, ClaimTypes
<1>6. ASSUME NEW i \in InvoiceWorkers,
             \/ mark_invoice_admission_ready(i) \/ schedule_invoice_admission_retry(i)
             \/ mark_invoice_admission_failed(i)
      PROVE  Kept
  <2>1. worker'[v] = worker[v]
    BY Zenon, <1>6 DEF mark_invoice_admission_ready, schedule_invoice_admission_retry,
        mark_invoice_admission_failed
  <2>2. QED
    BY Zenon, <1>6, <1>g, <2>1, AdmitterFrees
<1>7. ASSUME NEW w \in Workers,
             \/ schedule_verification_task_retry(w) \/ PersistUnsatisfied(w)
             \/ complete_entitlement_publication(w)
      PROVE  Kept
  <2>1. Dropped(w)
    BY Zenon, <1>7, IdleMoves DEF RowInv, schedule_verification_task_retry, PersistUnsatisfied,
        complete_entitlement_publication
  <2>2. worker'[v] = worker[v]
    BY <1>b, <2>1 DEF Dropped
  <2>3. QED
    BY Zenon, <1>7, <1>g, <2>2, WorkerFrees
<1>8. ASSUME NEW w \in Workers, WorkerStops(w) PROVE Kept
  <2>1. Dropped(w) /\ UNCHANGED taskVars
    BY Zenon, <1>8, IdleMoves DEF RowInv, WorkerStops
  <2>2. worker'[v] = worker[v] /\ SameRow(u)
    BY <1>b, <2>1 DEF Dropped, SameRow, taskVars
  <2>3. QED
    BY Zenon, <1>f, <2>2
<1>9. ASSUME NEW w \in Workers, begin_entitlement_publication(w) PROVE Kept
  <2>1. UNCHANGED <<claimToken, lease, attached>>
    BY <1>9 DEF begin_entitlement_publication
  <2>2. CASE Dropped(w) /\ UNCHANGED <<status, entitlement>>
    <3>1. worker'[v] = worker[v] /\ SameRow(u)
      BY <1>b, <2>1, <2>2 DEF Dropped, SameRow
    <3>2. QED
      BY <1>f, <3>1
  <2>3. CASE /\ worker[w].step = "begin" /\ Began(w)
             /\ status' = [status EXCEPT ![worker[w].task] = "publishing_entitlement"]
             /\ entitlement' = [entitlement EXCEPT ![worker[w].task] = worker[w].token]
    <3>1. worker[w].task \in Tasks
      BY <2>3 DEF RowInv, WorkersOnTasks
    <3>2. CASE v = w
      BY <1>a, <2>3, <3>1, <3>2 DEF Began, Publishing, PublishSteps, ClaimTypes
    <3>3. CASE v # w
      <4>1. worker'[v] = worker[v]
        BY <2>3, <3>3 DEF Began
      <4>2. claimToken[worker[w].task] = worker[w].token
        <5>1. worker'[w].step # "idle"
          BY <2>3 DEF Began
        <5>2. worker' # [worker EXCEPT ![w] = Idle]
          BY <5>1, IdleMoves DEF RowInv, Dropped
        <5>3. QED
          BY <1>9, <5>2 DEF begin_entitlement_publication, OwnsLiveClaim
      <4>3. u # worker[w].task
        BY <1>b, <1>e, <2>1, <3>3, <4>1, <4>2
      <4>4. SameRow(u)
        BY <1>a, <2>1, <2>3, <3>1, <4>3 DEF SameRow, ClaimTypes
      <4>5. QED
        BY <1>f, <4>1, <4>4
    <3>4. QED
      BY <3>2, <3>3
  <2>4. QED
    BY <1>9, <2>2, <2>3, BeginMoves DEF RowInv
<1>10. ASSUME NEW w \in Workers, Verify(w) PROVE Kept
  <2>1. worker[w].step = "evaluate" /\ Moved(w, DecideSteps) /\ UNCHANGED taskVars
    BY <1>10, VerifyMoves DEF RowInv, Verify
  <2>2. DecideSteps \cap PublishSteps = {} /\ worker[w].step \notin PublishSteps
    BY <2>1 DEF DecideSteps, PublishSteps
  <2>3. QED
    BY <1>m, <2>1, <2>2
<1>11. ASSUME NEW w \in Workers, ProbeBundle(w) PROVE Kept
  <2>1. worker[w].step = "probe" /\ Moved(w, {"put", "read_back"}) /\ UNCHANGED taskVars
    BY <1>11, ProbeMoves DEF RowInv, ProbeBundle
  <2>2. /\ worker[w].step \in PublishSteps /\ {"put", "read_back"} \subseteq PublishSteps
        /\ {"put", "read_back"} \cap PublishSteps # {}
    BY <2>1 DEF PublishSteps
  <2>3. QED
    BY <1>m, <2>1, <2>2
<1>12. ASSUME NEW w \in Workers, PutBundle(w) PROVE Kept
  <2>1. worker[w].step = "put" /\ Moved(w, {"read_back"}) /\ UNCHANGED taskVars
    BY Zenon, <1>12, PutMoves DEF RowInv, PutBundle
  <2>2. /\ worker[w].step \in PublishSteps /\ {"read_back"} \subseteq PublishSteps
        /\ {"read_back"} \cap PublishSteps # {}
    BY <2>1 DEF PublishSteps
  <2>3. QED
    BY <1>m, <2>1, <2>2
<1>13. ASSUME NEW w \in Workers, ReadBackBundle(w) PROVE Kept
  <2>1. /\ worker[w].step = "read_back" /\ UNCHANGED taskVars
        /\ Dropped(w) \/ Moved(w, {"complete"})
    BY Zenon, <1>13, ReadBackMoves DEF RowInv, ReadBackBundle
  <2>2. CASE Dropped(w)
    <3>1. worker'[v] = worker[v] /\ SameRow(u)
      BY <1>b, <2>1, <2>2 DEF Dropped, SameRow, taskVars
    <3>2. QED
      BY <1>f, <3>1
  <2>3. CASE Moved(w, {"complete"})
    <3>1. /\ worker[w].step \in PublishSteps /\ {"complete"} \subseteq PublishSteps
          /\ {"complete"} \cap PublishSteps # {}
      BY <2>1 DEF PublishSteps
    <3>2. QED
      BY <1>m, <2>1, <2>3, <3>1
  <2>4. QED
    BY <2>1, <2>2, <2>3
<1>14. ASSUME insert_job PROVE Kept
  <2>1. phase'[u] = phase[u] /\ worker' = worker
    BY <1>14 DEF insert_job
  <2>2. lease'[u] = "none"
    BY <1>14, <1>b, <2>1 DEF insert_job
  <2>3. QED
    BY <2>2
<1>15. ASSUME expire_unresolved_non_paykit_tasks PROVE Kept
  <2>1. /\ UNCHANGED <<worker, entitlement, claimToken, lease, attached>>
        /\ status'[u] = IF u \notin PaykitTasks /\ attached[u] /\ status[u] \in {"pending", "in_progress"}
                        THEN "expired" ELSE status[u]
    BY Zenon, <1>15 DEF expire_unresolved_non_paykit_tasks
  <2>2. QED
    BY <1>f, <2>1 DEF SameRow
<1>16. ASSUME complete_force_deletion PROVE Kept
  <2>1. UNCHANGED <<worker, status, phase, entitlement, claimToken, lease>>
    BY Zenon, <1>16 DEF complete_force_deletion
  <2>2. ~attached[u]
    BY Zenon, <1>b, <1>d, <2>1
  <2>3. attached[u] \in BOOLEAN
    BY <1>a DEF ClaimTypes
  <2>4. attached[u] = FALSE
    BY <2>2, <2>3, Zenon
  <2>5. attached'[u] = FALSE
    BY Zenon, <1>16 DEF complete_force_deletion
  <2>6. attached'[u] = attached[u]
    BY <2>4, <2>5, Zenon
  <2>7. QED
    BY Zenon, <1>f, <2>1, <2>6 DEF SameRow
<1>17. ASSUME NEW t \in Tasks,
             \/ DrainPutBundle(t) \/ RetryDue(t) \/ AdmissionDeadlinePasses(t)
      PROVE  Kept
  <2>1. UNCHANGED <<status, claimToken, lease, attached, entitlement, worker>>
    BY Zenon, <1>17 DEF DrainPutBundle, RetryDue, AdmissionDeadlinePasses, taskVars
  <2>2. QED
    BY Zenon, <1>f, <2>1 DEF SameRow
<1>18. ASSUME NEW i \in InvoiceWorkers, create_invoice(i) \/ AdmitterStops(i)
      PROVE  Kept
  <2>1. UNCHANGED <<status, claimToken, lease, attached, entitlement, worker>>
    BY <1>18 DEF create_invoice, AdmitterStops, taskVars
  <2>2. QED
    BY <1>f, <2>1 DEF SameRow
<1>19. ASSUME prepare_force_deletion \/ withdraw_content_lock \/ UNCHANGED vars
      PROVE  Kept
  <2>1. UNCHANGED <<status, claimToken, lease, attached, entitlement, worker>>
    BY <1>19 DEF prepare_force_deletion, withdraw_content_lock, vars, taskVars
  <2>2. QED
    BY <1>f, <2>1 DEF SameRow
<1>20. QED
  BY Zenon, <1>1, <1>2, <1>3, <1>4, <1>5, <1>6, <1>7, <1>8, <1>9, <1>10, <1>11, <1>12,
      <1>13, <1>14, <1>15, <1>16, <1>17, <1>18, <1>19
  DEF Next, TaskStep, WorkerStep, AdmitterStep

\* An admission becomes ready only after Paykit answered.
LEMMA InvoiceStep == RowInv /\ InvoiceHeld /\ [Next]_vars => InvoiceHeld'
<1> SUFFICES ASSUME RowInv, InvoiceHeld, [Next]_vars PROVE InvoiceHeld'
  OBVIOUS
<1>a. /\ status \in [Tasks -> Status]
      /\ phase \in [Tasks -> {"invoice_pending", "ready", "failed"}]
      /\ invoices \in [Tasks -> BOOLEAN]
      /\ admitter \in [InvoiceWorkers -> AdmitterState]
      /\ AdmittersOnTasks
      /\ \A t \in Tasks : phase[t] = "invoice_pending" => status[t] = "pending"
  BY DEF RowInv, TypeOK, RowsSatisfyChecks
<1> USE PaykitTasksAssumption, <1>a DEF taskVars, deletionVars, externalVars,
      InvoiceHeld, AdmittersOnTasks, AdmitterState, Idle
<1>1. ASSUME NEW t \in Tasks, insert_verification_task(t)
      PROVE  InvoiceHeld'
  BY <1>1 DEF insert_verification_task
<1>2. ASSUME NEW t \in Tasks, insert_invoice_pending_task(t)
      PROVE  InvoiceHeld'
  BY <1>2 DEF insert_invoice_pending_task
<1>3. ASSUME NEW i \in InvoiceWorkers, NEW t \in Tasks, claim_next_invoice_admission(i, t)
      PROVE  InvoiceHeld'
  BY <1>3 DEF claim_next_invoice_admission, TakeClaim
<1>4. ASSUME NEW w \in Workers, NEW t \in Tasks, claim_next_verification_task(w, t)
      PROVE  InvoiceHeld'
  BY Zenon, <1>4 DEF claim_next_verification_task, TakeClaim, Claimable, StartClaimed
<1>5. ASSUME NEW t \in Tasks, drain_begin_entitlement_publication(t)
      PROVE  InvoiceHeld'
  BY <1>5 DEF drain_begin_entitlement_publication
<1>6. ASSUME NEW t \in Tasks, DrainComplete(t)
      PROVE  InvoiceHeld'
  BY <1>6 DEF DrainComplete
<1>7. ASSUME NEW t \in Tasks, DrainExpire(t)
      PROVE  InvoiceHeld'
  BY <1>7 DEF DrainExpire
<1>8. ASSUME NEW i \in InvoiceWorkers, create_invoice(i)
      PROVE  InvoiceHeld'
  <2>1. \A t \in Tasks : invoices[t] => invoices'[t]
    BY <1>8 DEF create_invoice
  <2>2. ASSUME NEW j \in InvoiceWorkers, admitter'[j].step = "ready"
        PROVE  invoices'[admitter'[j].task]
    <3>1. CASE j = i
      <4>1. /\ invoices' = [invoices EXCEPT ![admitter[i].task] = TRUE]
            /\ admitter' = [admitter EXCEPT ![i].step = "ready"]
        BY <1>8, <2>2, <3>1 DEF create_invoice
      <4>2. admitter[i].task \in Tasks /\ admitter'[i].task = admitter[i].task
        BY <1>8, <4>1 DEF create_invoice
      <4>3. QED
        BY <3>1, <4>1, <4>2
    <3>2. CASE j # i
      BY <1>8, <2>1, <2>2, <3>2 DEF create_invoice
    <3>3. QED
      BY <3>1, <3>2
  <2>3. status' = status /\ phase' = phase
    BY <1>8 DEF create_invoice
  <2>4. QED
    BY <2>1, <2>2, <2>3
<1>9. ASSUME NEW i \in InvoiceWorkers, mark_invoice_admission_ready(i)
      PROVE  InvoiceHeld'
  <2>1. \A j \in InvoiceWorkers : admitter'[j].step = "ready" => admitter'[j] = admitter[j]
    BY <1>9 DEF mark_invoice_admission_ready
  <2>2. invoices[admitter[i].task] /\ invoices' = invoices
    BY <1>9 DEF mark_invoice_admission_ready
  <2>3. \A t \in Tasks : phase'[t] = "ready" /\ status'[t] # "absent" =>
            t = admitter[i].task \/ (phase[t] = "ready" /\ status[t] # "absent")
    BY <1>9 DEF mark_invoice_admission_ready, ClearClaim
  <2>4. QED
    BY <2>1, <2>2, <2>3
<1>10. ASSUME NEW i \in InvoiceWorkers, schedule_invoice_admission_retry(i)
      PROVE  InvoiceHeld'
  BY <1>10 DEF schedule_invoice_admission_retry, OwnsLiveClaim, ClearClaim
<1>11. ASSUME NEW i \in InvoiceWorkers, mark_invoice_admission_failed(i)
      PROVE  InvoiceHeld'
  <2>1. \A j \in InvoiceWorkers : admitter'[j].step = "ready" => admitter'[j] = admitter[j]
    BY <1>11 DEF mark_invoice_admission_failed
  <2>2. /\ invoices' = invoices
        /\ \A t \in Tasks : phase'[t] = "ready" /\ status'[t] # "absent" =>
              phase[t] = "ready" /\ status[t] # "absent"
    BY <1>11 DEF mark_invoice_admission_failed, ClearClaim
  <2>3. QED
    BY <2>1, <2>2
<1>12. ASSUME NEW i \in InvoiceWorkers, AdmitterStops(i)
      PROVE  InvoiceHeld'
  BY <1>12 DEF AdmitterStops
<1>13. ASSUME NEW w \in Workers, schedule_verification_task_retry(w)
      PROVE  InvoiceHeld'
  BY <1>13 DEF schedule_verification_task_retry, OwnsLiveClaim, ClearClaim
<1>14. ASSUME NEW w \in Workers, PersistUnsatisfied(w)
      PROVE  InvoiceHeld'
  BY <1>14 DEF PersistUnsatisfied, OwnsLiveClaim, ClearClaim
<1>15. ASSUME NEW w \in Workers, begin_entitlement_publication(w)
      PROVE  InvoiceHeld'
  BY <1>15 DEF begin_entitlement_publication, OwnsLiveClaim
<1>16. ASSUME NEW w \in Workers, complete_entitlement_publication(w)
      PROVE  InvoiceHeld'
  BY Zenon, <1>16 DEF complete_entitlement_publication, OwnsLiveClaim, ClearClaim
<1>17. ASSUME insert_job PROVE InvoiceHeld'
  BY Zenon, <1>17 DEF insert_job, Submitted
<1>18. ASSUME expire_unresolved_non_paykit_tasks PROVE InvoiceHeld'
  BY <1>18 DEF expire_unresolved_non_paykit_tasks
<1>19. ASSUME NEW t \in Tasks,
             \/ DrainPutBundle(t) \/ LeaseExpires(t) \/ RetryDue(t)
             \/ AdmissionDeadlinePasses(t)
      PROVE  InvoiceHeld'
  <2>1. UNCHANGED <<status, phase, invoices, admitter>>
    BY <1>19 DEF DrainPutBundle, LeaseExpires, RetryDue,
        AdmissionDeadlinePasses
  <2>2. QED
    BY <2>1
<1>20. ASSUME NEW w \in Workers,
             \/ Verify(w) \/ ProbeBundle(w) \/ PutBundle(w) \/ ReadBackBundle(w)
             \/ WorkerStops(w)
      PROVE  InvoiceHeld'
  <2>1. UNCHANGED <<status, phase, invoices, admitter>>
    BY <1>20 DEF Verify, ProbeBundle, PutBundle, ReadBackBundle, WorkerStops
  <2>2. QED
    BY <2>1
<1>21. ASSUME \/ prepare_force_deletion \/ withdraw_content_lock
             \/ complete_force_deletion \/ UNCHANGED vars
      PROVE  InvoiceHeld'
  <2>1. UNCHANGED <<status, phase, invoices, admitter>>
    BY <1>21 DEF prepare_force_deletion, withdraw_content_lock,
        complete_force_deletion, vars
  <2>2. QED
    BY <2>1
<1>22. QED
  BY Zenon, <1>1, <1>2, <1>3, <1>4, <1>5, <1>6, <1>7, <1>8, <1>9, <1>10, <1>11,
      <1>12, <1>13, <1>14, <1>15, <1>16, <1>17, <1>18, <1>19, <1>20, <1>21 DEF
      Next, TaskStep, WorkerStep, AdmitterStep

-----------------------------------------------------------------------------
LEMMA InitIInv == Init => IInv
<1> SUFFICES ASSUME Init PROVE IInv
  OBVIOUS
<1>1. RowInv
  <2>1. RowsSatisfyChecks /\ AttachedRows
    BY DEF Init, RowsSatisfyChecks, AttachedRows
  <2>2. WorkersOnTasks /\ IdleWorkers /\ AdmittersOnTasks
    BY DEF Init, WorkersOnTasks, IdleWorkers, AdmittersOnTasks, Idle
  <2>3. QED
    BY <2>1, <2>2, InitType DEF RowInv
<1>2. PublicationInv
  BY DEF Init, PublicationInv, PublishersCarryPayload, BundlesArePayloads, ReadBackMatched,
      CompletedIsPublished, PublishSteps, Idle
<1>3. ClaimInv
  BY DEF Init, ClaimInv, TokensBounded, TokensUnique, LiveClaimIsExclusive, Idle
<1>4. InvoiceHeld
  BY PaykitTasksAssumption DEF Init, InvoiceHeld, Idle
<1>5. QED
  BY <1>1, <1>2, <1>3, <1>4 DEF IInv

LEMMA StepIInv == IInv /\ [Next]_vars => IInv'
<1> SUFFICES ASSUME IInv, [Next]_vars PROVE IInv'
  OBVIOUS
<1>1. RowInv /\ PublicationInv /\ ClaimInv /\ InvoiceHeld
  BY DEF IInv
<1>2. TypeOK'
  BY <1>1, TypeStep DEF RowInv
<1>3. RowInv'
  BY <1>1, <1>2, RowsStep, WorkersStep, AdmittersStep, AttachedStep DEF RowInv
<1>4. PublicationInv'
  BY <1>1, <1>2, PayloadStep, BundlesStep, ReadBackStep DEF PublicationInv
<1>5. ClaimInv'
  BY <1>1, <1>2, <1>3, TokensStep, LiveClaimStep DEF ClaimInv, RowInv
<1>6. InvoiceHeld'
  BY <1>1, <1>2, InvoiceStep
<1>7. QED
  BY <1>3, <1>4, <1>5, <1>6 DEF IInv

\* The inductive invariant holds in every reachable state.
THEOREM Invariance == Spec => []IInv
BY InitIInv, StepIInv, PTL DEF Spec

\* No statement of any handler violates what the CHECK constraints of
\* verification_tasks say of a row's start time, payload, claim and admission phase.
THEOREM ChecksHold == Spec => []RowsSatisfyChecks
<1>1. IInv => RowsSatisfyChecks
  BY DEF IInv, RowInv
<1>2. QED
  BY <1>1, Invariance, PTL

\* A bundle on the homeserver is the payload its row made durable, whatever workers
\* crash, stall or replay publish_entitlement_and_complete.
THEOREM PublicationSafe == Spec => []PublishedIsPersisted
<1>1. IInv => PublishedIsPersisted
  BY DEF IInv, RowInv, TypeOK, PublicationInv, PublishedIsPersisted, BundlesArePayloads,
      RowsSatisfyChecks
<1>2. QED
  BY <1>1, Invariance, PTL

\* A task is completed only with its payload stored (the read-back of
\* publish_entitlement_and_complete and of the drain).
THEOREM CompletionSafe == Spec => []CompletedIsPublished
<1>1. IInv => CompletedIsPublished
  BY DEF IInv, PublicationInv
<1>2. QED
  BY <1>1, Invariance, PTL

\* The claim token and its lease fence every worker write: while the lease lives
\* nobody else moves the task.
THEOREM ClaimFence == Spec => []LiveClaimIsExclusive
<1>1. IInv => LiveClaimIsExclusive
  BY DEF IInv, ClaimInv
<1>2. QED
  BY <1>1, Invariance, PTL

\* No Paykit task is evaluated before Paykit holds its invoice.
THEOREM AdmissionSafe == Spec => []AdmittedBeforeVerified
<1>1. IInv => AdmittedBeforeVerified
  BY PaykitTasksAssumption DEF IInv, RowInv, TypeOK, RowsSatisfyChecks, InvoiceHeld,
      AdmittedBeforeVerified
<1>2. QED
  BY <1>1, Invariance, PTL

\* Terminal statuses are final and a begun publication can only complete.
THEOREM OutcomeFinal == Spec => OutcomeIsFinal
<1>1. IInv /\ [Next]_vars => [OutcomeStands]_vars
  BY OutcomeStep, TypeStep DEF IInv, RowInv
<1>2. QED
  BY <1>1, Invariance, PTL DEF Spec, OutcomeIsFinal

=============================================================================
