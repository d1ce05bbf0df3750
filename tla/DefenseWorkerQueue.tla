------------------------ MODULE DefenseWorkerQueue ------------------------
(***************************************************************************)
(* The Defense worker queue: table defense_worker_jobs, the owner's        *)
(* enqueue call and the loop of every cmd/defense-worker process           *)
(* (internal/defense/worker.go, litesvm_runner.go).  A SQL statement is    *)
(* one step; everything between two statements may interleave with the     *)
(* other processes, and a process may stall or die there.                  *)
(***************************************************************************)
EXTENDS Naturals, Sequences

CONSTANTS Jobs,        \* job references: each names at most one row
          Requests,    \* request hashes of run_litesvm_harness jobs
          NoRequest,   \* a verify_bundle job: its nonce makes its hash unique
          NoJob,       \* no job held, no row matched
          Clients,     \* owner HTTP requests in flight
          Workers,     \* worker processes
          WorkerIds,   \* values of KOSCHEI_DEFENSE_WORKER_ID
          NoWorker,    \* worker_id IS NULL
          IdOf,        \* the identifier each process was started with
          Asked,       \* the max_attempts values clients send
          JobTimeout,  \* jobTimeout, in clock units
          Slack,       \* the 60 s main.go adds to it for the lease
          MaxLease,    \* the one hour above which ClaimWorkerJob ignores it
          DefaultLease,\* defaultWorkerLease
          Prompt       \* TRUE: a live process settles by its job timeout

\* A mutant of EffectiveLease: the lease is exactly the job timeout.
EffectiveLease_NoSlack == JobTimeout

\* ClaimWorkerJob: a lease of zero or above one hour falls back to ten minutes.
EffectiveLease ==
  LET asked == JobTimeout + Slack
  IN  IF asked = 0 \/ asked > MaxLease THEN DefaultLease ELSE asked

ASSUME NamesAssumption ==
  /\ NoRequest \notin Requests
  /\ NoJob \notin Jobs
  /\ NoWorker \notin WorkerIds
  /\ IdOf \in [Workers -> WorkerIds]

ASSUME TimesAssumption ==
  /\ Asked \subseteq Nat
  /\ JobTimeout \in Nat /\ Slack \in Nat
  /\ MaxLease \in Nat /\ DefaultLease \in Nat \ {0}
  /\ Prompt \in BOOLEAN

VARIABLES
  \* the row of each job
  status, request, maxAttempts, attempts, workerId, leaseLeft, settledBy,
  \* rows of defense_litesvm_execution_attempts, and the "completed" and
  \* "failed" rows of defense_worker_job_events
  records, events,
  \* each worker process: where it is, the job it holds, under which attempt
  phase, held, attempt, workLeft,
  \* each enqueue call: where it is and the row it wrote or met
  call, callJob, callRequest,
  \* the rows in the order of their queued_at
  order

rowVars == <<status, request, maxAttempts, attempts, workerId, leaseLeft, settledBy>>
logVars == <<records, events>>
workerVars == <<phase, held, attempt, workLeft>>
callVars == <<call, callJob, callRequest>>
vars == <<rowVars, logVars, workerVars, callVars, order>>

-----------------------------------------------------------------------------
Active == {"queued", "running"}
Terminal == {"completed", "failed"}
Working == {"ready", "running", "completing", "failing"}
Phases == Working \cup Terminal \cup {"idle"}

Busy(w) == phase[w] \in Working

Init ==
  /\ status = [j \in Jobs |-> "absent"]
  /\ request = [j \in Jobs |-> NoRequest]
  /\ maxAttempts = [j \in Jobs |-> 0]
  /\ attempts = [j \in Jobs |-> 0]
  /\ workerId = [j \in Jobs |-> NoWorker]
  /\ leaseLeft = [j \in Jobs |-> 0]
  /\ settledBy = [j \in Jobs |-> 0]
  /\ records = {} /\ events = {}
  /\ phase = [w \in Workers |-> "idle"]
  /\ held = [w \in Workers |-> NoJob]
  /\ attempt = [w \in Workers |-> 0]
  /\ workLeft = [w \in Workers |-> 0]
  /\ call = [c \in Clients |-> "idle"]
  /\ callJob = [c \in Clients |-> NoJob]
  /\ callRequest = [c \in Clients |-> NoRequest]
  /\ order = <<>>
-----------------------------------------------------------------------------
(***************************************************************************)
(* EnqueueWorkerJob.                                                       *)
(***************************************************************************)
\* Two attempts at most for a LiteSVM run, five for a verification; any other
\* number a client asks for becomes two.
AttemptLimit(r, asked) ==
  IF asked \in 1 .. (IF r = NoRequest THEN 5 ELSE 2) THEN asked ELSE 2

ActiveFor(r) == {j \in Jobs : request[j] = r /\ status[j] \in Active}

\* A mutant of Conflicts: the index leaves running jobs out.
Conflicts_QueuedOnly(r) ==
  r \in Requests /\ \E j \in Jobs : request[j] = r /\ status[j] = "queued"

\* The partial unique index defense_worker_jobs_active_litesvm_request_unique.
Conflicts(r) == r \in Requests /\ ActiveFor(r) # {}

EndCall(c) ==
  /\ call' = [call EXCEPT ![c] = "idle"]
  /\ callJob' = [callJob EXCEPT ![c] = NoJob]
  /\ callRequest' = [callRequest EXCEPT ![c] = NoRequest]

\* INSERT ... ON CONFLICT DO NOTHING, the row being new.
InsertJob(c, j, r, asked) ==
  /\ call[c] = "idle" /\ status[j] = "absent"
  /\ ~Conflicts(r)
  /\ status' = [status EXCEPT ![j] = "queued"]
  /\ request' = [request EXCEPT ![j] = r]
  /\ maxAttempts' = [maxAttempts EXCEPT ![j] = AttemptLimit(r, asked)]
  /\ order' = Append(order, j)
  /\ call' = [call EXCEPT ![c] = IF r = NoRequest THEN "announce" ELSE "lookup"]
  /\ callJob' = [callJob EXCEPT ![c] = j]
  /\ callRequest' = [callRequest EXCEPT ![c] = r]
  /\ UNCHANGED <<attempts, workerId, leaseLeft, settledBy, logVars, workerVars>>

\* The same statement when an active job answers the request already.
InsertConflicts(c, r) ==
  /\ call[c] = "idle" /\ Conflicts(r)
  /\ call' = [call EXCEPT ![c] = "lookup"]
  /\ callRequest' = [callRequest EXCEPT ![c] = r]
  /\ UNCHANGED <<rowVars, logVars, workerVars, callJob, order>>

\* The SELECT that follows: the caller's own row goes on to its "queued" event;
\* another's row is returned; no active row (it has settled since) is an error.
LookupActive(c) ==
  /\ call[c] = "lookup"
  /\ IF callJob[c] \in ActiveFor(callRequest[c])
     THEN /\ call' = [call EXCEPT ![c] = "announce"]
          /\ UNCHANGED <<callJob, callRequest>>
     ELSE EndCall(c)
  /\ UNCHANGED <<rowVars, logVars, workerVars, order>>

\* The "queued" event, which nothing reads back; or the API process dies, the
\* request is cancelled, or a statement fails: either way the call is over.
CallEnds(c) ==
  /\ call[c] # "idle"
  /\ EndCall(c)
  /\ UNCHANGED <<rowVars, logVars, workerVars, order>>
-----------------------------------------------------------------------------
(***************************************************************************)
(* ClaimWorkerJob.                                                         *)
(***************************************************************************)
LeaseExpired(j) == status[j] = "running" /\ leaseLeft[j] = 0

\* Mutants of Claimable: no bound on attempts; expired leases never recovered.
Claimable_Unbounded(j) == status[j] = "queued" \/ LeaseExpired(j)
Claimable_QueuedOnly(j) == attempts[j] < maxAttempts[j] /\ status[j] = "queued"

Claimable(j) ==
  /\ attempts[j] < maxAttempts[j]
  /\ status[j] = "queued" \/ LeaseExpired(j)

QueuedBefore(j, k) ==
  \E m, n \in DOMAIN order : m < n /\ order[m] = j /\ order[n] = k

\* ORDER BY: recovered leases first, then the oldest.
ClaimsBefore(j, k) ==
  \/ status[j] = "running" /\ status[k] = "queued"
  \/ status[j] = status[k] /\ QueuedBefore(j, k)

NextToClaim(j) ==
  /\ Claimable(j)
  /\ \A k \in Jobs \ {j} : Claimable(k) => ClaimsBefore(j, k)

\* A mutant of NextAttempt: only a fresh job counts the attempt.
NextAttempt_FreshOnly(j) == IF status[j] = "queued" THEN attempts[j] + 1 ELSE attempts[j]

NextAttempt(j) == attempts[j] + 1

ClaimRow(w, j) ==
  /\ phase[w] = "idle"
  /\ NextToClaim(j)
  /\ status' = [status EXCEPT ![j] = "running"]
  /\ attempts' = [attempts EXCEPT ![j] = NextAttempt(j)]
  /\ workerId' = [workerId EXCEPT ![j] = IdOf[w]]
  /\ leaseLeft' = [leaseLeft EXCEPT ![j] = EffectiveLease]
  /\ UNCHANGED <<request, maxAttempts, settledBy>>

Claim(w, j) ==
  /\ ClaimRow(w, j)
  /\ phase' = [phase EXCEPT ![w] = "ready"]
  /\ held' = [held EXCEPT ![w] = j]
  /\ attempt' = [attempt EXCEPT ![w] = NextAttempt(j)]
  /\ workLeft' = [workLeft EXCEPT ![w] = JobTimeout]
  /\ UNCHANGED <<logVars, callVars, order>>

\* The statement commits but its answer is lost (the 10 s claim timeout, a
\* connection reset, a payload that no longer decodes): nobody works on the job.
ClaimReplyLost(w, j) ==
  /\ ClaimRow(w, j)
  /\ UNCHANGED <<logVars, workerVars, callVars, order>>
-----------------------------------------------------------------------------
(***************************************************************************)
(* One job in the hands of a worker.                                       *)
(***************************************************************************)
Token(w) == <<held[w], attempt[w]>>

GoTo(w, p) == phase' = [phase EXCEPT ![w] = p]

\* ProcessWorkerJobWithRuntime returns an error before any command starts.
Refuse(w) ==
  /\ phase[w] = "ready"
  /\ GoTo(w, "failing")
  /\ UNCHANGED <<rowVars, logVars, held, attempt, workLeft, callVars, order>>

\* The sandbox cannot be set up: a "rejected" attempt is stored, and the job
\* is completed with it.
RejectStart(w) ==
  /\ phase[w] = "ready" /\ request[held[w]] \in Requests
  /\ records' = records \cup {Token(w)}
  /\ GoTo(w, "completing")
  /\ UNCHANGED <<rowVars, events, held, attempt, workLeft, callVars, order>>

Launch(w) ==
  /\ phase[w] = "ready"
  /\ GoTo(w, "running")
  /\ UNCHANGED <<rowVars, logVars, held, attempt, workLeft, callVars, order>>

\* A mutant of RecordsAfter: the attempts of a recovered job are not stored.
RecordsAfter_FirstOnly(w) ==
  IF request[held[w]] \in Requests /\ attempt[w] = 1 THEN records \cup {Token(w)} ELSE records

\* What an ended LiteSVM run leaves behind; a verification stores no attempt.
RecordsAfter(w) ==
  IF request[held[w]] \in Requests THEN records \cup {Token(w)} ELSE records

\* The command exits, or the profile's own time budget ends it.
RunEnds(w) ==
  /\ phase[w] = "running"
  /\ records' = RecordsAfter(w)
  /\ GoTo(w, "completing")
  /\ UNCHANGED <<rowVars, events, held, attempt, workLeft, callVars, order>>

\* SIGTERM or the job timeout cancels the context: the command is killed, and
\* the INSERT of the attempt, under the same context, is refused.  A database
\* error in that INSERT takes the same path.
RunCancelled(w) ==
  /\ phase[w] = "running"
  /\ GoTo(w, "failing")
  /\ UNCHANGED <<rowVars, logVars, held, attempt, workLeft, callVars, order>>

\* The INSERT of an attempt, of a run or of a rejection, commits; its reply is
\* lost, or the SELECT that reads the attempt back fails.
StoreUnanswered(w) ==
  /\ phase[w] \in {"ready", "running"} /\ request[held[w]] \in Requests
  /\ records' = records \cup {Token(w)}
  /\ GoTo(w, "failing")
  /\ UNCHANGED <<rowVars, events, held, attempt, workLeft, callVars, order>>
-----------------------------------------------------------------------------
(***************************************************************************)
(* CompleteWorkerJob and FailWorkerJob.                                    *)
(***************************************************************************)
\* Mutants of OwnsRow: any worker's running row; any row, WHERE job_ref=$1 alone.
OwnsRow_AnyWorker(w) == status[held[w]] = "running"
OwnsRow_ByIdOnly(w) == status[held[w]] # "absent"

\* WHERE status='running' AND worker_id=$2.
OwnsRow(w) == status[held[w]] = "running" /\ workerId[held[w]] = IdOf[w]

Letgo(w) ==
  /\ held' = [held EXCEPT ![w] = NoJob]
  /\ attempt' = [attempt EXCEPT ![w] = 0]
  /\ workLeft' = [workLeft EXCEPT ![w] = 0]

Outcome(w) == IF phase[w] = "completing" THEN "completed" ELSE "failed"

SettleRow(w) ==
  /\ phase[w] \in {"completing", "failing"} /\ OwnsRow(w)
  /\ status' = [status EXCEPT ![held[w]] = Outcome(w)]
  /\ leaseLeft' = [leaseLeft EXCEPT ![held[w]] = 0]
  /\ settledBy' = [settledBy EXCEPT ![held[w]] = attempt[w]]
  /\ GoTo(w, Outcome(w))
  /\ UNCHANGED <<request, maxAttempts, attempts, workerId, logVars, held, attempt,
                 workLeft, callVars, order>>

\* No row matches ("lease was lost"), or the database refuses the statement.
SettleFails(w) ==
  /\ phase[w] \in {"completing", "failing"}
  /\ GoTo(w, "idle") /\ Letgo(w)
  /\ UNCHANGED <<rowVars, logVars, callVars, order>>

\* The terminal event, in a statement of its own; its failure is only logged.
AppendSettled(w) ==
  /\ phase[w] \in Terminal
  /\ \/ events' = events \cup {<<held[w], phase[w], attempt[w]>>}
     \/ UNCHANGED events
  /\ GoTo(w, "idle") /\ Letgo(w)
  /\ UNCHANGED <<rowVars, records, callVars, order>>
-----------------------------------------------------------------------------
\* A process dies with a job in hand, and the platform starts another in its
\* place with the same identifier.  (An idle one that dies changes nothing.)
Crash(w) ==
  /\ phase[w] # "idle"
  /\ GoTo(w, "idle") /\ Letgo(w)
  /\ UNCHANGED <<rowVars, logVars, callVars, order>>

LessOne(n) == IF n > 0 THEN n - 1 ELSE 0

\* Time passes for every lease and every worker.  A prompt process acts before
\* its job timeout is overrun; one that is not may be suspended for any time.
Tick ==
  /\ Prompt => \A w \in Workers : Busy(w) => workLeft[w] > 0
  /\ leaseLeft' = [j \in Jobs |-> LessOne(leaseLeft[j])]
  /\ workLeft' = [w \in Workers |-> LessOne(workLeft[w])]
  /\ UNCHANGED <<status, request, maxAttempts, attempts, workerId, settledBy, logVars,
                 phase, held, attempt, callVars, order>>
-----------------------------------------------------------------------------
ClientStep(c) ==
  \/ \E j \in Jobs, r \in Requests \cup {NoRequest}, n \in Asked : InsertJob(c, j, r, n)
  \/ \E r \in Requests : InsertConflicts(c, r)
  \/ LookupActive(c) \/ CallEnds(c)

JobStep(w) ==
  \/ Refuse(w) \/ RejectStart(w) \/ Launch(w)
  \/ RunEnds(w) \/ RunCancelled(w) \/ StoreUnanswered(w)
  \/ SettleRow(w) \/ SettleFails(w) \/ AppendSettled(w)

WorkerStep(w) ==
  \/ \E j \in Jobs : Claim(w, j) \/ ClaimReplyLost(w, j)
  \/ JobStep(w)
  \/ Crash(w)

Next ==
  \/ \E c \in Clients : ClientStep(c)
  \/ \E w \in Workers : WorkerStep(w)
  \/ Tick

Spec == Init /\ [][Next]_vars

(***************************************************************************)
(* The loop of main.go never stops claiming, every processor ends under    *)
(* its timeout, and time passes.                                           *)
(***************************************************************************)
Fairness ==
  /\ \A w \in Workers :
       /\ WF_vars(\E j \in Jobs : Claim(w, j))
       /\ WF_vars(JobStep(w))
  /\ WF_vars(Tick)

FairSpec == Spec /\ Fairness
-----------------------------------------------------------------------------
(***************************************************************************)
(* Properties.                                                             *)
(***************************************************************************)
\* Every variable keeps its type; no job is attempted more often than its
\* max_attempts (ClaimWorkerJob's attempts < max_attempts).
TypeOK ==
  /\ status \in [Jobs -> Active \cup Terminal \cup {"absent"}]
  /\ request \in [Jobs -> Requests \cup {NoRequest}]
  /\ maxAttempts \in [Jobs -> Nat] /\ attempts \in [Jobs -> Nat]
  /\ \A j \in Jobs : attempts[j] <= maxAttempts[j]
  /\ workerId \in [Jobs -> WorkerIds \cup {NoWorker}]
  /\ leaseLeft \in [Jobs -> Nat] /\ settledBy \in [Jobs -> Nat]
  /\ records \subseteq Jobs \X Nat /\ events \subseteq Jobs \X Terminal \X Nat
  /\ phase \in [Workers -> Phases] /\ held \in [Workers -> Jobs \cup {NoJob}]
  /\ attempt \in [Workers -> Nat] /\ workLeft \in [Workers -> Nat]
  /\ call \in [Clients -> {"idle", "lookup", "announce"}]
  /\ callJob \in [Clients -> Jobs \cup {NoJob}]
  /\ callRequest \in [Clients -> Requests \cup {NoRequest}]
  /\ order \in Seq(Jobs)

\* Two processes never work under the same attempt of a job, whatever leases
\* expire and whatever replies are lost: UNIQUE(job_ref, attempt_number) of the
\* attempt store can never refuse a row.
OneWorkerPerAttempt ==
  \A v, w \in Workers : v # w /\ Busy(v) /\ Busy(w) => Token(v) # Token(w)

\* A request never has two queued or running LiteSVM jobs, though the conflict
\* check, the lookup and the settling of the earlier job are separate statements.
OneActivePerRequest ==
  \A r \in Requests : \A j, k \in ActiveFor(r) : j = k

\* A completed LiteSVM job has the stored attempt its result speaks of, even
\* when other attempts crashed or lost their lease on the way.
CompletedIsRecorded ==
  \A j \in Jobs :
    status[j] = "completed" /\ request[j] \in Requests => <<j, settledBy[j]>> \in records

\* The append-only audit trail never tells of an end the row does not have: a
\* terminal event, written after the row in a statement of its own, names the
\* status of the row and the attempt that wrote it, for as long as it exists.
AuditTrailTrue ==
  \A e \in events : status[e[1]] = e[2] /\ settledBy[e[1]] = e[3]

\* No two live processes work on one job at the same time.
ExclusiveExecution ==
  \A v, w \in Workers : v # w /\ Busy(v) /\ Busy(w) => held[v] # held[w]

Fenced == INSTANCE FencedJobs
            WITH Recovers <- FALSE, state <- status, limit <- maxAttempts,
                 token <- attempts

\* The table, its leases and its worker identifiers give clients a fenced job
\* queue: results come from the newest claim only, and settled jobs stay so.
ImplementsFencedJobs == Fenced!Spec

\* A queued job ends, or it has used up every attempt without a word from the
\* workers that made them: such a row stays "running" and nothing looks at it.
Abandoned(j) ==
  /\ LeaseExpired(j) /\ attempts[j] = maxAttempts[j]
  /\ \A w \in Workers : Busy(w) => Token(w) # <<j, attempts[j]>>

JobsSettle ==
  \A j \in Jobs : status[j] = "queued" ~> (status[j] \in Terminal \/ Abandoned(j))

\* docs/solana-defense-os-phase-12c-isolated-litesvm-run.md: "persist one
\* immutable attempt record for success, failure, timeout, cancellation or
\* rejection": a LiteSVM run that ends under a live worker leaves its record.
EndedRunIsRecorded ==
  [][\A w \in Workers :
       phase[w] = "running" /\ phase'[w] \in Working \ {"running"} /\ request[held[w]] \in Requests
         => Token(w) \in records']_vars
=============================================================================
