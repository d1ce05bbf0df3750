--------------------------- MODULE CanonicalJobs ---------------------------
(***************************************************************************)
(* Canonical investigation jobs: table web3_jobs (internal/jobs/store.go), *)
(* the producers that enqueue into it and the event-driven worker of every *)
(* API process (handlers/canonical_investigation_job_worker.go).  An       *)
(* investigation may enqueue child investigations of the mints it finds.   *)
(***************************************************************************)
EXTENDS Naturals, Sequences, WakeGate

CONSTANTS Jobs,        \* row identities
          NoJob,
          Targets,     \* investigated addresses
          Roots,       \* those that producers ask for, one per dedupe key
          RankOf,      \* the priority class of what a producer asks for
          Calls,       \* enqueue calls in flight
          HostOf,      \* the process each call runs in
          Nowhere,     \* no process
          MaxDepth,    \* depth of recursive child jobs
          MaxAttempts, \* web3_jobs.max_attempts
          StaleAfter,  \* clock units after which a silent job is stale
          MaxRestarts, \* bound on restarts, for model checking only
          Faults,      \* TRUE: statements may fail, or lose their replies
          Prompt       \* TRUE: a live process keeps its job from going stale

ASSUME CanonicalAssumption ==
  /\ NoJob \notin Jobs /\ Nowhere \notin Instances
  /\ HostOf \in [Calls -> Instances] /\ Roots \subseteq Targets
  /\ RankOf \in [Roots -> {0, 10, 20, 40}]
  /\ MaxDepth \in Nat /\ {MaxAttempts, StaleAfter} \subseteq Nat \ {0}
  /\ MaxRestarts \in Nat /\ Prompt \in BOOLEAN /\ Faults \in BOOLEAN

\* A branch is a root job, a depth and a target; a producer's own job starts a
\* tree and has no root.
Branches == (Jobs \cup {NoJob}) \X (0 .. MaxDepth) \X Targets
NoBranch == <<>>

VARIABLES
  status, branch, attempts, \* the row of each job
  freshLeft,                           \* time until a running row is stale
  order,                               \* the rows in the order of queued_at
  settledBy,                           \* the attempt whose worker settled it
  wokenAt,                             \* the process last signalled for the row
  phase, held, attempt,                \* the worker of each process
  call, callJob,                       \* each enqueue call
  restarts

rowVars == <<status, branch, attempts, freshLeft, order, settledBy, wokenAt>>
workerVars == <<phase, held, attempt>>
callVars == <<call, callJob>>
vars == <<rowVars, gate, workerVars, callVars, restarts>>

-----------------------------------------------------------------------------
Settled == {"completed", "failed"}
Holding == {"processing", "scheduling", "completing", "retrying"}
Parked == {"parked", "backoff"}
Phases == Holding \cup Parked \cup {"boot", "drain", "claim", "empty"}

DepthOf(j) == branch[j][2]
TargetOf(j) == branch[j][3]
RootOf(j) == IF branch[j][1] = NoJob THEN j ELSE branch[j][1]

Init ==
  /\ status = [j \in Jobs |-> "absent"]
  /\ branch = [j \in Jobs |-> NoBranch]
  /\ attempts = [j \in Jobs |-> 0]
  /\ freshLeft = [j \in Jobs |-> 0]
  /\ order = <<>>
  /\ settledBy = [j \in Jobs |-> 0]
  /\ wokenAt = [j \in Jobs |-> Nowhere]
  /\ EmptyGates
  /\ phase = [i \in Instances |-> "boot"]
  /\ held = [i \in Instances |-> NoJob]
  /\ attempt = [i \in Instances |-> 0]
  /\ call = [c \in Calls |-> "idle"]
  /\ callJob = [c \in Calls |-> NoJob]
  /\ restarts = 0
-----------------------------------------------------------------------------
(***************************************************************************)
(* CreateUniqueActive: under an advisory lock, one transaction looks for   *)
(* the branch and inserts it if need be.                                   *)
(***************************************************************************)
Live == {"queued", "running", "completed"}

\* A mutant of RowsOf: a finished investigation no longer counts.
RowsOf_Unfinished(b) == {j \in Jobs : branch[j] = b /\ status[j] \in {"queued", "running"}}

RowsOf(b) == {j \in Jobs : branch[j] = b /\ status[j] \in Live}

\* The database gives a new row an identity; which one makes no difference.
FreshRow == CHOOSE j \in Jobs : status[j] = "absent"

InsertRow(j, b) ==
  /\ status[j] = "absent" /\ j = FreshRow /\ RowsOf(b) = {}
  /\ status' = [status EXCEPT ![j] = "queued"]
  /\ branch' = [branch EXCEPT ![j] = b]
  /\ order' = Append(order, j)

\* A producer's transaction commits; its signal is still to come.
Insert(c, j, t) ==
  /\ call[c] = "idle"
  /\ InsertRow(j, <<NoJob, 0, t>>)
  /\ call' = [call EXCEPT ![c] = "committed"]
  /\ callJob' = [callJob EXCEPT ![c] = j]
  /\ UNCHANGED <<attempts, freshLeft, settledBy, wokenAt, gate, workerVars, restarts>>

\* The branch exists; one that still waits is announced once more.
FindExisting(c, j, t) ==
  /\ call[c] = "idle"
  /\ j \in RowsOf(<<NoJob, 0, t>>) /\ status[j] = "queued"
  /\ call' = [call EXCEPT ![c] = "committed"]
  /\ callJob' = [callJob EXCEPT ![c] = j]
  /\ UNCHANGED <<rowVars, gate, workerVars, restarts>>

\* The signal, then the answer to the producer.
Announce(c) ==
  /\ call[c] = "committed"
  /\ Signal(HostOf[c])
  /\ wokenAt' = [wokenAt EXCEPT ![callJob[c]] = HostOf[c]]
  /\ call' = [call EXCEPT ![c] = "idle"]
  /\ callJob' = [callJob EXCEPT ![c] = NoJob]
  /\ UNCHANGED <<status, branch, attempts, freshLeft, order, settledBy, workerVars, restarts>>

\* The commit took effect but its reply was lost: an error, and no signal.
CommitReplyLost(c) ==
  /\ Faults /\ call[c] = "committed"
  /\ call' = [call EXCEPT ![c] = "idle"]
  /\ callJob' = [callJob EXCEPT ![c] = NoJob]
  /\ UNCHANGED <<rowVars, gate, workerVars, restarts>>
-----------------------------------------------------------------------------
(***************************************************************************)
(* The worker's loop.                                                      *)
(***************************************************************************)
GoTo(i, p) == phase' = [phase EXCEPT ![i] = p]

Letgo(i) ==
  /\ held' = [held EXCEPT ![i] = NoJob]
  /\ attempt' = [attempt EXCEPT ![i] = 0]

Retryable(j) == attempts[j] < MaxAttempts

\* A mutant of Stale: every running job is taken for an orphan.
Stale_AnyRunning(j) == status[j] = "running"

Stale(j) == status[j] = "running" /\ freshLeft[j] = 0

\* RequeueStale, once in the life of a process.
RequeueStale(i) ==
  /\ phase[i] = "boot"
  /\ status' = [j \in Jobs |-> IF ~Stale(j) THEN status[j]
                               ELSE IF Retryable(j) THEN "queued" ELSE "failed"]
  /\ settledBy' = [j \in Jobs |-> IF Stale(j) /\ ~Retryable(j) THEN attempts[j]
                                  ELSE settledBy[j]]
  /\ wokenAt' = [j \in Jobs |-> IF Stale(j) THEN Nowhere ELSE wokenAt[j]]
  /\ GoTo(i, "drain")
  /\ UNCHANGED <<branch, attempts, freshLeft, order, gate, held, attempt, callVars, restarts>>

\* The statement fails; the error is logged and the loop starts all the same.
RequeueFails(i) ==
  /\ Faults /\ phase[i] = "boot"
  /\ GoTo(i, "drain")
  /\ UNCHANGED <<rowVars, gate, held, attempt, callVars, restarts>>

Drain(i) ==
  /\ phase[i] = "drain"
  /\ Empty(i)
  /\ GoTo(i, "claim")
  /\ UNCHANGED <<rowVars, held, attempt, callVars, restarts>>

\* A mutant of Claimable: the last attempt is never granted.
Claimable_OneShort(j) == status[j] = "queued" /\ attempts[j] + 1 < MaxAttempts

Claimable(j) == status[j] = "queued" /\ Retryable(j)

QueuedBefore(j, k) ==
  \E m, n \in DOMAIN order : m < n /\ order[m] = j /\ order[n] = k

\* claimNextPriorityOrder: customers' requests, the owner's, other work, child
\* jobs, background scans; the oldest of a class first.
Rank(j) == IF DepthOf(j) > 0 THEN 30 ELSE RankOf[TargetOf(j)]

ClaimsBefore(j, k) == Rank(j) < Rank(k) \/ (Rank(j) = Rank(k) /\ QueuedBefore(j, k))

ClaimRow(i, j) ==
  /\ phase[i] = "claim" /\ Claimable(j)
  /\ \A k \in Jobs \ {j} : Claimable(k) => ClaimsBefore(j, k)
  /\ status' = [status EXCEPT ![j] = "running"]
  /\ attempts' = [attempts EXCEPT ![j] = @ + 1]
  /\ freshLeft' = [freshLeft EXCEPT ![j] = StaleAfter]
  /\ wokenAt' = [wokenAt EXCEPT ![j] = Nowhere]
  /\ UNCHANGED <<branch, order, settledBy, gate, callVars, restarts>>

ClaimNext(i, j) ==
  /\ ClaimRow(i, j)
  /\ GoTo(i, "processing")
  /\ held' = [held EXCEPT ![i] = j]
  /\ attempt' = [attempt EXCEPT ![i] = attempts[j] + 1]

\* The claim commits but its reply is lost: to the worker, an error.
ClaimReplyLost(i, j) ==
  /\ Faults /\ ClaimRow(i, j)
  /\ GoTo(i, "backoff")
  /\ UNCHANGED <<held, attempt>>

\* sql.ErrNoRows: the worker is on its way to the wait.
FindNothing(i) ==
  /\ phase[i] = "claim" /\ ~\E j \in Jobs : Claimable(j)
  /\ GoTo(i, "empty")
  /\ UNCHANGED <<rowVars, gate, held, attempt, callVars, restarts>>

\* A mutant of Park: the gate is drained before the wait, not before the claim.
Park_Draining(i) ==
  /\ phase[i] = "empty"
  /\ GoTo(i, "parked") /\ Empty(i)
  /\ UNCHANGED <<rowVars, held, attempt, callVars, restarts>>

\* Wait for a signal or for the recovery ceiling.
Park(i) ==
  /\ phase[i] = "empty"
  /\ GoTo(i, "parked")
  /\ UNCHANGED <<rowVars, gate, held, attempt, callVars, restarts>>

\* Any other error: wait at most five seconds.
ClaimFails(i) ==
  /\ Faults /\ phase[i] = "claim"
  /\ GoTo(i, "backoff")
  /\ UNCHANGED <<rowVars, gate, held, attempt, callVars, restarts>>

\* Wait returns: a signal, or the timer.
WakeBySignal(i) ==
  /\ phase[i] \in Parked /\ gate[i]
  /\ Empty(i)
  /\ GoTo(i, "drain")
  /\ UNCHANGED <<rowVars, held, attempt, callVars, restarts>>

\* A mutant of WakeByTimer: an empty queue is left by a signal only.
WakeByTimer_BackoffOnly(i) ==
  /\ phase[i] = "backoff"
  /\ GoTo(i, "drain")
  /\ UNCHANGED <<rowVars, gate, held, attempt, callVars, restarts>>

WakeByTimer(i) ==
  /\ phase[i] \in Parked
  /\ GoTo(i, "drain")
  /\ UNCHANGED <<rowVars, gate, held, attempt, callVars, restarts>>
-----------------------------------------------------------------------------
(***************************************************************************)
(* One job: RunOnce and processJob.                                        *)
(***************************************************************************)
\* UpdateProgress, from the heartbeat and from processJob.
Heartbeat(i) ==
  /\ phase[i] \in {"processing", "scheduling"} /\ status[held[i]] = "running"
  /\ freshLeft' = [freshLeft EXCEPT ![held[i]] = StaleAfter]
  /\ UNCHANGED <<status, branch, attempts, order, settledBy, wokenAt, gate, workerVars,
                 callVars, restarts>>

\* The report is built; what is left is to schedule child jobs.
ReportBuilt(i) ==
  /\ phase[i] = "processing"
  /\ GoTo(i, "scheduling")
  /\ UNCHANGED <<rowVars, gate, held, attempt, callVars, restarts>>

ProcessFails(i) ==
  /\ phase[i] = "processing"
  /\ GoTo(i, "retrying")
  /\ UNCHANGED <<rowVars, gate, held, attempt, callVars, restarts>>

\* The worker's own statement has queued row j: it signals to itself, unless the
\* reply was lost, which is an error like any other.
Announced(i, j) == Signal(i) /\ wokenAt' = [wokenAt EXCEPT ![j] = i]
Unheard(j) == Faults /\ wokenAt' = [wokenAt EXCEPT ![j] = Nowhere] /\ UNCHANGED gate

\* The branch of a created mint that the report of worker i names.
ChildOf(i, m) == <<RootOf(held[i]), DepthOf(held[i]) + 1, m>>
MayHaveChild(i, m) ==
  phase[i] = "scheduling" /\ DepthOf(held[i]) < MaxDepth /\ m # TargetOf(held[i])

\* A created mint becomes a child job; after an error comes the next mint.
ScheduleChild(i, j, m) ==
  /\ MayHaveChild(i, m)
  /\ InsertRow(j, ChildOf(i, m))
  /\ Announced(i, j) \/ Unheard(j)
  /\ UNCHANGED <<attempts, freshLeft, settledBy, workerVars, callVars, restarts>>

\* Its branch exists; one that still waits is announced once more.
FindChild(i, j, m) ==
  /\ MayHaveChild(i, m)
  /\ j \in RowsOf(ChildOf(i, m)) /\ status[j] = "queued"
  /\ Announced(i, j)
  /\ UNCHANGED <<status, branch, attempts, freshLeft, order, settledBy, workerVars, callVars,
                 restarts>>

ScheduleEnds(i) ==
  /\ phase[i] = "scheduling"
  /\ GoTo(i, "completing")
  /\ UNCHANGED <<rowVars, gate, held, attempt, callVars, restarts>>

\* Complete: WHERE id=$1.
Complete(i) ==
  /\ phase[i] = "completing"
  /\ status' = [status EXCEPT ![held[i]] = "completed"]
  /\ settledBy' = [settledBy EXCEPT ![held[i]] = attempt[i]]
  /\ freshLeft' = [freshLeft EXCEPT ![held[i]] = 0]
  /\ GoTo(i, "drain") /\ Letgo(i)
  /\ UNCHANGED <<branch, attempts, order, wokenAt, gate, callVars, restarts>>

\* RetryOrFail: WHERE id=$1, then the signal of a row that waits again.
RetryOrFail(i) ==
  LET j == held[i]
  IN  /\ phase[i] = "retrying"
      /\ IF Retryable(j)
         THEN /\ status' = [status EXCEPT ![j] = "queued"]
              /\ Announced(i, j) \/ Unheard(j)
              /\ UNCHANGED settledBy
         ELSE /\ status' = [status EXCEPT ![j] = "failed"]
              /\ settledBy' = [settledBy EXCEPT ![j] = attempt[i]]
              /\ UNCHANGED <<gate, wokenAt>>
      /\ freshLeft' = [freshLeft EXCEPT ![j] = 0]
      /\ GoTo(i, "drain") /\ Letgo(i)
      /\ UNCHANGED <<branch, attempts, order, callVars, restarts>>

\* The database refuses the statement: the worker goes on, the row stays.
SettleFails(i) ==
  /\ Faults /\ phase[i] \in {"completing", "retrying"}
  /\ GoTo(i, "drain") /\ Letgo(i)
  /\ UNCHANGED <<rowVars, gate, callVars, restarts>>
-----------------------------------------------------------------------------
\* A process dies or is redeployed.  (On SIGTERM the context is cancelled first,
\* so whatever the worker still tries to write is refused.)
Restart(i) ==
  /\ phase[i] # "boot" /\ restarts < MaxRestarts
  /\ restarts' = restarts + 1
  /\ Empty(i)
  /\ GoTo(i, "boot") /\ Letgo(i)
  /\ call' = [c \in Calls |-> IF HostOf[c] = i THEN "idle" ELSE call[c]]
  /\ callJob' = [c \in Calls |-> IF HostOf[c] = i THEN NoJob ELSE callJob[c]]
  /\ UNCHANGED rowVars

\* Time passes.  The heartbeat of a prompt process comes well before its job
\* is stale.
Tick ==
  /\ Prompt => \A i \in Instances : phase[i] \in Holding => freshLeft[held[i]] > 1
  /\ freshLeft' = [j \in Jobs |-> IF freshLeft[j] > 0 THEN freshLeft[j] - 1 ELSE 0]
  /\ UNCHANGED <<status, branch, attempts, order, settledBy, wokenAt, gate, workerVars,
                 callVars, restarts>>

CallStep(c) ==
  \/ \E j \in Jobs, t \in Roots : Insert(c, j, t) \/ FindExisting(c, j, t)
  \/ Announce(c) \/ CommitReplyLost(c)

Settle(i) == Complete(i) \/ RetryOrFail(i) \/ SettleFails(i)

Process(i) == ReportBuilt(i) \/ ProcessFails(i) \/ ScheduleEnds(i) \/ Settle(i)

Idle(i) ==
  RequeueStale(i) \/ RequeueFails(i) \/ Drain(i) \/ FindNothing(i) \/ Park(i)
  \/ WakeBySignal(i) \/ WakeByTimer(i)

Next ==
  \/ \E c \in Calls : CallStep(c)
  \/ \E i \in Instances :
       \/ Idle(i) \/ ClaimFails(i) \/ Process(i) \/ Heartbeat(i) \/ Restart(i)
       \/ \E j \in Jobs : ClaimNext(i, j) \/ ClaimReplyLost(i, j)
       \/ \E j \in Jobs, m \in Targets : ScheduleChild(i, j, m) \/ FindChild(i, j, m)
  \/ Tick

Spec == Init /\ [][Next]_vars

(***************************************************************************)
(* The loop goes on, timers fire, every external call has a timeout, the   *)
(* heartbeat ticks, and a database that fails now and then answers now and *)
(* then.  Restarts, enqueue calls and errors need never happen.            *)
(***************************************************************************)
Fairness ==
  /\ \A i \in Instances :
       /\ WF_vars(Idle(i)) /\ WF_vars(Process(i))
       /\ SF_vars(\E j \in Jobs : ClaimNext(i, j))
  /\ WF_vars(Tick)

FairSpec == Spec /\ Fairness
-----------------------------------------------------------------------------
(***************************************************************************)
(* Properties.                                                             *)
(***************************************************************************)
\* Every variable keeps its type, no job is attempted more often than
\* max_attempts, and a queued row is always one that ClaimNext may return.
TypeOK ==
  /\ status \in [Jobs -> Live \cup Settled \cup {"absent"}]
  /\ branch \in [Jobs -> Branches \cup {NoBranch}]
  /\ attempts \in [Jobs -> 0 .. MaxAttempts] /\ freshLeft \in [Jobs -> 0 .. StaleAfter]
  /\ \A j \in Jobs : status[j] = "queued" => Claimable(j)
  /\ order \in Seq(Jobs) /\ settledBy \in [Jobs -> Nat]
  /\ wokenAt \in [Jobs -> Instances \cup {Nowhere}] /\ gate \in [Instances -> BOOLEAN]
  /\ phase \in [Instances -> Phases] /\ held \in [Instances -> Jobs \cup {NoJob}]
  /\ attempt \in [Instances -> Nat]
  /\ call \in [Calls -> {"idle", "committed"}] /\ callJob \in [Calls -> Jobs \cup {NoJob}]
  /\ restarts \in 0 .. MaxRestarts

\* No wake-up is lost: a worker that waits for the recovery ceiling has a signal
\* in its gate if its own process announced a row that is still queued, whatever
\* the order of commits, signals, drains and claims.
NoLostWakeup ==
  \A i \in Instances, j \in Jobs :
    phase[i] = "parked" /\ status[j] = "queued" /\ wokenAt[j] = i => gate[i]

\* A branch is queued, under investigation or investigated at most once, though
\* its parent may be investigated several times and children find each other.
OneJobPerBranch ==
  \A j, k \in Jobs :
    j # k /\ status[j] \in Live /\ status[k] \in Live => branch[j] # branch[k]

Fenced == INSTANCE FencedJobs
            WITH Requests <- Branches, NoRequest <- NoBranch, Recovers <- TRUE,
                 state <- status, request <- branch, token <- attempts,
                 limit <- [j \in Jobs |-> IF status[j] = "absent" THEN 0 ELSE MaxAttempts]

\* Although Complete and RetryOrFail check neither the row's status nor its
\* attempt, the table is a fenced queue as long as live processes are prompt.
ImplementsFencedJobs == Fenced!Spec

\* A queued job is taken up by some process, even if its signal was lost or went
\* to a process that restarted.
QueuedJobsStart == \A j \in Jobs : status[j] = "queued" ~> status[j] # "queued"

\* docs/final-consolidation-2026-07-26.md: "The ceiling is the safety net for
\* wakes that cannot arrive in-process: another Railway instance enqueued the
\* row, or the process restarted mid-flight."  A process that comes back after a
\* restart and finds a job running that nobody works on sees it taken up again.
Interrupted(j) ==
  /\ restarts > 0 /\ status[j] = "running" /\ \A i \in Instances : held[i] # j
  /\ \E i \in Instances : phase[i] = "boot"

InterruptedJobsResume == \A j \in Jobs : Interrupted(j) ~> status[j] # "running"
=============================================================================
