-------------------------- MODULE WebhookDelivery --------------------------
(***************************************************************************)
(* The webhook delivery engine: tables webhook_endpoints and               *)
(* webhook_deliveries, the customers' routes (handlers/webhooks.go), the   *)
(* triggers that enqueue, and the delivery worker of every API process     *)
(* (webhooks/worker.go), which sleeps until it is signalled or until the   *)
(* next delivery it knows of is due.                                       *)
(***************************************************************************)
EXTENDS Naturals, FiniteSetsExt, Functions, WakeGate

CONSTANTS Endpoints,
          Deliveries,   \* row identities
          NoDelivery,
          Calls,        \* customer requests and watchlist refreshes in flight
          HostOf,       \* the process each call runs in
          MaxAttempts,  \* webhook_deliveries.max_attempts
          FailureLimit, \* the twenty failures after which an endpoint is paused
          RetryDelay,   \* nextRetryAt: the delay after the given attempt
          LockTimeout,  \* the two minutes after which a lock is stale
          Ceiling,      \* workerwake.RecoveryCeiling
          MaxRestarts,  \* bound on restarts, for model checking only
          Faults,       \* TRUE: statements may fail, or lose their replies
          Prompt        \* TRUE: a live process ends an attempt before its lock is stale

ASSUME WebhookAssumption ==
  /\ NoDelivery \notin Deliveries
  /\ IsFiniteSet(Instances) /\ HostOf \in [Calls -> Instances]
  /\ {MaxAttempts, FailureLimit, LockTimeout, Ceiling} \subseteq Nat \ {0}
  /\ RetryDelay \in [1 .. MaxAttempts -> Nat] /\ MaxRestarts \in Nat
  /\ Faults \in BOOLEAN /\ Prompt \in BOOLEAN

VARIABLES
  endpoint, failures,        \* status and failure_count of each endpoint
  status, target, attempts,  \* the row of each delivery, its endpoint
  dueIn, lockLeft,           \* time until it is due, until its lock is stale
  requeued,                  \* deliveries a customer has requeued by hand
  told,                      \* processes whose worker has been told of the row
  phase, held, attempt,      \* the worker of each process
  sleepLeft,                 \* time until its timer fires
  call,                      \* rows each call has written and not announced
  restarts

endpointVars == <<endpoint, failures>>
rowVars == <<status, target, attempts, dueIn, lockLeft, requeued, told>>
workerVars == <<phase, held, attempt, sleepLeft>>
vars == <<endpointVars, rowVars, gate, workerVars, call, restarts>>

-----------------------------------------------------------------------------
Waiting == {"pending", "retry"}
Outcomes == {"accepted", "retryable", "permanent"}
Busy == {"send"} \cup Outcomes
Phases == Busy \cup {"boot", "drain", "claim", "look", "asleep", "backoff"}

Live(d) == status[d] \in Waiting /\ endpoint[target[d]] = "active"

Due(d) == Live(d) /\ dueIn[d] = 0

Init ==
  /\ endpoint = [e \in Endpoints |-> "absent"] /\ failures = [e \in Endpoints |-> 0]
  /\ status = [d \in Deliveries |-> "absent"]
  /\ target \in [Deliveries -> Endpoints]
  /\ attempts = [d \in Deliveries |-> 0]
  /\ dueIn = [d \in Deliveries |-> 0] /\ lockLeft = [d \in Deliveries |-> 0]
  /\ requeued = {} /\ told = [d \in Deliveries |-> {}]
  /\ EmptyGates
  /\ phase = [i \in Instances |-> "boot"]
  /\ held = [i \in Instances |-> NoDelivery]
  /\ attempt = [i \in Instances |-> 0] /\ sleepLeft = [i \in Instances |-> 0]
  /\ call = [c \in Calls |-> {}]
  /\ restarts = 0
-----------------------------------------------------------------------------
(***************************************************************************)
(* The customers' routes and the producers.                                *)
(***************************************************************************)
CreateEndpoint(e) ==
  /\ endpoint[e] = "absent"
  /\ endpoint' = [endpoint EXCEPT ![e] = "active"]
  /\ UNCHANGED <<failures, rowVars, gate, workerVars, call, restarts>>

\* PATCH: the status asked for, or the one it has, and no signal.
UpdateEndpoint(e, s) ==
  /\ endpoint[e] \in {"active", "paused"}
  /\ endpoint' = [endpoint EXCEPT ![e] = s]
  /\ failures' = [failures EXCEPT ![e] = IF s = "active" THEN 0 ELSE @]
  /\ told' = [d \in Deliveries |-> IF target[d] = e /\ endpoint[e] # s THEN {} ELSE told[d]]
  /\ UNCHANGED <<status, target, attempts, dueIn, lockLeft, requeued, gate, workerVars, call, restarts>>

\* POST .../rotate-secret: failures of the old secret no longer count.
RotateSecret(e) ==
  /\ endpoint[e] \in {"active", "paused"}
  /\ failures' = [failures EXCEPT ![e] = 0]
  /\ UNCHANGED <<endpoint, rowVars, gate, workerVars, call, restarts>>

\* DELETE: the deliveries go with their endpoint.
DeleteEndpoint(e) ==
  /\ endpoint[e] \in {"active", "paused"}
  /\ endpoint' = [endpoint EXCEPT ![e] = "deleted"]
  /\ status' = [d \in Deliveries |->
                  IF target[d] = e /\ status[d] # "absent" THEN "deleted" ELSE status[d]]
  /\ lockLeft' = [d \in Deliveries |-> IF target[d] = e THEN 0 ELSE lockLeft[d]]
  /\ told' = [d \in Deliveries |-> IF target[d] = e THEN {} ELSE told[d]]
  /\ UNCHANGED <<failures, target, attempts, dueIn, requeued, gate, workerVars, call, restarts>>

\* One row for each active endpoint that subscribes to the event, in one
\* transaction with the event itself.
InsertRows(rows) ==
  /\ rows # {}
  /\ \A d \in rows : status[d] = "absent" /\ endpoint[target[d]] = "active"
  /\ IsInjective(Restrict(target, rows))
  /\ status' = [d \in Deliveries |-> IF d \in rows THEN "pending" ELSE status[d]]
  /\ UNCHANGED <<endpointVars, target, attempts, dueIn, lockLeft, requeued, told, gate, workerVars,
                 restarts>>

\* A watchlist alert, or the test delivery a customer asks for.
Enqueue(c, rows) ==
  /\ call[c] = {}
  /\ InsertRows(rows)
  /\ call' = [call EXCEPT ![c] = rows]

\* alerts.Emit: the trigger on security_alert_events enqueues, and the signal,
\* if there is one, goes to the gate of the system channels.
EmitSecurityAlert(rows) ==
  /\ InsertRows(rows)
  /\ UNCHANGED call

\* POST .../retry; that a delivery is requeued once only is a bound.
Requeue(c, d) ==
  /\ call[c] = {} /\ d \notin requeued
  /\ status[d] \in {"dead_letter", "retry"}
  /\ status' = [status EXCEPT ![d] = "retry"]
  /\ dueIn' = [dueIn EXCEPT ![d] = 0]
  /\ lockLeft' = [lockLeft EXCEPT ![d] = 0]
  /\ requeued' = requeued \cup {d}
  /\ told' = [told EXCEPT ![d] = {}]
  /\ call' = [call EXCEPT ![c] = {d}]
  /\ UNCHANGED <<endpointVars, target, attempts, gate, workerVars, restarts>>

\* The signal that follows the commit.
Announce(c) ==
  /\ call[c] # {}
  /\ Signal(HostOf[c])
  /\ told' = [d \in Deliveries |-> IF d \in call[c] /\ status[d] \in Waiting
                                    THEN told[d] \cup {HostOf[c]} ELSE told[d]]
  /\ call' = [call EXCEPT ![c] = {}]
  /\ UNCHANGED <<endpointVars, status, target, attempts, dueIn, lockLeft, requeued, workerVars, restarts>>

\* The commit's reply was lost: an error, and no signal.
CommitReplyLost(c) ==
  /\ Faults /\ call[c] # {}
  /\ call' = [call EXCEPT ![c] = {}]
  /\ UNCHANGED <<endpointVars, rowVars, gate, workerVars, restarts>>
-----------------------------------------------------------------------------
(***************************************************************************)
(* The worker's loop.                                                      *)
(***************************************************************************)
GoTo(i, p) == phase' = [phase EXCEPT ![i] = p]

Sleep(i, p, n) == GoTo(i, p) /\ sleepLeft' = [sleepLeft EXCEPT ![i] = n]

Letgo(i) ==
  /\ held' = [held EXCEPT ![i] = NoDelivery]
  /\ attempt' = [attempt EXCEPT ![i] = 0]

\* A mutant of Stale: the age of the lock is not looked at.
Stale_AnyProcessing(d) == status[d] = "processing"

Stale(d) == status[d] = "processing" /\ lockLeft[d] = 0

\* Once in the life of a process; an error is ignored.
RecoverStale(i) ==
  /\ phase[i] = "boot"
  /\ status' = [d \in Deliveries |-> IF Stale(d) THEN "retry" ELSE status[d]]
  /\ dueIn' = [d \in Deliveries |-> IF Stale(d) THEN 0 ELSE dueIn[d]]
  /\ lockLeft' = [d \in Deliveries |-> IF Stale(d) THEN 0 ELSE lockLeft[d]]
  /\ told' = [d \in Deliveries |-> IF Stale(d) THEN {i} ELSE told[d]]
  /\ GoTo(i, "drain")
  /\ UNCHANGED <<endpointVars, target, attempts, requeued, gate, held, attempt, sleepLeft,
                 call, restarts>>

RecoverFails(i) ==
  /\ Faults /\ phase[i] = "boot"
  /\ GoTo(i, "drain")
  /\ UNCHANGED <<endpointVars, rowVars, gate, held, attempt, sleepLeft, call, restarts>>

Drain(i) ==
  /\ phase[i] = "drain"
  /\ Empty(i)
  /\ GoTo(i, "claim")
  /\ UNCHANGED <<endpointVars, rowVars, held, attempt, sleepLeft, call, restarts>>

\* A mutant of Claimable: deliveries to be retried are never returned.
Claimable_PendingOnly(d) == Due(d) /\ status[d] = "pending"

Claimable(d) == Due(d)

\* Which of the due deliveries comes first is left open.
ClaimRow(i, d) ==
  /\ phase[i] = "claim" /\ Claimable(d)
  /\ status' = [status EXCEPT ![d] = "processing"]
  /\ attempts' = [attempts EXCEPT ![d] = @ + 1]
  /\ lockLeft' = [lockLeft EXCEPT ![d] = LockTimeout]
  /\ told' = [told EXCEPT ![d] = {}]
  /\ UNCHANGED <<endpointVars, target, dueIn, requeued, gate, call, restarts>>

Claim(i, d) ==
  /\ ClaimRow(i, d)
  /\ GoTo(i, "send")
  /\ held' = [held EXCEPT ![i] = d]
  /\ attempt' = [attempt EXCEPT ![i] = attempts[d] + 1]
  /\ UNCHANGED sleepLeft

ClaimReplyLost(i, d) ==
  /\ Faults /\ ClaimRow(i, d)
  /\ GoTo(i, "backoff")
  /\ UNCHANGED <<held, attempt, sleepLeft>>

ClaimFails(i) ==
  /\ Faults /\ phase[i] = "claim"
  /\ GoTo(i, "backoff")
  /\ UNCHANGED <<endpointVars, rowVars, gate, held, attempt, sleepLeft, call, restarts>>

FindNothing(i) ==
  /\ phase[i] = "claim" /\ ~\E d \in Deliveries : Claimable(d)
  /\ GoTo(i, "look")
  /\ UNCHANGED <<endpointVars, rowVars, gate, held, attempt, sleepLeft, call, restarts>>

Scheduled == {dueIn[d] : d \in {x \in Deliveries : Live(x)}}

\* Mutants of NextDue: the query leaves retries out; the ceiling is for an empty
\* queue only.
NextDue_PendingOnly ==
  Min({Ceiling} \cup {dueIn[d] : d \in {x \in Deliveries : Live(x) /\ status[x] = "pending"}})

NextDue_Unclamped == IF Scheduled = {} THEN Ceiling ELSE Min(Scheduled)

\* NextDueSleep, and what Wait makes of a sleep above the ceiling.
NextDue == Min({Ceiling} \cup Scheduled)

Look(i) ==
  /\ phase[i] = "look"
  /\ IF NextDue = 0 THEN GoTo(i, "drain") /\ UNCHANGED sleepLeft ELSE Sleep(i, "asleep", NextDue)
  /\ told' = [d \in Deliveries |-> IF Live(d) THEN told[d] \cup {i} ELSE told[d]]
  /\ UNCHANGED <<endpointVars, status, target, attempts, dueIn, lockLeft, requeued, gate, held,
                 attempt, call, restarts>>

\* An error of the query counts as "nothing scheduled".
LookFails(i) ==
  /\ Faults /\ phase[i] = "look"
  /\ Sleep(i, "asleep", Ceiling)
  /\ told' = [d \in Deliveries |-> told[d] \ {i}]
  /\ UNCHANGED <<endpointVars, status, target, attempts, dueIn, lockLeft, requeued, gate, held,
                 attempt, call, restarts>>

WakeBySignal(i) ==
  /\ phase[i] \in {"asleep", "backoff"} /\ gate[i]
  /\ Empty(i)
  /\ Sleep(i, "drain", 0)
  /\ UNCHANGED <<endpointVars, rowVars, held, attempt, call, restarts>>

\* The timer; five seconds of backoff are less than a unit of time.
WakeByTimer(i) ==
  /\ phase[i] \in {"asleep", "backoff"} /\ sleepLeft[i] = 0
  /\ GoTo(i, "drain")
  /\ UNCHANGED <<endpointVars, rowVars, gate, held, attempt, sleepLeft, call, restarts>>
-----------------------------------------------------------------------------
(***************************************************************************)
(* One delivery.                                                           *)
(***************************************************************************)
\* HTTP 2xx; a failure worth another attempt; one that is not, the endpoint's
\* address and secret being checked first.
Send(i, outcome) ==
  /\ phase[i] = "send"
  /\ GoTo(i, outcome)
  /\ UNCHANGED <<endpointVars, rowVars, gate, held, attempt, sleepLeft, call, restarts>>

\* Up to ten deliveries between two drains of the gate.
NextOne(i) == (\E p \in {"claim", "drain"} : GoTo(i, p)) /\ Letgo(i) /\ UNCHANGED sleepLeft

Exists(d) == status[d] # "deleted"

\* Both updates are WHERE id=$1, in one transaction.
MarkSuccess(i) ==
  LET d == held[i]
  IN  /\ phase[i] = "accepted"
      /\ IF Exists(d)
         THEN /\ status' = [status EXCEPT ![d] = "delivered"]
              /\ lockLeft' = [lockLeft EXCEPT ![d] = 0]
              /\ failures' = [failures EXCEPT ![target[d]] = 0]
         ELSE UNCHANGED <<status, lockLeft, failures>>
      /\ NextOne(i)
      /\ UNCHANGED <<endpoint, target, attempts, dueIn, requeued, told, gate, call, restarts>>

\* A mutant of RetriesAfter: the limit is not looked at.
RetriesAfter_Unlimited(i) == phase[i] = "retryable"

RetriesAfter(i) == phase[i] = "retryable" /\ attempt[i] < MaxAttempts

\* A mutant of PausesAt: one failure late.
PausesAt_OneLate(n) == n > FailureLimit

PausesAt(n) == n >= FailureLimit

MarkFailure(i) ==
  LET d == held[i]
      e == target[d]
  IN  /\ phase[i] \in {"retryable", "permanent"}
      /\ IF Exists(d)
         THEN /\ status' = [status EXCEPT ![d] = IF RetriesAfter(i) THEN "retry" ELSE "dead_letter"]
              /\ dueIn' = [dueIn EXCEPT ![d] = IF RetriesAfter(i) THEN RetryDelay[attempt[i]] ELSE 0]
              /\ lockLeft' = [lockLeft EXCEPT ![d] = 0]
              /\ told' = [told EXCEPT ![d] = IF RetriesAfter(i) THEN {i} ELSE {}]
              /\ failures' = [failures EXCEPT ![e] = @ + 1]
              /\ endpoint' = [endpoint EXCEPT ![e] = IF PausesAt(failures[e] + 1) THEN "paused" ELSE @]
         ELSE UNCHANGED <<status, dueIn, lockLeft, told, failures, endpoint>>
      /\ NextOne(i)
      /\ UNCHANGED <<target, attempts, requeued, gate, call, restarts>>

\* An error of the database, which is ignored; the row stays in processing.
MarkFails(i) ==
  /\ Faults /\ phase[i] \in Outcomes
  /\ NextOne(i)
  /\ UNCHANGED <<endpointVars, rowVars, gate, call, restarts>>
-----------------------------------------------------------------------------
\* A process dies or is redeployed.
Restart(i) ==
  /\ phase[i] # "boot" /\ restarts < MaxRestarts
  /\ restarts' = restarts + 1
  /\ Empty(i)
  /\ Sleep(i, "boot", 0) /\ Letgo(i)
  /\ call' = [c \in Calls |-> IF HostOf[c] = i THEN {} ELSE call[c]]
  /\ UNCHANGED <<endpointVars, rowVars>>

LessOne(n) == IF n > 0 THEN n - 1 ELSE 0

\* Time passes.  A delivery takes at most fifteen seconds, so that a prompt
\* process is done with it long before the lock is stale.
Tick ==
  /\ Prompt => \A i \in Instances : phase[i] \in Busy => lockLeft[held[i]] > 1
  /\ dueIn' = [d \in Deliveries |-> LessOne(dueIn[d])]
  /\ lockLeft' = [d \in Deliveries |-> LessOne(lockLeft[d])]
  /\ sleepLeft' = [i \in Instances |-> LessOne(sleepLeft[i])]
  /\ UNCHANGED <<endpointVars, status, target, attempts, requeued, told, gate, phase, held, attempt,
                 call, restarts>>

Manage(e) ==
  \/ CreateEndpoint(e) \/ RotateSecret(e) \/ DeleteEndpoint(e)
  \/ \E s \in {"active", "paused"} : UpdateEndpoint(e, s)

CallStep(c) ==
  \/ \E rows \in SUBSET Deliveries : Enqueue(c, rows)
  \/ \E d \in Deliveries : Requeue(c, d)
  \/ Announce(c) \/ CommitReplyLost(c)

Idle(i) ==
  \/ RecoverStale(i) \/ RecoverFails(i) \/ Drain(i) \/ FindNothing(i) \/ Look(i) \/ LookFails(i)
  \/ WakeBySignal(i) \/ WakeByTimer(i)

Deliver(i) ==
  (\E outcome \in Outcomes : Send(i, outcome)) \/ MarkSuccess(i) \/ MarkFailure(i) \/ MarkFails(i)

Next ==
  \/ \E e \in Endpoints : Manage(e)
  \/ \E c \in Calls : CallStep(c)
  \/ \E rows \in SUBSET Deliveries : EmitSecurityAlert(rows)
  \/ \E i \in Instances :
       \/ Idle(i) \/ ClaimFails(i) \/ Deliver(i) \/ Restart(i)
       \/ \E d \in Deliveries : Claim(i, d) \/ ClaimReplyLost(i, d)
  \/ Tick

Spec == Init /\ [][Next]_vars

(***************************************************************************)
(* The loop goes on, timers fire, an attempt ends by its timeout, and a    *)
(* database that fails now and then answers now and then.  Customers,      *)
(* alerts, restarts and errors are free to stay away.                      *)
(***************************************************************************)
Fairness ==
  /\ \A i \in Instances :
       /\ WF_vars(Idle(i)) /\ WF_vars(Deliver(i))
       /\ SF_vars(\E d \in Deliveries : Claim(i, d))
  /\ WF_vars(Tick)

FairSpec == Spec /\ Fairness
-----------------------------------------------------------------------------
(***************************************************************************)
(* Properties.                                                             *)
(***************************************************************************)
\* Every variable keeps its type.
TypeOK ==
  /\ endpoint \in [Endpoints -> {"absent", "active", "paused", "deleted"}]
  /\ failures \in [Endpoints -> Nat]
  /\ status \in [Deliveries -> Waiting \cup {"absent", "processing", "delivered", "dead_letter", "deleted"}]
  /\ target \in [Deliveries -> Endpoints] /\ attempts \in [Deliveries -> Nat]
  /\ dueIn \in [Deliveries -> Nat] /\ lockLeft \in [Deliveries -> 0 .. LockTimeout]
  /\ \A d \in Deliveries : lockLeft[d] > 0 => status[d] = "processing"
  /\ requeued \subseteq Deliveries /\ told \in [Deliveries -> SUBSET Instances]
  /\ gate \in [Instances -> BOOLEAN]
  /\ phase \in [Instances -> Phases] /\ held \in [Instances -> Deliveries \cup {NoDelivery}]
  /\ attempt \in [Instances -> Nat] /\ sleepLeft \in [Instances -> 0 .. Ceiling]
  /\ call \in [Calls -> SUBSET Deliveries]
  /\ restarts \in 0 .. MaxRestarts

\* A sleeping worker wakes by the time the next delivery it was told of is due:
\* by a signal in its gate, or by its timer.  Told are those its process
\* announced or rescheduled, and those it read when it computed its sleep.
NoOversleep ==
  \A i \in Instances, d \in Deliveries :
    phase[i] = "asleep" /\ Live(d) /\ i \in told[d] => gate[i] \/ sleepLeft[i] <= dueIn[d]

\* An active endpoint has fewer failures in a row than the limit, whatever
\* deliveries were in flight when it was paused, reactivated or succeeded.
ActiveBelowLimit ==
  \A e \in Endpoints : endpoint[e] = "active" => failures[e] < FailureLimit

\* A confirmed delivery is never sent again nor buried: markDeliverySuccess and
\* markDeliveryFailure are WHERE id=$1 alone, so a second holder could undo it.
DeliveredIsFinal ==
  [][\A d \in Deliveries : status[d] = "delivered" => status'[d] \in {"delivered", "deleted"}]_vars

\* A due delivery is attempted, or stops being due because its endpoint is paused
\* or deleted, even if no signal ever tells of it.
DueIsAttempted == \A d \in Deliveries : Due(d) ~> ~Due(d)

Starts == restarts + Cardinality({i \in Instances : phase[i] # "boot"})

\* The attempt limit is exceeded by one attempt at most for every start of a
\* process after the first: a start recovers stale locks without looking at the
\* limit, so a delivery whose last attempt was interrupted, or its reply lost,
\* is attempted again.
AttemptsWithinLimit ==
  \A d \in Deliveries : d \notin requeued => attempts[d] < MaxAttempts + Starts
=============================================================================
