---------------------------- MODULE FencedJobs ----------------------------
(***************************************************************************)
(* What a durable job queue with retries promises its clients, with no     *)
(* workers, leases or clocks in sight.  Every grant of a job to somebody   *)
(* hands out a larger token than the one before; only the newest token     *)
(* settles the job; a settled job never changes again; two unsettled jobs  *)
(* never answer the same request.  Where Recovers holds, a job may also be *)
(* taken back from its holder, to be granted anew.                         *)
(***************************************************************************)
EXTENDS Naturals

CONSTANTS Jobs,      \* the identities a job may be submitted under
          Requests,  \* requests that must not have two unsettled jobs
          NoRequest, \* a job that answers no such request
          Recovers   \* TRUE: jobs may be taken back from their holders

VARIABLES state,     \* what the client sees of each job
          request,   \* the request each job answers
          limit,     \* the grants each job may have
          token,     \* the newest token granted for each job
          settledBy  \* the token that settled each job, 0 when none has

vars == <<state, request, limit, token, settledBy>>

Unsettled == {"queued", "running"}
Settled == {"completed", "failed"}

Init ==
  /\ state = [j \in Jobs |-> "absent"]
  /\ request = [j \in Jobs |-> NoRequest]
  /\ limit = [j \in Jobs |-> 0]
  /\ token = [j \in Jobs |-> 0]
  /\ settledBy = [j \in Jobs |-> 0]

Submit(j, r) ==
  /\ state[j] = "absent"
  /\ r \in Requests => \A k \in Jobs : request[k] = r => state[k] \notin Unsettled
  /\ state' = [state EXCEPT ![j] = "queued"]
  /\ request' = [request EXCEPT ![j] = r]
  /\ limit'[j] \in Nat \ {0}
  /\ limit' = [limit EXCEPT ![j] = limit'[j]]
  /\ UNCHANGED <<token, settledBy>>

Grant(j) ==
  /\ state[j] \in Unsettled
  /\ token[j] < limit[j]
  /\ state' = [state EXCEPT ![j] = "running"]
  /\ token' = [token EXCEPT ![j] = @ + 1]
  /\ UNCHANGED <<request, limit, settledBy>>

Settle(j, outcome) ==
  /\ state[j] = "running"
  /\ state' = [state EXCEPT ![j] = outcome]
  /\ settledBy' = [settledBy EXCEPT ![j] = token[j]]
  /\ UNCHANGED <<request, limit, token>>

\* Jobs are taken back: those that have grants left wait for the next one.
Exhausted(j) == token[j] = limit[j]

Recover(S) ==
  /\ Recovers
  /\ \A j \in S : state[j] = "running"
  /\ state' = [j \in Jobs |-> IF j \notin S THEN state[j]
                              ELSE IF Exhausted(j) THEN "failed" ELSE "queued"]
  /\ settledBy' = [j \in Jobs |-> IF j \in S /\ Exhausted(j) THEN token[j] ELSE settledBy[j]]
  /\ UNCHANGED <<request, limit, token>>

Next ==
  \/ \E j \in Jobs :
       \/ \E r \in Requests \cup {NoRequest} : Submit(j, r)
       \/ Grant(j)
       \/ \E outcome \in Settled : Settle(j, outcome)
  \/ \E S \in SUBSET Jobs : Recover(S)

Spec == Init /\ [][Next]_vars
=============================================================================
