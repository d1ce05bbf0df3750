-------------------------- MODULE FencedJobsProofs --------------------------
(***************************************************************************)
(* The promises of the abstract queue, for any jobs and requests: what an  *)
(* implementation of FencedJobs offers its clients.                        *)
(***************************************************************************)
EXTENDS FencedJobs, TLAPS

-----------------------------------------------------------------------------
(***************************************************************************)
(* The promises.                                                           *)
(***************************************************************************)
\* Two unsettled jobs never answer one request (the unique indexes and the
\* look-up of CreateUniqueActive).
OneUnsettledPerRequest ==
  \A j, k \in Jobs :
    j # k /\ state[j] \in Unsettled /\ state[k] \in Unsettled /\ request[j] \in Requests =>
      request[j] # request[k]

\* A settled job was settled by the newest of its grants, and no job has more
\* grants than its limit (max_attempts).
NewestSettles ==
  \A j \in Jobs : /\ token[j] <= limit[j]
                  /\ state[j] \in Settled => token[j] > 0 /\ settledBy[j] = token[j]

\* A settled job stays as it is: no late write of an earlier holder changes it.
SettledStays ==
  [][\A j \in Jobs : state[j] \in Settled =>
       UNCHANGED <<state[j], request[j], token[j], limit[j], settledBy[j]>>]_vars

-----------------------------------------------------------------------------
Types ==
  /\ state \in [Jobs -> {"absent"} \cup Unsettled \cup Settled]
  /\ request \in [Jobs -> Requests \cup {NoRequest}]
  /\ limit \in [Jobs -> Nat] /\ token \in [Jobs -> Nat] /\ settledBy \in [Jobs -> Nat]

\* A job that was granted has a token; one that was not submitted has nothing.
Granted ==
  \A j \in Jobs : /\ state[j] = "running" => token[j] > 0
                  /\ state[j] = "absent" => token[j] = 0

Inv == Types /\ Granted /\ OneUnsettledPerRequest /\ NewestSettles

LEMMA InitInv == Init => Inv
BY SMT DEF Init, Inv, Types, Granted, OneUnsettledPerRequest, NewestSettles, Unsettled, Settled

\* Steps that submit nothing keep the requests apart.
LEMMA RequestsStand ==
  ASSUME Inv, UNCHANGED request, \A j \in Jobs : state'[j] \in Unsettled => state[j] \in Unsettled
  PROVE  OneUnsettledPerRequest'
BY DEF Inv, OneUnsettledPerRequest

LEMMA SubmitInv ==
  ASSUME Inv, NEW j \in Jobs, NEW r \in Requests \cup {NoRequest}, Submit(j, r)
  PROVE  Inv'
<1>1. PICK n \in Nat \ {0} : limit' = [limit EXCEPT ![j] = n] BY DEF Submit
<1>2. /\ state[j] = "absent"
      /\ r \in Requests => \A k \in Jobs : request[k] = r => state[k] \notin Unsettled
      /\ state' = [state EXCEPT ![j] = "queued"] /\ request' = [request EXCEPT ![j] = r]
      /\ UNCHANGED <<token, settledBy>>
  BY DEF Submit
<1>3. /\ state' \in [Jobs -> {"absent"} \cup Unsettled \cup Settled] /\ state'[j] = "queued"
      /\ request' \in [Jobs -> Requests \cup {NoRequest}] /\ request'[j] = r
      /\ limit' \in [Jobs -> Nat]
      /\ \A k \in Jobs \ {j} : state'[k] = state[k] /\ request'[k] = request[k] /\ limit'[k] = limit[k]
  BY <1>1, <1>2 DEF Inv, Types, Unsettled
<1>4. Types' BY <1>2, <1>3 DEF Inv, Types
<1>5. token[j] = 0 BY <1>2 DEF Inv, Granted
<1>6. Granted' BY <1>2, <1>3, <1>5 DEF Inv, Granted
<1>7. OneUnsettledPerRequest' BY <1>2, <1>3 DEF Inv, OneUnsettledPerRequest
<1>8. NewestSettles'
  <2>1. 0 <= limit'[j] BY <1>3, SMT
  <2> QED BY <1>2, <1>3, <1>5, <2>1 DEF Inv, NewestSettles, Settled
<1> QED BY <1>4, <1>6, <1>7, <1>8 DEF Inv

LEMMA GrantInv == ASSUME Inv, NEW j \in Jobs, Grant(j) PROVE Inv'
<1>1. /\ state[j] \in Unsettled /\ token[j] < limit[j]
      /\ state' = [state EXCEPT ![j] = "running"] /\ token' = [token EXCEPT ![j] = @ + 1]
      /\ UNCHANGED <<request, limit, settledBy>>
  BY DEF Grant
<1>2. /\ state' \in [Jobs -> {"absent"} \cup Unsettled \cup Settled] /\ state'[j] = "running"
      /\ token' \in [Jobs -> Nat] /\ token'[j] = token[j] + 1
      /\ \A k \in Jobs \ {j} : state'[k] = state[k] /\ token'[k] = token[k]
  BY <1>1 DEF Inv, Types, Unsettled
<1>3. token[j] \in Nat /\ limit[j] \in Nat BY DEF Inv, Types
<1>4. token[j] + 1 <= limit[j] /\ token[j] + 1 > 0 BY <1>1, <1>3, SMT
<1>5. Types' BY <1>1, <1>2 DEF Inv, Types
<1>6. Granted' BY <1>2, <1>4 DEF Inv, Granted
<1>7. OneUnsettledPerRequest' BY <1>1, <1>2, RequestsStand
<1>8. NewestSettles' BY <1>1, <1>2, <1>4 DEF Inv, NewestSettles, Settled
<1> QED BY <1>5, <1>6, <1>7, <1>8 DEF Inv

LEMMA SettleInv == ASSUME Inv, NEW j \in Jobs, NEW outcome \in Settled, Settle(j, outcome) PROVE Inv'
<1>1. /\ state[j] = "running" /\ state' = [state EXCEPT ![j] = outcome]
      /\ settledBy' = [settledBy EXCEPT ![j] = token[j]] /\ UNCHANGED <<request, limit, token>>
  BY DEF Settle
<1>2. /\ state' \in [Jobs -> {"absent"} \cup Unsettled \cup Settled] /\ state'[j] = outcome
      /\ settledBy' \in [Jobs -> Nat] /\ settledBy'[j] = token[j]
      /\ \A k \in Jobs \ {j} : state'[k] = state[k] /\ settledBy'[k] = settledBy[k]
  BY <1>1 DEF Inv, Types
<1>3. Types' BY <1>1, <1>2 DEF Inv, Types
<1>4. Granted' BY <1>1, <1>2 DEF Inv, Granted, Settled
<1>5. OneUnsettledPerRequest' BY <1>1, <1>2, RequestsStand DEF Unsettled
<1>6. NewestSettles' BY <1>1, <1>2 DEF Inv, Granted, NewestSettles
<1> QED BY <1>3, <1>4, <1>5, <1>6 DEF Inv

LEMMA RecoverInv == ASSUME Inv, NEW S \in SUBSET Jobs, Recover(S) PROVE Inv'
<1>1. /\ \A j \in S : state[j] = "running"
      /\ state' = [j \in Jobs |-> IF j \notin S THEN state[j]
                                  ELSE IF Exhausted(j) THEN "failed" ELSE "queued"]
      /\ settledBy' = [j \in Jobs |-> IF j \in S /\ Exhausted(j) THEN token[j] ELSE settledBy[j]]
      /\ UNCHANGED <<request, limit, token>>
  BY DEF Recover
<1>2. \A j \in Jobs :
        \/ state'[j] = state[j] /\ settledBy'[j] = settledBy[j]
        \/ state[j] = "running" /\ state'[j] = "failed" /\ settledBy'[j] = token[j]
        \/ state[j] = "running" /\ state'[j] = "queued" /\ settledBy'[j] = settledBy[j]
  BY <1>1
<1>3. Types'
  <2>1. state' \in [Jobs -> {"absent"} \cup Unsettled \cup Settled]
    BY <1>1, SMT DEF Inv, Types, Unsettled, Settled
  <2>2. settledBy' \in [Jobs -> Nat] BY <1>1 DEF Inv, Types
  <2> QED BY <1>1, <2>1, <2>2 DEF Inv, Types
<1>4. Granted' BY <1>1, <1>2 DEF Inv, Granted
<1>5. OneUnsettledPerRequest' BY <1>1, <1>2, RequestsStand DEF Unsettled
<1>6. NewestSettles' BY <1>1, <1>2 DEF Inv, Granted, NewestSettles, Settled
<1> QED BY <1>3, <1>4, <1>5, <1>6 DEF Inv

LEMMA NextInv == ASSUME Inv, [Next]_vars PROVE Inv'
<1>1. CASE UNCHANGED vars
  BY <1>1 DEF vars, Inv, Types, Granted, OneUnsettledPerRequest, NewestSettles
<1> QED BY <1>1, SubmitInv, GrantInv, SettleInv, RecoverInv DEF Next

\* The invariant holds in every behaviour of the abstract queue.
THEOREM Invariance == Spec => []Inv
BY InitInv, NextInv, PTL DEF Spec

\* A request never has two unsettled jobs, and a job is settled by the newest of
\* its grants, of which it has no more than its limit (WHERE status='running'
\* AND worker_id=$2, attempts < max_attempts).
THEOREM RequestsAndGrants == Spec => [](OneUnsettledPerRequest /\ NewestSettles)
<1>1. Inv => OneUnsettledPerRequest /\ NewestSettles BY DEF Inv
<1> QED BY <1>1, Invariance, PTL

\* What is settled stays, whoever is still at work on it.
THEOREM SettledForGood == Spec => SettledStays
<1> DEFINE Stays == \A j \in Jobs : state[j] \in Settled =>
                      UNCHANGED <<state[j], request[j], token[j], limit[j], settledBy[j]>>
<1>1. ASSUME Inv, Next, NEW j \in Jobs, state[j] \in Settled
      PROVE  UNCHANGED <<state[j], request[j], token[j], limit[j], settledBy[j]>>
  <2>1. state[j] \notin Unsettled /\ state[j] # "absent" BY <1>1 DEF Unsettled, Settled
  <2>2. ASSUME NEW k \in Jobs, NEW r \in Requests \cup {NoRequest}, Submit(k, r)
        PROVE  UNCHANGED <<state[j], request[j], token[j], limit[j], settledBy[j]>>
    <3>1. k # j BY <2>1, <2>2 DEF Submit
    <3> QED BY <1>1, <2>2, <3>1 DEF Submit, Inv, Types
  <2>3. ASSUME NEW k \in Jobs, Grant(k)
        PROVE  UNCHANGED <<state[j], request[j], token[j], limit[j], settledBy[j]>>
    <3>1. k # j BY <2>1, <2>3 DEF Grant
    <3> QED BY <1>1, <2>3, <3>1 DEF Grant, Inv, Types
  <2>4. ASSUME NEW k \in Jobs, NEW outcome \in Settled, Settle(k, outcome)
        PROVE  UNCHANGED <<state[j], request[j], token[j], limit[j], settledBy[j]>>
    <3>1. k # j BY <2>1, <2>4 DEF Settle, Unsettled
    <3> QED BY <1>1, <2>4, <3>1 DEF Settle, Inv, Types
  <2>5. ASSUME NEW S \in SUBSET Jobs, Recover(S)
        PROVE  UNCHANGED <<state[j], request[j], token[j], limit[j], settledBy[j]>>
    <3>1. j \notin S BY <2>1, <2>5 DEF Recover, Unsettled
    <3> QED BY <1>1, <2>5, <3>1 DEF Recover
  <2> QED BY <1>1, <2>2, <2>3, <2>4, <2>5 DEF Next
<1>2. Inv /\ [Next]_vars => [Stays]_vars BY <1>1
<1> HIDE DEF Stays
<1>3. Spec => [][Stays]_vars BY <1>2, Invariance, PTL DEF Spec
<1> QED BY <1>3, PTL DEF Stays, SettledStays
=============================================================================
