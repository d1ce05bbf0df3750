------------------------ MODULE WebhookDeliveryProofs ------------------------
(***************************************************************************)
(* Theorems about WebhookDelivery, for any number of endpoints, deliveries *)
(* and processes: a worker never oversleeps a delivery it was told of, an  *)
(* endpoint that fails too often is not active; and with prompt processes  *)
(* a delivery that arrived is final and attempts stay within the limit.    *)
(***************************************************************************)
EXTENDS WebhookDelivery, FiniteSetTheorems, TLAPS

-----------------------------------------------------------------------------
(***************************************************************************)
(* The inductive invariant.                                                *)
(***************************************************************************)
RowStatuses == Waiting \cup {"absent", "processing", "delivered", "dead_letter", "deleted"}

\* A row that is there has an endpoint; one that is not has no history.
RowsHaveEndpoints ==
  \A d \in Deliveries :
    /\ status[d] \notin {"absent", "deleted"} => endpoint[target[d]] \in {"active", "paused"}
    /\ status[d] = "absent" => told[d] = {} /\ attempts[d] = 0

NewEndpoints == \A e \in Endpoints : endpoint[e] = "absent" => failures[e] = 0

\* A busy worker has a row, in some attempt.
HeldRows ==
  \A i \in Instances :
    phase[i] \in Busy => held[i] \in Deliveries /\ status[held[i]] # "absent" /\ attempt[i] > 0

\* The row of a busy worker is locked, in the worker's own attempt and in no
\* other worker's hands, unless it was deleted.
Current(i) ==
  \/ status[held[i]] = "deleted"
  \/ status[held[i]] = "processing" /\ lockLeft[held[i]] > 0 /\ attempt[i] = attempts[held[i]]

Exclusive ==
  /\ \A i \in Instances : phase[i] \in Busy => Current(i)
  /\ \A i, l \in Instances : phase[i] \in Busy /\ phase[l] \in Busy /\ held[i] = held[l] => i = l

\* Every start of a process pays for one attempt past the limit, made or to come.
Budget ==
  \A d \in Deliveries :
    d \notin requeued =>
      /\ attempts[d] < MaxAttempts + Starts
      /\ status[d] \in Waiting =>
           attempts[d] < MaxAttempts \/ attempts[d] + 1 < MaxAttempts + Starts

Safe ==
  TypeOK /\ RowsHaveEndpoints /\ NewEndpoints /\ HeldRows /\ NoOversleep /\ ActiveBelowLimit

Inv == Safe /\ (Prompt => Exclusive /\ Budget)

-----------------------------------------------------------------------------
(***************************************************************************)
(* How long a worker sleeps, and how often processes have started.         *)
(***************************************************************************)
LEMMA LeastNatural ==
  ASSUME NEW S \in SUBSET Nat, S # {}
  PROVE  Min(S) \in S /\ \A y \in S : Min(S) <= y
<1> DEFINE R == OpToRel(<, Nat)
<1>1. IsWellFoundedOn(R, Nat) BY NatLessThanWellFounded, Zenon
<1>2. \A x, y \in Nat : x < y => <<x, y>> \in R BY Zenon DEF OpToRel
<1> HIDE DEF R
<1>3. \E x \in S : \A y \in S : <<y, x>> \notin R BY <1>1, WFMin
<1>4. PICK x \in S : \A y \in S : <<y, x>> \notin R BY <1>3
<1>5. ASSUME NEW y \in S PROVE x =< y
  <2>1. x \in Nat /\ y \in Nat OBVIOUS
  <2>2. ~ (y < x) BY <1>2, <1>4, <2>1
  <2> QED BY <2>1, <2>2, SMT
<1>6. \E z \in S : \A y \in S : z =< y BY <1>5
<1> QED BY <1>6 DEF Min

LEMMA NextDueBound ==
  ASSUME TypeOK
  PROVE  /\ NextDue \in 0 .. Ceiling
         /\ \A d \in Deliveries : Live(d) => NextDue <= dueIn[d]
<1> DEFINE S == {Ceiling} \cup Scheduled
<1>1. S \in SUBSET Nat /\ S # {} BY WebhookAssumption DEF Scheduled, TypeOK
<1>2. Ceiling \in S /\ \A d \in Deliveries : Live(d) => dueIn[d] \in S BY DEF Scheduled
<1> HIDE DEF S
<1>3. Min(S) \in S /\ \A y \in S : Min(S) <= y BY <1>1, LeastNatural
<1>4. Min(S) \in Nat /\ Min(S) <= Ceiling BY <1>1, <1>2, <1>3
<1>5. NextDue = Min(S) BY DEF NextDue, S
<1> QED BY <1>2, <1>3, <1>4, <1>5, WebhookAssumption, SMT

Up == {i \in Instances : phase[i] # "boot"}

LEMMA StartsCount ==
  ASSUME restarts \in Nat
  PROVE  /\ IsFiniteSet(Up) /\ Cardinality(Up) \in Nat /\ Starts = restarts + Cardinality(Up)
         /\ Starts \in Nat
<1>1. IsFiniteSet(Up) BY WebhookAssumption, FS_Subset DEF Up
<1>2. Cardinality(Up) \in Nat BY <1>1, FS_CardinalityType
<1>3. Starts = restarts + Cardinality(Up) BY DEF Starts, Up
<1> QED BY <1>1, <1>2, <1>3

\* A process that is up has started.
LEMMA StartedOnce ==
  ASSUME restarts \in Nat, NEW i \in Instances, phase[i] # "boot"
  PROVE  Starts >= 1
<1>1. i \in Up BY DEF Up
<1>2. Cardinality(Up) # 0 BY <1>1, StartsCount, FS_EmptySet
<1> QED BY <1>2, StartsCount, SMT

\* A worker's step keeps the number of starts, and its first step adds one.
LEMMA StartsGrow ==
  ASSUME TypeOK, NEW i \in Instances, NEW p \in Phases \ {"boot"}, GoTo(i, p), restarts' = restarts
  PROVE  /\ Starts \in Nat /\ Starts' \in Nat /\ Starts' >= Starts
         /\ phase[i] = "boot" => Starts' = Starts + 1
<1>0. restarts \in Nat BY WebhookAssumption, SMT DEF TypeOK
<1>1. phase'[i] = p /\ \A l \in Instances \ {i} : phase'[l] = phase[l] BY DEF TypeOK, GoTo
<1>2. Up' = Up \cup {i} BY <1>1 DEF Up
<1>3. Cardinality(Up') = IF i \in Up THEN Cardinality(Up) ELSE Cardinality(Up) + 1
  BY <1>0, <1>2, StartsCount, FS_AddElement
<1>4. Starts' = restarts + Cardinality(Up') BY DEF Starts, Up
<1>5. phase[i] = "boot" => i \notin Up BY DEF Up
<1> QED BY <1>0, <1>3, <1>4, <1>5, StartsCount, SMT

\* A restart moves one from those that are up to those that were.
LEMMA StartsStay ==
  ASSUME TypeOK, NEW i \in Instances, GoTo(i, "boot"), phase[i] # "boot", restarts' = restarts + 1
  PROVE  Starts' = Starts
<1>0. restarts \in Nat BY WebhookAssumption, SMT DEF TypeOK
<1>1. phase'[i] = "boot" /\ \A l \in Instances \ {i} : phase'[l] = phase[l] BY DEF TypeOK, GoTo
<1>2. Up' = Up \ {i} /\ i \in Up BY <1>1 DEF Up
<1>3. Cardinality(Up') = Cardinality(Up) - 1
  BY <1>0, <1>2, StartsCount, FS_RemoveElement
<1>4. Starts' = restarts' + Cardinality(Up') BY DEF Starts, Up
<1> QED BY <1>0, <1>3, <1>4, StartsCount, SMT

LEMMA SameStarts ==
  ASSUME UNCHANGED <<phase, restarts>>
  PROVE  Starts' = Starts
BY DEF Starts

-----------------------------------------------------------------------------
LEMMA InitInv == Init => Inv
<1> SUFFICES ASSUME Init PROVE Inv OBVIOUS
<1> USE DEF Init
<1>1. TypeOK
  BY WebhookAssumption, SMT DEF TypeOK, EmptyGates, Waiting, Phases, Busy, Outcomes
<1>2. RowsHaveEndpoints /\ NewEndpoints /\ HeldRows /\ NoOversleep /\ ActiveBelowLimit
  BY SMT DEF RowsHaveEndpoints, NewEndpoints, HeldRows, NoOversleep, ActiveBelowLimit, Busy, Outcomes
<1>3. Exclusive BY SMT DEF Exclusive, Busy, Outcomes
<1>4. Budget
  <2>1. Starts \in Nat BY StartsCount
  <2>2. \A d \in Deliveries : attempts[d] = 0 /\ status[d] \notin Waiting BY DEF Waiting
  <2>3. 0 < MaxAttempts + Starts BY <2>1, WebhookAssumption, SMT
  <2> QED BY <2>2, <2>3 DEF Budget
<1> QED BY <1>1, <1>2, <1>3, <1>4 DEF Inv, Safe

LEMMA Types ==
  ASSUME Inv
  PROVE  /\ endpoint \in [Endpoints -> {"absent", "active", "paused", "deleted"}]
         /\ failures \in [Endpoints -> Nat] /\ status \in [Deliveries -> RowStatuses]
         /\ target \in [Deliveries -> Endpoints] /\ attempts \in [Deliveries -> Nat]
         /\ dueIn \in [Deliveries -> Nat] /\ lockLeft \in [Deliveries -> 0 .. LockTimeout]
         /\ requeued \subseteq Deliveries /\ told \in [Deliveries -> SUBSET Instances]
         /\ gate \in [Instances -> BOOLEAN] /\ phase \in [Instances -> Phases]
         /\ held \in [Instances -> Deliveries \cup {NoDelivery}]
         /\ attempt \in [Instances -> Nat] /\ sleepLeft \in [Instances -> 0 .. Ceiling]
         /\ call \in [Calls -> SUBSET Deliveries] /\ restarts \in 0 .. MaxRestarts
BY DEF Inv, Safe, TypeOK, RowStatuses

LEMMA Locks ==
  ASSUME Inv
  PROVE  \A d \in Deliveries : lockLeft[d] > 0 => status[d] = "processing"
BY DEF Inv, Safe, TypeOK

LEMMA StartsNat ==
  ASSUME Inv
  PROVE  /\ Starts \in Nat
         /\ \A i \in Instances : phase[i] # "boot" => Starts >= 1
<1>1. restarts \in Nat BY Types, WebhookAssumption, SMT
<1> QED BY <1>1, StartsCount, StartedOnce

\* What the endpoints are is all that matters to these two.
LEMMA EndpointsStand ==
  ASSUME Inv, UNCHANGED endpointVars
  PROVE  NewEndpoints' /\ ActiveBelowLimit'
BY DEF endpointVars, Inv, Safe, NewEndpoints, ActiveBelowLimit

\* No delivery becomes live or due earlier behind the back of a sleeping worker.
LEMMA SleepersStay ==
  ASSUME Inv,
         \A i \in Instances, d \in Deliveries :
           phase'[i] = "asleep" /\ Live(d)' /\ i \in told'[d] =>
             \/ gate'[i]
             \/ /\ phase[i] = "asleep" /\ Live(d) /\ i \in told[d] /\ (gate[i] => gate'[i])
                /\ sleepLeft[i] <= dueIn[d] => sleepLeft'[i] <= dueIn'[d]
  PROVE  NoOversleep'
BY DEF Inv, Safe, NoOversleep

\* The budget stands where attempts and statuses do.
LEMMA BudgetStands ==
  ASSUME Inv, Budget, Starts' \in Nat, Starts' >= Starts, requeued \subseteq requeued',
         \A d \in Deliveries : /\ attempts'[d] = attempts[d]
                               /\ status'[d] \in Waiting => status[d] \in Waiting
  PROVE  Budget'
<1> SUFFICES ASSUME NEW d \in Deliveries, d \notin requeued'
             PROVE  /\ attempts'[d] < MaxAttempts + Starts'
                    /\ status'[d] \in Waiting =>
                         attempts'[d] < MaxAttempts \/ attempts'[d] + 1 < MaxAttempts + Starts'
  BY DEF Budget
<1>1. /\ attempts[d] < MaxAttempts + Starts
      /\ status[d] \in Waiting => attempts[d] < MaxAttempts \/ attempts[d] + 1 < MaxAttempts + Starts
  BY DEF Budget
<1>2. attempts[d] \in Nat /\ MaxAttempts \in Nat /\ Starts \in Nat
  BY Types, StartsNat, WebhookAssumption
<1>3. attempts'[d] = attempts[d] /\ (status'[d] \in Waiting => status[d] \in Waiting) OBVIOUS
<1> QED BY <1>1, <1>2, <1>3, SMT

-----------------------------------------------------------------------------
(***************************************************************************)
(* The worker's own steps.                                                 *)
(***************************************************************************)
\* A worker goes on without touching a row, and not to sleep.
LEMMA WorkerMoves ==
  ASSUME Inv, NEW i \in Instances, NEW p \in Phases, GoTo(i, p), p # "asleep",
         UNCHANGED <<endpointVars, rowVars>>,
         gate' \in [Instances -> BOOLEAN],
         held' \in [Instances -> Deliveries \cup {NoDelivery}], attempt' \in [Instances -> Nat],
         sleepLeft' \in [Instances -> 0 .. Ceiling],
         \A l \in Instances \ {i} :
           /\ gate'[l] = gate[l] /\ held'[l] = held[l] /\ attempt'[l] = attempt[l]
           /\ sleepLeft'[l] = sleepLeft[l],
         p \in Busy => phase[i] \in Busy /\ held'[i] = held[i] /\ attempt'[i] = attempt[i],
         call' \in [Calls -> SUBSET Deliveries], restarts' \in 0 .. MaxRestarts,
         Starts' \in Nat, Starts' >= Starts
  PROVE  Inv'
<1> USE DEF rowVars
<1>1. /\ phase' \in [Instances -> Phases] /\ phase'[i] = p
      /\ \A l \in Instances \ {i} : phase'[l] = phase[l]
  BY Types DEF GoTo
<1>2. TypeOK' BY <1>1 DEF Inv, Safe, TypeOK, endpointVars
<1>3. RowsHaveEndpoints' BY DEF Inv, Safe, RowsHaveEndpoints, endpointVars
<1>4. HeldRows' BY <1>1 DEF Inv, Safe, HeldRows
<1>5. NoOversleep' BY <1>1, SleepersStay DEF Live, endpointVars
<1>6. Prompt => Exclusive' BY <1>1 DEF Inv, Exclusive, Current
<1>7. Prompt => Budget' BY BudgetStands DEF Inv
<1> QED BY <1>2, <1>3, <1>4, <1>5, <1>6, <1>7, EndpointsStand DEF Inv, Safe

\* ... keeping its job, and its timer as it is.
LEMMA Going ==
  ASSUME Inv, NEW i \in Instances, NEW p \in Phases, GoTo(i, p), p \notin {"asleep", "boot"},
         UNCHANGED <<endpointVars, rowVars, held, attempt, call, restarts>>,
         UNCHANGED gate \/ Empty(i),
         UNCHANGED sleepLeft \/ sleepLeft' = [sleepLeft EXCEPT ![i] = 0],
         p \in Busy => phase[i] \in Busy
  PROVE  Inv'
<1>1. gate' \in [Instances -> BOOLEAN] /\ \A l \in Instances \ {i} : gate'[l] = gate[l]
  BY Types DEF Empty
<1>2. sleepLeft' \in [Instances -> 0 .. Ceiling] /\ \A l \in Instances \ {i} : sleepLeft'[l] = sleepLeft[l]
  <2>1. 0 \in 0 .. Ceiling BY WebhookAssumption, SMT
  <2> QED BY <2>1, Types
<1>3. Starts' \in Nat /\ Starts' >= Starts BY StartsGrow DEF Inv, Safe
<1> QED BY <1>1, <1>2, <1>3, Types, WorkerMoves

LEMMA LoopInv ==
  ASSUME Inv, NEW i \in Instances,
         \/ RecoverFails(i) \/ Drain(i) \/ FindNothing(i) \/ ClaimFails(i)
         \/ WakeBySignal(i) \/ WakeByTimer(i) \/ \E outcome \in Outcomes : Send(i, outcome)
  PROVE  Inv'
<1> USE DEF Phases, Busy, Outcomes
<1>1. CASE RecoverFails(i) BY <1>1, Going DEF RecoverFails
<1>2. CASE Drain(i) BY <1>2, Going DEF Drain
<1>3. CASE FindNothing(i) BY <1>3, Going DEF FindNothing
<1>4. CASE ClaimFails(i) BY <1>4, Going DEF ClaimFails
<1>5. CASE WakeBySignal(i) BY <1>5, Going DEF WakeBySignal, Sleep
<1>6. CASE WakeByTimer(i) BY <1>6, Going DEF WakeByTimer
<1>7. CASE \E outcome \in Outcomes : Send(i, outcome) BY <1>7, Going DEF Send
<1> QED BY <1>1, <1>2, <1>3, <1>4, <1>5, <1>6, <1>7

LEMMA LetgoTypes ==
  ASSUME Inv, NEW i \in Instances, Letgo(i)
  PROVE  /\ held' \in [Instances -> Deliveries \cup {NoDelivery}] /\ attempt' \in [Instances -> Nat]
         /\ \A l \in Instances \ {i} : held'[l] = held[l] /\ attempt'[l] = attempt[l]
BY Types DEF Letgo

\* A worker leaves a delivery without writing its row: it was deleted, or the
\* database refuses the result and the row stays in processing.
LEMMA LeaveInv ==
  ASSUME Inv, NEW i \in Instances, NextOne(i),
         UNCHANGED <<endpointVars, rowVars, gate, call, restarts>>
  PROVE  Inv'
<1>1. Letgo(i) /\ sleepLeft' = sleepLeft /\ \E p \in {"claim", "drain"} : GoTo(i, p)
  BY DEF NextOne
<1>2. PICK p \in {"claim", "drain"} : GoTo(i, p) BY <1>1
<1>3. p \in Phases \ {"boot"} /\ p \notin Busy BY DEF Phases, Busy, Outcomes
<1>4. Starts' \in Nat /\ Starts' >= Starts BY <1>1, <1>2, <1>3, StartsGrow DEF Inv, Safe
<1> QED BY <1>1, <1>2, <1>3, <1>4, LetgoTypes, Types, WorkerMoves

\* A process dies with its gate, its job and its calls.
LEMMA RestartInv == ASSUME Inv, NEW i \in Instances, Restart(i) PROVE Inv'
<1>1. /\ phase[i] # "boot" /\ restarts' = restarts + 1 /\ restarts < MaxRestarts
      /\ GoTo(i, "boot") /\ sleepLeft' = [sleepLeft EXCEPT ![i] = 0] /\ Letgo(i) /\ Empty(i)
      /\ call' = [c \in Calls |-> IF HostOf[c] = i THEN {} ELSE call[c]]
      /\ UNCHANGED <<endpointVars, rowVars>>
  BY DEF Restart, Sleep
<1>2. restarts' \in 0 .. MaxRestarts BY <1>1, Types, WebhookAssumption, SMT
<1>3. gate' \in [Instances -> BOOLEAN] /\ \A l \in Instances \ {i} : gate'[l] = gate[l]
  BY <1>1, Types DEF Empty
<1>4. sleepLeft' \in [Instances -> 0 .. Ceiling] /\ \A l \in Instances \ {i} : sleepLeft'[l] = sleepLeft[l]
  <2>1. 0 \in 0 .. Ceiling BY WebhookAssumption, SMT
  <2> QED BY <1>1, <2>1, Types
<1>5. call' \in [Calls -> SUBSET Deliveries] BY <1>1, Types
<1>6. Starts' \in Nat /\ Starts' >= Starts BY <1>1, StartsStay, StartsNat, SMT DEF Inv, Safe
<1>7. "boot" \in Phases /\ "boot" \notin Busy BY DEF Phases, Busy, Outcomes
<1> QED BY <1>1, <1>2, <1>3, <1>4, <1>5, <1>6, <1>7, LetgoTypes, WorkerMoves

\* A worker looks for the next delivery, and sleeps no longer than that.
LEMMA LookInv == ASSUME Inv, NEW i \in Instances, Look(i) \/ LookFails(i) PROVE Inv'
<1>1. PICK p \in {"drain", "asleep"}, n \in 0 .. Ceiling :
        /\ GoTo(i, p)
        /\ sleepLeft' = [sleepLeft EXCEPT ![i] = n] \/ (p # "asleep" /\ UNCHANGED sleepLeft)
        /\ p = "asleep" => \A d \in Deliveries : Live(d) /\ i \in told'[d] => n <= dueIn[d]
  <2>1. CASE Look(i)
    <3>1. NextDue \in 0 .. Ceiling /\ \A d \in Deliveries : Live(d) => NextDue <= dueIn[d]
      BY NextDueBound DEF Inv, Safe
    <3>2. CASE NextDue = 0 BY <2>1, <3>1, <3>2 DEF Look
    <3>3. CASE NextDue # 0
      <4>1. GoTo(i, "asleep") /\ sleepLeft' = [sleepLeft EXCEPT ![i] = NextDue]
        BY <2>1, <3>3 DEF Look, Sleep
      <4> QED BY <3>1, <4>1
    <3> QED BY <3>2, <3>3
  <2>2. CASE LookFails(i)
    <3>1. GoTo(i, "asleep") /\ sleepLeft' = [sleepLeft EXCEPT ![i] = Ceiling]
      BY <2>2 DEF LookFails, Sleep
    <3>2. \A d \in Deliveries : i \notin told'[d] BY <2>2 DEF LookFails
    <3>3. Ceiling \in 0 .. Ceiling BY WebhookAssumption, SMT
    <3> QED BY <3>1, <3>2, <3>3
  <2> QED BY <2>1, <2>2
<1>2. /\ phase[i] = "look"
      /\ UNCHANGED <<endpointVars, status, target, attempts, dueIn, lockLeft, requeued, gate, held,
                     attempt, call, restarts>>
  BY DEF Look, LookFails
<1>3. /\ told' \in [Deliveries -> SUBSET Instances]
      /\ \A d \in Deliveries :
           /\ \A l \in Instances \ {i} : l \in told'[d] => l \in told[d]
           /\ told'[d] # {} => told[d] # {} \/ Live(d)
  <2>1. CASE Look(i)
    <3>1. told' = [d \in Deliveries |-> IF Live(d) THEN told[d] \cup {i} ELSE told[d]]
      BY <2>1 DEF Look
    <3> QED BY <3>1, Types
  <2>2. CASE LookFails(i)
    <3>1. told' = [d \in Deliveries |-> told[d] \ {i}] BY <2>2 DEF LookFails
    <3> QED BY <3>1, Types
  <2> QED BY <2>1, <2>2
<1>4. /\ phase' \in [Instances -> Phases] /\ phase'[i] = p
      /\ \A l \in Instances \ {i} : phase'[l] = phase[l]
  BY <1>1, Types DEF GoTo, Phases
<1>5. /\ sleepLeft' \in [Instances -> 0 .. Ceiling]
      /\ \A l \in Instances \ {i} : sleepLeft'[l] = sleepLeft[l]
      /\ p = "asleep" => sleepLeft'[i] = n
  BY <1>1, Types
<1>6. TypeOK' BY <1>2, <1>3, <1>4, <1>5 DEF Inv, Safe, TypeOK, endpointVars
<1>7. RowsHaveEndpoints'
  BY <1>2, <1>3 DEF Inv, Safe, RowsHaveEndpoints, endpointVars, Live, Waiting
<1>8. p \notin Busy BY DEF Busy, Outcomes
<1>9. HeldRows' BY <1>2, <1>4, <1>8 DEF Inv, Safe, HeldRows
<1>10. NoOversleep'
  <2>1. ASSUME NEW l \in Instances, NEW d \in Deliveries, phase'[l] = "asleep", Live(d)', l \in told'[d]
        PROVE  gate'[l] \/ sleepLeft'[l] <= dueIn'[d]
    <3>1. Live(d) BY <1>2, <2>1 DEF Live, endpointVars
    <3>2. CASE l = i BY <1>1, <1>2, <1>4, <1>5, <2>1, <3>1, <3>2
    <3>3. CASE l # i
      BY <1>2, <1>3, <1>4, <1>5, <2>1, <3>1, <3>3 DEF Inv, Safe, NoOversleep
    <3> QED BY <3>2, <3>3
  <2> QED BY <2>1 DEF NoOversleep
<1>11. Prompt => Exclusive' BY <1>2, <1>4, <1>8 DEF Inv, Exclusive, Current
<1>12. Prompt => Budget'
  <2>1. p \in Phases \ {"boot"} BY DEF Phases
  <2>2. Starts' \in Nat /\ Starts' >= Starts BY <1>1, <1>2, <2>1, StartsGrow DEF Inv, Safe
  <2> QED BY <1>2, <2>2, BudgetStands DEF Inv
<1> QED BY <1>2, <1>6, <1>7, <1>9, <1>10, <1>11, <1>12, EndpointsStand DEF Inv, Safe

-----------------------------------------------------------------------------
(***************************************************************************)
(* The worker's statements.                                                *)
(***************************************************************************)
LEMMA Others ==
  ASSUME Inv, NEW i \in Instances, NEW p \in Phases, GoTo(i, p)
  PROVE  /\ phase' \in [Instances -> Phases] /\ phase'[i] = p
         /\ \A l \in Instances \ {i} : phase'[l] = phase[l]
BY Types DEF GoTo

\* The claim, whether or not its reply arrives.
LEMMA ClaimInv ==
  ASSUME Inv, NEW i \in Instances, NEW d \in Deliveries, Claim(i, d) \/ ClaimReplyLost(i, d)
  PROVE  Inv'
<1>1. /\ phase[i] = "claim" /\ Live(d)
      /\ status' = [status EXCEPT ![d] = "processing"]
      /\ attempts' = [attempts EXCEPT ![d] = @ + 1]
      /\ lockLeft' = [lockLeft EXCEPT ![d] = LockTimeout]
      /\ told' = [told EXCEPT ![d] = {}] /\ sleepLeft' = sleepLeft
      /\ UNCHANGED <<endpointVars, target, dueIn, requeued, gate, call, restarts>>
  BY DEF Claim, ClaimReplyLost, ClaimRow, Claimable, Due
<1>2. status[d] \in Waiting /\ status[d] \notin {"absent", "deleted", "processing"}
  BY <1>1, SMT DEF Live, Waiting
<1>3. /\ status' \in [Deliveries -> RowStatuses] /\ status'[d] = "processing"
      /\ attempts' \in [Deliveries -> Nat] /\ attempts'[d] = attempts[d] + 1
      /\ lockLeft' \in [Deliveries -> 0 .. LockTimeout] /\ lockLeft'[d] = LockTimeout
      /\ told' \in [Deliveries -> SUBSET Instances] /\ told'[d] = {}
      /\ \A x \in Deliveries \ {d} : /\ status'[x] = status[x] /\ attempts'[x] = attempts[x]
                                     /\ lockLeft'[x] = lockLeft[x] /\ told'[x] = told[x]
  <2>1. "processing" \in RowStatuses BY DEF RowStatuses
  <2>2. LockTimeout \in 0 .. LockTimeout /\ attempts[d] + 1 \in Nat BY WebhookAssumption, Types, SMT
  <2> QED BY <1>1, <2>1, <2>2, Types
<1>4. /\ phase' \in [Instances -> Phases] /\ phase'[i] \in Phases \ {"boot", "asleep"}
      /\ held' \in [Instances -> Deliveries \cup {NoDelivery}] /\ attempt' \in [Instances -> Nat]
      /\ \A l \in Instances \ {i} : phase'[l] = phase[l] /\ held'[l] = held[l] /\ attempt'[l] = attempt[l]
      /\ phase'[i] \in Busy => held'[i] = d /\ attempt'[i] = attempts[d] + 1
      /\ \E p \in Phases \ {"boot"} : GoTo(i, p)
  <2>1. CASE Claim(i, d)
    <3>1. attempts[d] + 1 \in Nat BY Types
    <3>2. held' = [held EXCEPT ![i] = d] /\ attempt' = [attempt EXCEPT ![i] = attempts[d] + 1]
      BY <2>1 DEF Claim
    <3>3. "send" \in Phases \ {"boot", "asleep"} /\ GoTo(i, "send") BY <2>1 DEF Claim, Phases, Busy
    <3> QED BY <3>1, <3>2, <3>3, Others, Types
  <2>2. CASE ClaimReplyLost(i, d)
    <3>1. held' = held /\ attempt' = attempt BY <2>2 DEF ClaimReplyLost
    <3>2. /\ "backoff" \in Phases \ {"boot", "asleep"} /\ "backoff" \notin Busy
          /\ GoTo(i, "backoff")
      BY <2>2 DEF ClaimReplyLost, Phases, Busy, Outcomes
    <3> QED BY <3>1, <3>2, Others, Types
  <2> QED BY <2>1, <2>2
<1>5. TypeOK'
  <2>1. \A x \in Deliveries : lockLeft'[x] > 0 => status'[x] = "processing" BY <1>3, Locks
  <2> QED BY <1>1, <1>3, <1>4, <2>1, Types DEF TypeOK, RowStatuses, endpointVars
<1>6. RowsHaveEndpoints'
  BY <1>1, <1>2, <1>3 DEF Inv, Safe, RowsHaveEndpoints, endpointVars
<1>7. HeldRows'
  <2>1. attempts[d] + 1 > 0 BY Types, SMT
  <2> QED BY <1>3, <1>4, <2>1 DEF Inv, Safe, HeldRows
<1>8. NoOversleep'
  BY <1>1, <1>3, <1>4, SleepersStay DEF Live, endpointVars
<1>9. ASSUME Prompt PROVE Exclusive'
  <2>1. \A l \in Instances : phase[l] \in Busy => held[l] \in Deliveries \ {d}
    BY <1>2, <1>9 DEF Inv, Safe, HeldRows, Exclusive, Current
  <2>2. LockTimeout > 0 BY WebhookAssumption, SMT
  <2>3. ASSUME NEW l \in Instances, phase'[l] \in Busy PROVE Current(l)'
    <3>1. CASE l = i BY <1>3, <1>4, <2>2, <2>3, <3>1 DEF Current
    <3>2. CASE l # i BY <1>3, <1>4, <1>9, <2>1, <2>3, <3>2 DEF Inv, Exclusive, Current
    <3> QED BY <3>1, <3>2
  <2>4. \A l, m \in Instances :
          phase'[l] \in Busy /\ phase'[m] \in Busy /\ held'[l] = held'[m] => l = m
    BY <1>4, <1>9, <2>1 DEF Inv, Exclusive
  <2> QED BY <2>3, <2>4 DEF Exclusive
<1>10. ASSUME Prompt PROVE Budget'
  <2>1. Starts' \in Nat /\ Starts' >= Starts BY <1>1, <1>4, StartsGrow DEF Inv, Safe
  <2>2. Starts \in Nat /\ Starts >= 1 BY <1>1, StartsNat
  <2>3. MaxAttempts \in Nat BY WebhookAssumption
  <2> SUFFICES ASSUME NEW x \in Deliveries, x \notin requeued
               PROVE  /\ attempts'[x] < MaxAttempts + Starts'
                      /\ status'[x] \in Waiting =>
                           attempts'[x] < MaxAttempts \/ attempts'[x] + 1 < MaxAttempts + Starts'
    BY <1>1 DEF Budget
  <2>4. /\ attempts[x] < MaxAttempts + Starts /\ attempts[x] \in Nat
        /\ status[x] \in Waiting => attempts[x] < MaxAttempts \/ attempts[x] + 1 < MaxAttempts + Starts
    BY <1>10, Types DEF Inv, Budget
  <2>5. CASE x = d
    <3>1. attempts'[x] = attempts[x] + 1 /\ status'[x] \notin Waiting /\ status[x] \in Waiting
      BY <1>2, <1>3, <2>5 DEF Waiting
    <3> QED BY <2>1, <2>2, <2>3, <2>4, <3>1, SMT
  <2>6. CASE x # d
    <3>1. attempts'[x] = attempts[x] /\ status'[x] = status[x] BY <1>3, <2>6
    <3> QED BY <2>1, <2>2, <2>3, <2>4, <3>1, SMT
  <2> QED BY <2>5, <2>6
<1> QED BY <1>1, <1>5, <1>6, <1>7, <1>8, <1>9, <1>10, EndpointsStand DEF Inv, Safe

\* The start of a process takes back what has a stale lock.
LEMMA RecoverStaleInv == ASSUME Inv, NEW i \in Instances, RecoverStale(i) PROVE Inv'
<1>1. /\ phase[i] = "boot" /\ GoTo(i, "drain")
      /\ status' = [d \in Deliveries |-> IF Stale(d) THEN "retry" ELSE status[d]]
      /\ dueIn' = [d \in Deliveries |-> IF Stale(d) THEN 0 ELSE dueIn[d]]
      /\ lockLeft' = [d \in Deliveries |-> IF Stale(d) THEN 0 ELSE lockLeft[d]]
      /\ told' = [d \in Deliveries |-> IF Stale(d) THEN {i} ELSE told[d]]
      /\ UNCHANGED <<endpointVars, target, attempts, requeued, gate, held, attempt, sleepLeft,
                     call, restarts>>
  BY DEF RecoverStale
<1>2. /\ status' \in [Deliveries -> RowStatuses] /\ dueIn' \in [Deliveries -> Nat]
      /\ lockLeft' \in [Deliveries -> 0 .. LockTimeout] /\ told' \in [Deliveries -> SUBSET Instances]
  <2>1. "retry" \in RowStatuses /\ 0 \in 0 .. LockTimeout BY WebhookAssumption, SMT DEF RowStatuses, Waiting
  <2> QED BY <1>1, <2>1, Types
<1>3. \A d \in Deliveries :
        \/ /\ ~Stale(d) /\ status'[d] = status[d] /\ dueIn'[d] = dueIn[d]
           /\ lockLeft'[d] = lockLeft[d] /\ told'[d] = told[d]
        \/ /\ Stale(d) /\ status[d] = "processing" /\ status'[d] = "retry"
           /\ lockLeft'[d] = 0 /\ told'[d] = {i}
  BY <1>1 DEF Stale
<1>4. /\ phase' \in [Instances -> Phases] /\ phase'[i] = "drain"
      /\ \A l \in Instances \ {i} : phase'[l] = phase[l]
  BY <1>1, Others DEF Phases
<1>5. "drain" \notin Busy BY DEF Busy, Outcomes
<1>6. TypeOK'
  <2>1. \A d \in Deliveries : lockLeft'[d] > 0 => status'[d] = "processing" BY <1>3, Locks
  <2> QED BY <1>1, <1>2, <1>4, <2>1, Types DEF TypeOK, RowStatuses, endpointVars
<1>7. RowsHaveEndpoints' BY <1>1, <1>3 DEF Inv, Safe, RowsHaveEndpoints, endpointVars
<1>8. HeldRows' BY <1>1, <1>3, <1>4, <1>5 DEF Inv, Safe, HeldRows
<1>9. NoOversleep'
  <2>1. ASSUME NEW l \in Instances, NEW d \in Deliveries, phase'[l] = "asleep", Live(d)', l \in told'[d]
        PROVE  /\ phase[l] = "asleep" /\ Live(d) /\ l \in told[d] /\ dueIn'[d] = dueIn[d]
    <3>1. l # i /\ phase[l] = "asleep" BY <1>4, <2>1
    <3>2. ~Stale(d) /\ l \in told[d] BY <1>3, <2>1, <3>1
    <3> QED BY <1>1, <1>3, <2>1, <3>1, <3>2 DEF Live, endpointVars
  <2> QED BY <1>1, <2>1, SleepersStay
<1>10. ASSUME Prompt PROVE Exclusive'
  <2>1. \A l \in Instances : phase[l] \in Busy => held[l] \in Deliveries /\ ~Stale(held[l])
    BY <1>10, Types, SMT DEF Inv, Safe, HeldRows, Exclusive, Current, Stale
  <2> QED BY <1>1, <1>3, <1>4, <1>5, <1>10, <2>1 DEF Inv, Exclusive, Current
<1>11. ASSUME Prompt PROVE Budget'
  <2>1. Starts' = Starts + 1 BY <1>1, StartsGrow DEF Inv, Safe, Phases
  <2>2. Starts \in Nat /\ MaxAttempts \in Nat BY StartsNat, WebhookAssumption
  <2> SUFFICES ASSUME NEW d \in Deliveries, d \notin requeued
               PROVE  /\ attempts'[d] < MaxAttempts + Starts'
                      /\ status'[d] \in Waiting =>
                           attempts'[d] < MaxAttempts \/ attempts'[d] + 1 < MaxAttempts + Starts'
    BY <1>1 DEF Budget
  <2>3. attempts[d] < MaxAttempts + Starts /\ attempts[d] \in Nat /\ attempts'[d] = attempts[d]
    BY <1>1, <1>11, Types DEF Inv, Budget
  <2> QED BY <2>1, <2>2, <2>3, SMT
<1> QED BY <1>1, <1>6, <1>7, <1>8, <1>9, <1>10, <1>11, EndpointsStand DEF Inv, Safe

\* The result of an attempt is written into the row, if it is still there.
LEMMA FinishInv ==
  ASSUME Inv, NEW i \in Instances, phase[i] \in Busy, NextOne(i),
         NEW d \in Deliveries, d = held[i], Exists(d),
         NEW s \in {"retry", "delivered", "dead_letter"},
         status' = [status EXCEPT ![d] = s], lockLeft' = [lockLeft EXCEPT ![d] = 0],
         dueIn' \in [Deliveries -> Nat], told' \in [Deliveries -> SUBSET Instances],
         \A x \in Deliveries \ {d} : dueIn'[x] = dueIn[x] /\ told'[x] = told[x],
         s = "retry" => told'[d] \subseteq {i} /\ attempt[i] < MaxAttempts,
         endpoint' \in [Endpoints -> {"absent", "active", "paused", "deleted"}],
         failures' \in [Endpoints -> Nat],
         \A e \in Endpoints :
           endpoint'[e] = endpoint[e] \/ (endpoint[e] \in {"active", "paused"} /\ endpoint'[e] = "paused"),
         NewEndpoints', ActiveBelowLimit',
         UNCHANGED <<target, attempts, requeued, gate, call, restarts>>
  PROVE  Inv'
<1>1. /\ status' \in [Deliveries -> RowStatuses] /\ status'[d] = s
      /\ lockLeft' \in [Deliveries -> 0 .. LockTimeout] /\ lockLeft'[d] = 0
      /\ \A x \in Deliveries \ {d} : status'[x] = status[x] /\ lockLeft'[x] = lockLeft[x]
  <2>1. s \in RowStatuses /\ 0 \in 0 .. LockTimeout BY WebhookAssumption, SMT DEF RowStatuses, Waiting
  <2> QED BY <2>1, Types
<1>2. PICK p \in {"claim", "drain"} : GoTo(i, p) BY DEF NextOne
<1>3. p \in Phases \ {"boot", "asleep"} /\ p \notin Busy BY DEF Phases, Busy, Outcomes
<1>4. /\ phase' \in [Instances -> Phases] /\ phase'[i] = p
      /\ \A l \in Instances \ {i} : phase'[l] = phase[l]
  BY <1>2, <1>3, Others
<1>5. /\ held' \in [Instances -> Deliveries \cup {NoDelivery}] /\ attempt' \in [Instances -> Nat]
      /\ \A l \in Instances \ {i} : held'[l] = held[l] /\ attempt'[l] = attempt[l]
      /\ sleepLeft' = sleepLeft
  BY LetgoTypes DEF NextOne
<1>6. status[d] \notin {"absent", "deleted"} /\ endpoint[target[d]] \in {"active", "paused"}
  BY DEF Inv, Safe, HeldRows, RowsHaveEndpoints, Exists
<1>7. TypeOK'
  <2>1. \A x \in Deliveries : lockLeft'[x] > 0 => status'[x] = "processing" BY <1>1, Locks
  <2> QED BY <1>1, <1>4, <1>5, <2>1, Types DEF TypeOK, RowStatuses
<1>8. RowsHaveEndpoints'
  <2> SUFFICES ASSUME NEW x \in Deliveries
               PROVE  /\ status'[x] \notin {"absent", "deleted"} => endpoint'[target[x]] \in {"active", "paused"}
                      /\ status'[x] = "absent" => told'[x] = {} /\ attempts'[x] = 0
    BY DEF RowsHaveEndpoints
  <2>1. /\ endpoint[target[x]] \in {"active", "paused"} => endpoint'[target[x]] \in {"active", "paused"}
        /\ status[x] \notin {"absent", "deleted"} => endpoint[target[x]] \in {"active", "paused"}
        /\ status[x] = "absent" => told[x] = {} /\ attempts[x] = 0
    BY Types DEF Inv, Safe, RowsHaveEndpoints
  <2> QED BY <1>1, <1>6, <2>1
<1>9. HeldRows' BY <1>1, <1>3, <1>4, <1>5 DEF Inv, Safe, HeldRows
<1>10. NoOversleep'
  <2>1. ASSUME NEW l \in Instances, NEW x \in Deliveries, phase'[l] = "asleep", Live(x)', l \in told'[x]
        PROVE  /\ phase[l] = "asleep" /\ Live(x) /\ l \in told[x] /\ dueIn'[x] = dueIn[x]
    <3>1. l # i /\ phase[l] = "asleep" BY <1>3, <1>4, <2>1
    <3>2. status'[x] \in Waiting /\ endpoint'[target[x]] = "active" BY <2>1 DEF Live
    <3>3. x # d BY <1>1, <2>1, <3>1, <3>2 DEF Waiting
    <3>4. endpoint[target[x]] = "active" BY <3>2, Types
    <3> QED BY <1>1, <2>1, <3>1, <3>2, <3>3, <3>4 DEF Live
  <2> QED BY <1>5, <2>1, SleepersStay
<1>11. ASSUME Prompt PROVE Exclusive'
  <2>1. \A l \in Instances \ {i} : phase[l] \in Busy => held[l] \in Deliveries \ {d}
    BY <1>11 DEF Inv, Safe, HeldRows, Exclusive
  <2> QED BY <1>1, <1>3, <1>4, <1>5, <1>11, <2>1 DEF Inv, Exclusive, Current
<1>12. ASSUME Prompt PROVE Budget'
  <2>1. p \in Phases \ {"boot"} BY <1>3
  <2>2. Starts' \in Nat /\ Starts' >= Starts BY <1>2, <2>1, StartsGrow DEF Inv, Safe
  <2>3. Starts \in Nat /\ MaxAttempts \in Nat BY StartsNat, WebhookAssumption
  <2>4. s = "retry" => attempts[d] < MaxAttempts BY <1>12 DEF Inv, Exclusive, Current, Exists
  <2> SUFFICES ASSUME NEW x \in Deliveries, x \notin requeued
               PROVE  /\ attempts[x] < MaxAttempts + Starts'
                      /\ status'[x] \in Waiting =>
                           attempts[x] < MaxAttempts \/ attempts[x] + 1 < MaxAttempts + Starts'
    BY DEF Budget
  <2>5. /\ attempts[x] < MaxAttempts + Starts /\ attempts[x] \in Nat
        /\ status[x] \in Waiting => attempts[x] < MaxAttempts \/ attempts[x] + 1 < MaxAttempts + Starts
    BY <1>12, Types DEF Inv, Budget
  <2>6. CASE x = d
    <3>1. status'[x] \in Waiting => attempts[x] < MaxAttempts BY <1>1, <2>4, <2>6 DEF Waiting
    <3> QED BY <2>2, <2>3, <2>5, <3>1, SMT
  <2>7. CASE x # d
    <3>1. status'[x] = status[x] BY <1>1, <2>7
    <3> QED BY <2>2, <2>3, <2>5, <3>1, SMT
  <2> QED BY <2>6, <2>7
<1> QED BY <1>7, <1>8, <1>9, <1>10, <1>11, <1>12 DEF Inv, Safe

LEMMA HeldIsThere ==
  ASSUME Inv, NEW i \in Instances, phase[i] \in Busy
  PROVE  /\ held[i] \in Deliveries /\ attempt[i] \in Nat \ {0} /\ target[held[i]] \in Endpoints
         /\ Exists(held[i]) => endpoint[target[held[i]]] \in {"active", "paused"}
<1>1. held[i] \in Deliveries /\ status[held[i]] # "absent" /\ attempt[i] > 0
  BY DEF Inv, Safe, HeldRows
<1>2. status[held[i]] \notin {"absent", "deleted"} => endpoint[target[held[i]]] \in {"active", "paused"}
  BY <1>1 DEF Inv, Safe, RowsHaveEndpoints
<1> QED BY <1>1, <1>2, Types DEF Exists

\* The receiver confirms the delivery.
LEMMA MarkSuccessInv == ASSUME Inv, NEW i \in Instances, MarkSuccess(i) PROVE Inv'
<1>1. /\ phase[i] \in Busy /\ NextOne(i)
      /\ UNCHANGED <<endpoint, target, attempts, dueIn, requeued, told, gate, call, restarts>>
  BY DEF MarkSuccess, Busy, Outcomes
<1>2. CASE ~Exists(held[i])
  <2>1. UNCHANGED <<status, lockLeft, failures>> BY <1>2 DEF MarkSuccess
  <2> QED BY <1>1, <2>1, LeaveInv DEF endpointVars, rowVars
<1>3. CASE Exists(held[i])
  <2>1. /\ status' = [status EXCEPT ![held[i]] = "delivered"]
        /\ lockLeft' = [lockLeft EXCEPT ![held[i]] = 0]
        /\ failures' = [failures EXCEPT ![target[held[i]]] = 0]
    BY <1>3 DEF MarkSuccess
  <2>2. /\ failures' \in [Endpoints -> Nat] /\ failures'[target[held[i]]] = 0
        /\ \A e \in Endpoints : failures'[e] = failures[e] \/ failures'[e] = 0
    BY <1>1, <2>1, HeldIsThere, Types
  <2>3. NewEndpoints' BY <1>1, <2>2 DEF Inv, Safe, NewEndpoints
  <2>4. ActiveBelowLimit'
    <3>1. 0 < FailureLimit BY WebhookAssumption, SMT
    <3> QED BY <1>1, <2>2, <3>1 DEF Inv, Safe, ActiveBelowLimit
  <2> QED BY <1>1, <1>3, <2>1, <2>2, <2>3, <2>4, HeldIsThere, Types, FinishInv
<1> QED BY <1>2, <1>3

\* The attempt failed: another one later, or the end of the delivery, and one
\* failure more of the endpoint, which may pause it.
LEMMA MarkFailureInv == ASSUME Inv, NEW i \in Instances, MarkFailure(i) PROVE Inv'
<1> DEFINE d == held[i]
           e == target[held[i]]
           s == IF RetriesAfter(i) THEN "retry" ELSE "dead_letter"
           due == IF RetriesAfter(i) THEN RetryDelay[attempt[i]] ELSE 0
           who == IF RetriesAfter(i) THEN {i} ELSE {}
           state == IF PausesAt(failures[e] + 1) THEN "paused" ELSE endpoint[e]
<1>1. /\ phase[i] \in Busy /\ NextOne(i)
      /\ UNCHANGED <<target, attempts, requeued, gate, call, restarts>>
  BY DEF MarkFailure, Busy, Outcomes
<1>2. CASE ~Exists(held[i])
  <2>1. UNCHANGED <<status, dueIn, lockLeft, told, failures, endpoint>> BY <1>2 DEF MarkFailure
  <2> QED BY <1>1, <2>1, LeaveInv DEF endpointVars, rowVars
<1>3. CASE Exists(held[i])
  <2>1. d \in Deliveries /\ e \in Endpoints /\ endpoint[e] \in {"active", "paused"}
        /\ attempt[i] \in Nat \ {0}
    BY <1>1, <1>3, HeldIsThere
  <2>2. /\ status' = [status EXCEPT ![d] = s] /\ dueIn' = [dueIn EXCEPT ![d] = due]
        /\ lockLeft' = [lockLeft EXCEPT ![d] = 0] /\ told' = [told EXCEPT ![d] = who]
        /\ failures' = [failures EXCEPT ![e] = failures[e] + 1]
        /\ endpoint' = [endpoint EXCEPT ![e] = state]
    BY <1>3 DEF MarkFailure
  <2>3. /\ s \in {"retry", "delivered", "dead_letter"} /\ who \subseteq {i}
        /\ s = "retry" => attempt[i] < MaxAttempts
    BY DEF RetriesAfter
  <2>4. due \in Nat
    <3>1. RetriesAfter(i) => attempt[i] \in 1 .. MaxAttempts
      BY <2>1, WebhookAssumption, SMT DEF RetriesAfter
    <3>2. RetryDelay \in [1 .. MaxAttempts -> Nat] BY WebhookAssumption
    <3> QED BY <3>1, <3>2
  <2>5. state = endpoint[e] \/ state = "paused" OBVIOUS
  <2>6. state = "active" => failures[e] + 1 < FailureLimit
    <3>1. failures[e] + 1 \in Nat /\ FailureLimit \in Nat BY <2>1, Types, WebhookAssumption
    <3>2. failures[e] + 1 >= FailureLimit \/ failures[e] + 1 < FailureLimit BY <3>1, SMT
    <3> QED BY <3>2 DEF PausesAt
  <2> HIDE DEF s, due, who, state, d, e
  <2>7. /\ dueIn' \in [Deliveries -> Nat] /\ told' \in [Deliveries -> SUBSET Instances] /\ told'[d] = who
        /\ \A x \in Deliveries \ {d} : dueIn'[x] = dueIn[x] /\ told'[x] = told[x]
    BY <2>1, <2>2, <2>3, <2>4, Types
  <2>8. /\ failures' \in [Endpoints -> Nat] /\ failures'[e] = failures[e] + 1
        /\ endpoint' \in [Endpoints -> {"absent", "active", "paused", "deleted"}] /\ endpoint'[e] = state
        /\ \A x \in Endpoints \ {e} : failures'[x] = failures[x] /\ endpoint'[x] = endpoint[x]
    BY <2>1, <2>2, <2>5, Types
  <2>9. NewEndpoints' BY <2>1, <2>5, <2>8 DEF Inv, Safe, NewEndpoints
  <2>10. ActiveBelowLimit' BY <2>6, <2>8 DEF Inv, Safe, ActiveBelowLimit
  <2>11. d = held[i] BY DEF d
  <2>12. \A x \in Endpoints :
           endpoint'[x] = endpoint[x] \/ (endpoint[x] \in {"active", "paused"} /\ endpoint'[x] = "paused")
    BY <2>1, <2>5, <2>8
  <2>13. Exists(d) BY <1>3, <2>11
  <2> QED BY <1>1, <2>1, <2>2, <2>3, <2>7, <2>8, <2>9, <2>10, <2>11, <2>12, <2>13, FinishInv
<1> QED BY <1>2, <1>3

-----------------------------------------------------------------------------
(***************************************************************************)
(* Time, customers and producers.                                          *)
(***************************************************************************)
\* What others do leaves the workers where they are, and the rows they hold
\* locked or deleted.
LEMMA OutsideInv ==
  ASSUME Inv, UNCHANGED <<phase, held, attempt, restarts>>,
         TypeOK', RowsHaveEndpoints', NewEndpoints', NoOversleep', ActiveBelowLimit',
         \A d \in Deliveries : status[d] # "absent" => status'[d] # "absent",
         Prompt =>
           /\ \A i \in Instances :
                phase[i] \in Busy /\ held[i] \in Deliveries /\ Current(i) =>
                  \/ status'[held[i]] = "deleted"
                  \/ /\ status'[held[i]] = status[held[i]] /\ attempts'[held[i]] = attempts[held[i]]
                     /\ lockLeft[held[i]] > 0 => lockLeft'[held[i]] > 0
           /\ Budget'
  PROVE  Inv'
<1>1. HeldRows' BY DEF Inv, Safe, HeldRows
<1>2. ASSUME Prompt PROVE Exclusive'
  <2>1. ASSUME NEW i \in Instances, phase'[i] \in Busy PROVE Current(i)'
    <3>1. phase[i] \in Busy /\ held[i] \in Deliveries /\ Current(i)
      BY <1>2, <2>1 DEF Inv, Safe, HeldRows, Exclusive
    <3> QED BY <1>2, <3>1 DEF Current
  <2>2. \A i, l \in Instances :
          phase'[i] \in Busy /\ phase'[l] \in Busy /\ held'[i] = held'[l] => i = l
    BY <1>2 DEF Inv, Exclusive
  <2> QED BY <2>1, <2>2 DEF Exclusive
<1> QED BY <1>1, <1>2 DEF Inv, Safe

LEMMA OneLess == \A n \in Nat : /\ LessOne(n) \in Nat /\ LessOne(n) <= n
                                /\ LessOne(n) > 0 => n > 0
                                /\ n > 1 => LessOne(n) > 0
                                /\ \A m \in Nat : n <= m => LessOne(n) <= LessOne(m)
BY SMT DEF LessOne

LEMMA TickInv == ASSUME Inv, Tick PROVE Inv'
<1>1. /\ dueIn' = [d \in Deliveries |-> LessOne(dueIn[d])]
      /\ lockLeft' = [d \in Deliveries |-> LessOne(lockLeft[d])]
      /\ sleepLeft' = [i \in Instances |-> LessOne(sleepLeft[i])]
      /\ Prompt => \A i \in Instances : phase[i] \in Busy => lockLeft[held[i]] > 1
      /\ UNCHANGED <<endpointVars, status, target, attempts, requeued, told, gate, phase, held, attempt,
                     call, restarts>>
  BY DEF Tick
<1>2. /\ \A d \in Deliveries : dueIn[d] \in Nat /\ lockLeft[d] \in Nat /\ lockLeft[d] <= LockTimeout
      /\ \A i \in Instances : sleepLeft[i] \in Nat /\ sleepLeft[i] <= Ceiling
      /\ LockTimeout \in Nat /\ Ceiling \in Nat
  BY Types, WebhookAssumption, SMT
<1>3. /\ \A d \in Deliveries : /\ dueIn'[d] = LessOne(dueIn[d]) /\ lockLeft'[d] = LessOne(lockLeft[d])
                               /\ dueIn'[d] \in Nat /\ lockLeft'[d] \in 0 .. LockTimeout
      /\ \A i \in Instances : sleepLeft'[i] = LessOne(sleepLeft[i]) /\ sleepLeft'[i] \in 0 .. Ceiling
  <2>1. \A n, m \in Nat : n <= m => LessOne(n) \in 0 .. m BY SMT DEF LessOne
  <2> QED BY <1>1, <1>2, <2>1, OneLess
<1>4. TypeOK'
  <2>1. \A d \in Deliveries : lockLeft'[d] > 0 => status'[d] = "processing" BY <1>1, <1>2, <1>3, OneLess, Locks
  <2>2. /\ dueIn' \in [Deliveries -> Nat] /\ lockLeft' \in [Deliveries -> 0 .. LockTimeout]
        /\ sleepLeft' \in [Instances -> 0 .. Ceiling]
    BY <1>1, <1>3
  <2> QED BY <1>1, <2>1, <2>2, Types DEF TypeOK, RowStatuses, endpointVars
<1>5. RowsHaveEndpoints' BY <1>1 DEF Inv, Safe, RowsHaveEndpoints, endpointVars
<1>6. NoOversleep'
  <2>1. \A i \in Instances, d \in Deliveries : sleepLeft[i] <= dueIn[d] => sleepLeft'[i] <= dueIn'[d]
    BY <1>2, <1>3, OneLess
  <2> QED BY <1>1, <2>1, SleepersStay DEF Live, endpointVars
<1>7. \A i \in Instances : phase[i] \in Busy => held[i] \in Deliveries
  BY DEF Inv, Safe, HeldRows
<1>8. Prompt => \A i \in Instances : phase[i] \in Busy => lockLeft'[held[i]] > 0
  BY <1>1, <1>2, <1>3, <1>7, OneLess
<1>9. Prompt => Budget'
  BY <1>1, StartsNat, SameStarts, BudgetStands DEF Inv
<1> QED BY <1>1, <1>4, <1>5, <1>6, <1>8, <1>9, EndpointsStand, OutsideInv

\* POST, and PATCH: deliveries of a paused endpoint wait, untold.
LEMMA CreateEndpointInv == ASSUME Inv, NEW e \in Endpoints, CreateEndpoint(e) PROVE Inv'
<1>1. /\ endpoint[e] = "absent" /\ endpoint' = [endpoint EXCEPT ![e] = "active"]
      /\ UNCHANGED <<failures, rowVars, gate, workerVars, call, restarts>>
  BY DEF CreateEndpoint
<1> USE DEF rowVars, workerVars
<1>2. /\ endpoint' \in [Endpoints -> {"absent", "active", "paused", "deleted"}] /\ endpoint'[e] = "active"
      /\ \A x \in Endpoints \ {e} : endpoint'[x] = endpoint[x]
  BY <1>1, Types
<1>3. TypeOK' BY <1>1, <1>2, Types, Locks DEF TypeOK, RowStatuses
<1>4. RowsHaveEndpoints' BY <1>1, <1>2, Types DEF Inv, Safe, RowsHaveEndpoints
<1>5. NewEndpoints' BY <1>1, <1>2 DEF Inv, Safe, NewEndpoints
<1>6. ActiveBelowLimit'
  <2>1. failures[e] = 0 /\ 0 < FailureLimit BY <1>1, WebhookAssumption, SMT DEF Inv, Safe, NewEndpoints
  <2> QED BY <1>1, <1>2, <2>1 DEF Inv, Safe, ActiveBelowLimit
<1>7. NoOversleep'
  <2>1. ASSUME NEW i \in Instances, NEW d \in Deliveries, phase'[i] = "asleep", Live(d)', i \in told'[d]
        PROVE  Live(d)
    <3>1. status[d] \in Waiting /\ endpoint'[target[d]] = "active" /\ i \in told[d]
      BY <1>1, <2>1 DEF Live
    <3>2. status[d] \notin {"absent", "deleted"} BY <3>1 DEF Waiting
    <3>3. target[d] # e BY <1>1, <3>2 DEF Inv, Safe, RowsHaveEndpoints
    <3> QED BY <1>2, <3>1, <3>3, Types DEF Live
  <2> QED BY <1>1, <2>1, SleepersStay
<1>8. Prompt => Budget' BY <1>1, StartsNat, SameStarts, BudgetStands DEF Inv
<1> QED BY <1>1, <1>3, <1>4, <1>5, <1>6, <1>7, <1>8, OutsideInv

LEMMA UpdateEndpointInv ==
  ASSUME Inv, NEW e \in Endpoints, NEW s \in {"active", "paused"}, UpdateEndpoint(e, s)
  PROVE  Inv'
<1>1. /\ endpoint[e] \in {"active", "paused"} /\ endpoint' = [endpoint EXCEPT ![e] = s]
      /\ failures' = [failures EXCEPT ![e] = IF s = "active" THEN 0 ELSE @]
      /\ told' = [d \in Deliveries |-> IF target[d] = e /\ endpoint[e] # s THEN {} ELSE told[d]]
      /\ UNCHANGED <<status, target, attempts, dueIn, lockLeft, requeued, gate, workerVars, call, restarts>>
  BY DEF UpdateEndpoint
<1> USE DEF workerVars
<1>2. /\ endpoint' \in [Endpoints -> {"absent", "active", "paused", "deleted"}] /\ endpoint'[e] = s
      /\ failures' \in [Endpoints -> Nat]
      /\ s = "active" => failures'[e] = 0
      /\ \A x \in Endpoints \ {e} : endpoint'[x] = endpoint[x] /\ failures'[x] = failures[x]
      /\ told' \in [Deliveries -> SUBSET Instances]
      /\ \A d \in Deliveries : told'[d] = told[d] \/ told'[d] = {}
      /\ \A d \in Deliveries : target[d] = e /\ endpoint[e] # s => told'[d] = {}
  BY <1>1, Types
<1>3. TypeOK' BY <1>1, <1>2, Types, Locks DEF TypeOK, RowStatuses
<1>4. RowsHaveEndpoints' BY <1>1, <1>2, Types DEF Inv, Safe, RowsHaveEndpoints
<1>5. NewEndpoints' BY <1>1, <1>2 DEF Inv, Safe, NewEndpoints
<1>6. ActiveBelowLimit'
  <2>1. 0 < FailureLimit BY WebhookAssumption, SMT
  <2> QED BY <1>2, <2>1 DEF Inv, Safe, ActiveBelowLimit
<1>7. NoOversleep'
  <2>1. ASSUME NEW i \in Instances, NEW d \in Deliveries, phase'[i] = "asleep", Live(d)', i \in told'[d]
        PROVE  Live(d) /\ i \in told[d]
    <3>1. status[d] \in Waiting /\ endpoint'[target[d]] = "active" /\ i \in told[d]
      BY <1>1, <1>2, <2>1 DEF Live
    <3>2. target[d] = e => endpoint[e] = s /\ s = "active" BY <1>2, <2>1, <3>1
    <3> QED BY <1>2, <3>1, <3>2, Types DEF Live
  <2> QED BY <1>1, <2>1, SleepersStay
<1>8. Prompt => Budget' BY <1>1, StartsNat, SameStarts, BudgetStands DEF Inv
<1> QED BY <1>1, <1>3, <1>4, <1>5, <1>6, <1>7, <1>8, OutsideInv

\* POST .../rotate-secret: only the count of failures is touched.
LEMMA RotateSecretInv == ASSUME Inv, NEW e \in Endpoints, RotateSecret(e) PROVE Inv'
<1>1. /\ failures' = [failures EXCEPT ![e] = 0]
      /\ UNCHANGED <<endpoint, status, target, attempts, dueIn, lockLeft, requeued, told, gate,
                     workerVars, call, restarts>>
  BY DEF RotateSecret, rowVars
<1> USE DEF workerVars
<1>2. /\ failures' \in [Endpoints -> Nat] /\ failures'[e] = 0
      /\ \A x \in Endpoints \ {e} : failures'[x] = failures[x]
  BY <1>1, Types
<1>3. TypeOK' BY <1>1, <1>2, Types, Locks DEF TypeOK, RowStatuses
<1>4. RowsHaveEndpoints' BY <1>1 DEF Inv, Safe, RowsHaveEndpoints
<1>5. NewEndpoints' BY <1>1, <1>2 DEF Inv, Safe, NewEndpoints
<1>6. ActiveBelowLimit'
  <2>1. 0 < FailureLimit BY WebhookAssumption, SMT
  <2> QED BY <1>1, <1>2, <2>1 DEF Inv, Safe, ActiveBelowLimit
<1>7. NoOversleep'
  <2>1. ASSUME NEW i \in Instances, NEW d \in Deliveries, phase'[i] = "asleep", Live(d)', i \in told'[d]
        PROVE  Live(d) /\ i \in told[d]
    BY <1>1, <2>1 DEF Live
  <2> QED BY <1>1, <2>1, SleepersStay
<1>8. Prompt => Budget' BY <1>1, StartsNat, SameStarts, BudgetStands DEF Inv
<1> QED BY <1>1, <1>3, <1>4, <1>5, <1>6, <1>7, <1>8, OutsideInv

\* DELETE: the rows go, in whatever state they are.
LEMMA DeleteEndpointInv == ASSUME Inv, NEW e \in Endpoints, DeleteEndpoint(e) PROVE Inv'
<1>1. /\ endpoint[e] \in {"active", "paused"} /\ endpoint' = [endpoint EXCEPT ![e] = "deleted"]
      /\ status' = [d \in Deliveries |->
                      IF target[d] = e /\ status[d] # "absent" THEN "deleted" ELSE status[d]]
      /\ lockLeft' = [d \in Deliveries |-> IF target[d] = e THEN 0 ELSE lockLeft[d]]
      /\ told' = [d \in Deliveries |-> IF target[d] = e THEN {} ELSE told[d]]
      /\ UNCHANGED <<failures, target, attempts, dueIn, requeued, gate, workerVars, call, restarts>>
  BY DEF DeleteEndpoint
<1> USE DEF workerVars
<1>2. /\ endpoint' \in [Endpoints -> {"absent", "active", "paused", "deleted"}] /\ endpoint'[e] = "deleted"
      /\ \A x \in Endpoints \ {e} : endpoint'[x] = endpoint[x]
  BY <1>1, Types
<1>3. /\ status' \in [Deliveries -> RowStatuses] /\ lockLeft' \in [Deliveries -> 0 .. LockTimeout]
      /\ told' \in [Deliveries -> SUBSET Instances]
  <2>1. "deleted" \in RowStatuses /\ 0 \in 0 .. LockTimeout BY WebhookAssumption, SMT DEF RowStatuses
  <2> QED BY <1>1, <2>1, Types
<1>4. \A d \in Deliveries :
        /\ target[d] = e => /\ lockLeft'[d] = 0 /\ told'[d] = {}
                            /\ status'[d] = IF status[d] = "absent" THEN "absent" ELSE "deleted"
        /\ target[d] # e => status'[d] = status[d] /\ lockLeft'[d] = lockLeft[d] /\ told'[d] = told[d]
  BY <1>1
<1>5. TypeOK'
  <2>1. \A d \in Deliveries : lockLeft'[d] > 0 => status'[d] = "processing" BY <1>4, Locks
  <2> QED BY <1>1, <1>2, <1>3, <2>1, Types DEF TypeOK, RowStatuses
<1>6. RowsHaveEndpoints' BY <1>1, <1>2, <1>4, Types DEF Inv, Safe, RowsHaveEndpoints
<1>7. NewEndpoints' BY <1>1, <1>2 DEF Inv, Safe, NewEndpoints
<1>8. ActiveBelowLimit' BY <1>1, <1>2 DEF Inv, Safe, ActiveBelowLimit
<1>9. NoOversleep'
  <2>1. ASSUME NEW i \in Instances, NEW d \in Deliveries, phase'[i] = "asleep", Live(d)', i \in told'[d]
        PROVE  Live(d) /\ i \in told[d]
    <3>1. target[d] # e BY <1>4, <2>1
    <3> QED BY <1>1, <1>2, <1>4, <2>1, <3>1, Types DEF Live
  <2> QED BY <1>1, <2>1, SleepersStay
<1>10. Prompt => Budget'
  <2>1. \A d \in Deliveries : status'[d] \in Waiting => status[d] \in Waiting BY <1>4 DEF Waiting
  <2> QED BY <1>1, <2>1, StartsNat, SameStarts, BudgetStands DEF Inv
<1>11. \A i \in Instances :
         phase[i] \in Busy /\ held[i] \in Deliveries /\ Current(i) =>
           \/ status'[held[i]] = "deleted"
           \/ status'[held[i]] = status[held[i]] /\ lockLeft'[held[i]] = lockLeft[held[i]]
  BY <1>4 DEF Current
<1> QED BY <1>1, <1>4, <1>5, <1>6, <1>7, <1>8, <1>9, <1>10, <1>11, OutsideInv

\* Rows of an event: new to every worker, and never attempted.
LEMMA InsertRowsInv ==
  ASSUME Inv, NEW rows \in SUBSET Deliveries, InsertRows(rows), call' \in [Calls -> SUBSET Deliveries]
  PROVE  Inv'
<1>1. /\ \A d \in rows : status[d] = "absent" /\ endpoint[target[d]] = "active"
      /\ status' = [d \in Deliveries |-> IF d \in rows THEN "pending" ELSE status[d]]
      /\ UNCHANGED <<endpointVars, target, attempts, dueIn, lockLeft, requeued, told, gate, workerVars,
                     restarts>>
  BY DEF InsertRows
<1> USE DEF workerVars
<1>2. status' \in [Deliveries -> RowStatuses]
  <2>1. "pending" \in RowStatuses BY DEF RowStatuses, Waiting
  <2> QED BY <1>1, <2>1, Types
<1>3. /\ \A d \in rows : status'[d] = "pending" /\ told[d] = {} /\ attempts[d] = 0
      /\ \A d \in Deliveries \ rows : status'[d] = status[d]
      /\ \A d \in Deliveries : status[d] # "absent" => d \notin rows
  BY <1>1 DEF Inv, Safe, RowsHaveEndpoints
<1>4. TypeOK'
  <2>1. \A d \in Deliveries : lockLeft'[d] > 0 => status'[d] = "processing" BY <1>1, <1>3, Locks
  <2> QED BY <1>1, <1>2, <2>1, Types DEF TypeOK, RowStatuses, endpointVars
<1>5. RowsHaveEndpoints' BY <1>1, <1>3 DEF Inv, Safe, RowsHaveEndpoints, endpointVars
<1>6. NoOversleep'
  <2>1. ASSUME NEW i \in Instances, NEW d \in Deliveries, phase'[i] = "asleep", Live(d)', i \in told'[d]
        PROVE  Live(d) /\ i \in told[d]
    <3>1. d \notin rows BY <1>1, <1>3, <2>1
    <3> QED BY <1>1, <1>3, <2>1, <3>1 DEF Live, endpointVars
  <2> QED BY <1>1, <2>1, SleepersStay
<1>7. ASSUME Prompt PROVE Budget'
  <2>1. Starts' = Starts /\ Starts \in Nat /\ MaxAttempts \in Nat \ {0}
    BY <1>1, StartsNat, SameStarts, WebhookAssumption
  <2> SUFFICES ASSUME NEW d \in Deliveries, d \notin requeued
               PROVE  /\ attempts[d] < MaxAttempts + Starts
                      /\ status'[d] \in Waiting =>
                           attempts[d] < MaxAttempts \/ attempts[d] + 1 < MaxAttempts + Starts
    BY <1>1, <2>1 DEF Budget
  <2>2. CASE d \in rows BY <1>3, <2>1, <2>2, SMT
  <2>3. CASE d \notin rows BY <1>3, <1>7, <2>3 DEF Inv, Budget
  <2> QED BY <2>2, <2>3
<1>8. \A i \in Instances :
        phase[i] \in Busy /\ held[i] \in Deliveries /\ Current(i) => status'[held[i]] = status[held[i]]
  BY <1>3 DEF Inv, Safe, HeldRows
<1>9. \A d \in Deliveries : status[d] # "absent" => status'[d] # "absent" BY <1>3
<1> QED BY <1>1, <1>4, <1>5, <1>6, <1>7, <1>8, <1>9, EndpointsStand, OutsideInv

\* A customer asks for another attempt of a delivery that no worker has.
LEMMA RequeueInv ==
  ASSUME Inv, NEW c \in Calls, NEW d \in Deliveries, Requeue(c, d)
  PROVE  Inv'
<1>1. /\ status[d] \in {"dead_letter", "retry"}
      /\ status' = [status EXCEPT ![d] = "retry"] /\ dueIn' = [dueIn EXCEPT ![d] = 0]
      /\ lockLeft' = [lockLeft EXCEPT ![d] = 0] /\ requeued' = requeued \cup {d}
      /\ told' = [told EXCEPT ![d] = {}] /\ call' = [call EXCEPT ![c] = {d}]
      /\ UNCHANGED <<endpointVars, target, attempts, gate, workerVars, restarts>>
  BY DEF Requeue
<1> USE DEF workerVars
<1>2. /\ status' \in [Deliveries -> RowStatuses] /\ status'[d] = "retry"
      /\ dueIn' \in [Deliveries -> Nat] /\ told' \in [Deliveries -> SUBSET Instances] /\ told'[d] = {}
      /\ lockLeft' \in [Deliveries -> 0 .. LockTimeout] /\ lockLeft'[d] = 0
      /\ call' \in [Calls -> SUBSET Deliveries] /\ requeued' \subseteq Deliveries
      /\ \A x \in Deliveries \ {d} : /\ status'[x] = status[x] /\ dueIn'[x] = dueIn[x]
                                     /\ lockLeft'[x] = lockLeft[x] /\ told'[x] = told[x]
  <2>1. "retry" \in RowStatuses /\ 0 \in 0 .. LockTimeout BY WebhookAssumption, SMT DEF RowStatuses, Waiting
  <2> QED BY <1>1, <2>1, Types
<1>3. TypeOK'
  <2>1. \A x \in Deliveries : lockLeft'[x] > 0 => status'[x] = "processing" BY <1>2, Locks
  <2> QED BY <1>1, <1>2, <2>1, Types DEF TypeOK, RowStatuses, endpointVars
<1>4. RowsHaveEndpoints' BY <1>1, <1>2 DEF Inv, Safe, RowsHaveEndpoints, endpointVars
<1>5. NoOversleep'
  <2>1. ASSUME NEW i \in Instances, NEW x \in Deliveries, phase'[i] = "asleep", Live(x)', i \in told'[x]
        PROVE  Live(x) /\ i \in told[x] /\ dueIn'[x] = dueIn[x]
    <3>1. x # d BY <1>2, <2>1
    <3> QED BY <1>1, <1>2, <2>1, <3>1 DEF Live, endpointVars
  <2> QED BY <1>1, <2>1, SleepersStay
<1>6. ASSUME Prompt PROVE Budget'
  <2>1. Starts' = Starts BY <1>1, SameStarts
  <2>2. \A x \in Deliveries : x \notin requeued' => x # d /\ x \notin requeued BY <1>1
  <2> QED BY <1>1, <1>2, <1>6, <2>1, <2>2 DEF Inv, Budget
<1>7. \A i \in Instances :
        phase[i] \in Busy /\ held[i] \in Deliveries /\ Current(i) =>
          status'[held[i]] = status[held[i]] /\ lockLeft'[held[i]] = lockLeft[held[i]]
  BY <1>1, <1>2 DEF Current
<1>8. \A x \in Deliveries : status[x] # "absent" => status'[x] # "absent" BY <1>1, <1>2
<1> QED BY <1>1, <1>3, <1>4, <1>5, <1>6, <1>7, <1>8, EndpointsStand, OutsideInv

\* The signal after the commit, or none.
LEMMA AnnounceInv ==
  ASSUME Inv, NEW c \in Calls, Announce(c) \/ CommitReplyLost(c)
  PROVE  Inv'
<1>1. /\ call' = [call EXCEPT ![c] = {}]
      /\ UNCHANGED <<endpointVars, status, target, attempts, dueIn, lockLeft, requeued, workerVars, restarts>>
  BY DEF Announce, CommitReplyLost, rowVars
<1> USE DEF workerVars
<1>2. /\ gate' \in [Instances -> BOOLEAN] /\ told' \in [Deliveries -> SUBSET Instances]
      /\ \A i \in Instances : gate[i] => gate'[i]
      /\ \A d \in Deliveries :
           /\ \A i \in Instances : i \in told'[d] => i \in told[d] \/ gate'[i]
           /\ status[d] = "absent" => told'[d] = told[d]
  <2>1. CASE Announce(c)
    <3>1. /\ gate' = [gate EXCEPT ![HostOf[c]] = TRUE] /\ HostOf[c] \in Instances
          /\ told' = [d \in Deliveries |-> IF d \in call[c] /\ status[d] \in Waiting
                                            THEN told[d] \cup {HostOf[c]} ELSE told[d]]
      BY <2>1, WebhookAssumption DEF Announce, Signal
    <3>2. gate' \in [Instances -> BOOLEAN] /\ gate'[HostOf[c]] /\ \A i \in Instances : gate[i] => gate'[i]
      BY <3>1, Types
    <3>3. told' \in [Deliveries -> SUBSET Instances] BY <3>1, Types
    <3> QED BY <3>1, <3>2, <3>3 DEF Waiting
  <2>2. CASE CommitReplyLost(c) BY <2>2, Types DEF CommitReplyLost, rowVars
  <2> QED BY <2>1, <2>2
<1>3. TypeOK'
  <2>1. call' \in [Calls -> SUBSET Deliveries] BY <1>1, Types
  <2> QED BY <1>1, <1>2, <2>1, Types, Locks DEF TypeOK, RowStatuses, endpointVars
<1>4. RowsHaveEndpoints' BY <1>1, <1>2 DEF Inv, Safe, RowsHaveEndpoints, endpointVars
<1>5. NoOversleep' BY <1>1, <1>2, SleepersStay DEF Live, endpointVars
<1>6. Prompt => Budget' BY <1>1, StartsNat, SameStarts, BudgetStands DEF Inv
<1> QED BY <1>1, <1>3, <1>4, <1>5, <1>6, EndpointsStand, OutsideInv

-----------------------------------------------------------------------------
LEMMA NextInv == ASSUME Inv, [Next]_vars PROVE Inv'
<1>1. ASSUME NEW e \in Endpoints, Manage(e) PROVE Inv'
  BY <1>1, CreateEndpointInv, RotateSecretInv, DeleteEndpointInv, UpdateEndpointInv DEF Manage
<1>2. ASSUME NEW c \in Calls, CallStep(c) PROVE Inv'
  <2>1. ASSUME NEW rows \in SUBSET Deliveries, Enqueue(c, rows) PROVE Inv'
    <3>1. InsertRows(rows) /\ call' \in [Calls -> SUBSET Deliveries] BY <2>1, Types DEF Enqueue
    <3> QED BY <3>1, InsertRowsInv
  <2> QED BY <1>2, <2>1, RequeueInv, AnnounceInv DEF CallStep
<1>3. ASSUME NEW rows \in SUBSET Deliveries, EmitSecurityAlert(rows) PROVE Inv'
  BY <1>3, Types, InsertRowsInv DEF EmitSecurityAlert
<1>4. ASSUME NEW i \in Instances, Idle(i) \/ ClaimFails(i) \/ Deliver(i) \/ Restart(i) PROVE Inv'
  <2>1. CASE Idle(i) BY <2>1, RecoverStaleInv, LookInv, LoopInv DEF Idle
  <2>2. CASE Deliver(i)
    <3>1. ASSUME MarkFails(i) PROVE Inv' BY <3>1, LeaveInv DEF MarkFails
    <3> QED BY <2>2, <3>1, LoopInv, MarkSuccessInv, MarkFailureInv DEF Deliver
  <2> QED BY <1>4, <2>1, <2>2, LoopInv, RestartInv
<1>5. ASSUME NEW i \in Instances, NEW d \in Deliveries, Claim(i, d) \/ ClaimReplyLost(i, d) PROVE Inv'
  BY <1>5, ClaimInv
<1>6. ASSUME UNCHANGED vars PROVE Inv'
  <2>1. UNCHANGED <<phase, held, attempt, restarts, status, lockLeft, attempts>>
    BY <1>6 DEF vars, rowVars, workerVars
  <2>2. TypeOK' /\ RowsHaveEndpoints' /\ NewEndpoints' /\ ActiveBelowLimit'
    BY <1>6 DEF vars, endpointVars, rowVars, workerVars, Inv, Safe, TypeOK, RowsHaveEndpoints,
       NewEndpoints, ActiveBelowLimit
  <2>3. NoOversleep'
    BY <1>6 DEF vars, endpointVars, rowVars, workerVars, Inv, Safe, NoOversleep, Live
  <2>4. Prompt => Budget'
    BY <1>6, StartsNat, SameStarts, BudgetStands DEF vars, rowVars, workerVars, Inv
  <2> QED BY <2>1, <2>2, <2>3, <2>4, OutsideInv
<1> QED BY <1>1, <1>2, <1>3, <1>4, <1>5, <1>6, TickInv DEF Next

\* The invariant holds in every behaviour of the routes and the workers.
THEOREM Invariance == Spec => []Inv
<1> QED BY InitInv, NextInv, PTL DEF Spec

\* The tables, the gates, the workers and the calls keep their types, for any
\* number of endpoints, deliveries and processes; only a delivery in processing
\* has a lock.
THEOREM WebhookTypeCorrect == Spec => []TypeOK
<1>1. Inv => TypeOK BY DEF Inv, Safe
<1> QED BY <1>1, Invariance, PTL

\* A sleeping worker wakes by the time the next delivery it was told of is due:
\* the sleep NextDueSleep computes and the signals after it leave no gap.
THEOREM WorkersNeverOversleep == Spec => []NoOversleep
<1>1. Inv => NoOversleep BY DEF Inv, Safe
<1> QED BY <1>1, Invariance, PTL

\* An endpoint that reached the failure limit is not active, whatever its
\* deliveries, its owner and the workers do meanwhile (markDeliveryFailure,
\* updateWebhookEndpoint).
THEOREM FailingEndpointsArePaused == Spec => []ActiveBelowLimit
<1>1. Inv => ActiveBelowLimit BY DEF Inv, Safe
<1> QED BY <1>1, Invariance, PTL

\* Where every process ends an attempt before its lock is stale, the attempt
\* limit is exceeded by one attempt at most for every start after the first
\* (markDeliveryFailure, the recovery of stale locks at a start).
THEOREM AttemptsAreBounded ==
  ASSUME Prompt
  PROVE  Spec => []AttemptsWithinLimit
<1>1. Inv => AttemptsWithinLimit BY DEF Inv, Budget, AttemptsWithinLimit
<1> QED BY <1>1, Invariance, PTL

\* Only its holder writes a locked row, and a delivered row is not locked.
LEMMA DeliveredStays ==
  ASSUME Prompt, Inv, Next, NEW d \in Deliveries, status[d] = "delivered"
  PROVE  status'[d] \in {"delivered", "deleted"}
<1>1. ASSUME UNCHANGED status PROVE status'[d] \in {"delivered", "deleted"}
  BY <1>1
<1>2. ASSUME NEW e \in Endpoints, Manage(e) PROVE status'[d] \in {"delivered", "deleted"}
  BY <1>2 DEF Manage, CreateEndpoint, UpdateEndpoint, RotateSecret, DeleteEndpoint, rowVars
<1>3. ASSUME NEW rows \in SUBSET Deliveries, InsertRows(rows) PROVE status'[d] \in {"delivered", "deleted"}
  BY <1>3 DEF InsertRows
<1>4. ASSUME NEW c \in Calls, CallStep(c) PROVE status'[d] \in {"delivered", "deleted"}
  <2>1. ASSUME NEW x \in Deliveries, Requeue(c, x) PROVE status'[d] \in {"delivered", "deleted"}
    <3>1. x # d BY <2>1 DEF Requeue
    <3> QED BY <2>1, <3>1, Types DEF Requeue
  <2> QED BY <1>1, <1>3, <1>4, <2>1 DEF CallStep, Enqueue, Announce, CommitReplyLost, rowVars
<1>5. ASSUME NEW i \in Instances, Idle(i) PROVE status'[d] \in {"delivered", "deleted"}
  <2>1. ASSUME RecoverStale(i) PROVE status'[d] \in {"delivered", "deleted"}
    BY <2>1 DEF RecoverStale, Stale
  <2> QED
    BY <1>1, <1>5, <2>1 DEF Idle, RecoverFails, Drain, FindNothing, Look, LookFails, WakeBySignal,
       WakeByTimer, rowVars
<1>6. ASSUME NEW i \in Instances, NEW x \in Deliveries, ClaimRow(i, x)
      PROVE  status'[d] \in {"delivered", "deleted"}
  <2>1. status' = [status EXCEPT ![x] = "processing"] /\ status[x] \in Waiting
    BY <1>6 DEF ClaimRow, Claimable, Due, Live
  <2> QED BY <2>1, Types DEF Waiting
<1>7. ASSUME NEW i \in Instances, phase[i] \in Busy
      PROVE  held[i] \in Deliveries /\ status[held[i]] \in {"processing", "deleted"}
  BY <1>7 DEF Inv, Safe, HeldRows, Exclusive, Current
<1>8. ASSUME NEW i \in Instances, Deliver(i) PROVE status'[d] \in {"delivered", "deleted"}
  <2>1. ASSUME MarkSuccess(i) PROVE status'[d] \in {"delivered", "deleted"}
    <3>1. phase[i] \in Busy BY <2>1 DEF MarkSuccess, Busy, Outcomes
    <3> QED BY <1>7, <2>1, <3>1, Types DEF MarkSuccess
  <2>2. ASSUME MarkFailure(i) PROVE status'[d] \in {"delivered", "deleted"}
    <3>1. phase[i] \in Busy BY <2>2 DEF MarkFailure, Busy, Outcomes
    <3>2. held[i] # d BY <1>7, <3>1
    <3>3. CASE Exists(held[i]) BY <2>2, <3>2, <3>3, Types DEF MarkFailure
    <3>4. CASE ~Exists(held[i]) BY <1>1, <2>2, <3>4 DEF MarkFailure
    <3> QED BY <3>3, <3>4
  <2> QED BY <1>1, <1>8, <2>1, <2>2 DEF Deliver, Send, MarkFails, rowVars
<1> QED
  BY <1>1, <1>2, <1>3, <1>4, <1>5, <1>6, <1>8 DEF Next, EmitSecurityAlert, ClaimFails, Restart, Tick,
     Claim, ClaimReplyLost, rowVars

\* Where every process ends an attempt before its lock is stale, a delivery that
\* the receiver confirmed is never sent again, nor buried by a late failure,
\* although markDeliverySuccess and markDeliveryFailure are WHERE id=$1 alone.
THEOREM DeliveredForGood ==
  ASSUME Prompt
  PROVE  Spec => DeliveredIsFinal
<1> DEFINE Final == \A d \in Deliveries : status[d] = "delivered" => status'[d] \in {"delivered", "deleted"}
<1>1. Inv /\ Next => Final BY DeliveredStays
<1>2. Inv /\ [Next]_vars => [Final]_vars BY <1>1
<1> HIDE DEF Final
<1>3. Spec => [][Final]_vars BY <1>2, Invariance, PTL DEF Spec
<1> QED BY <1>3, PTL DEF Final, DeliveredIsFinal
=============================================================================
