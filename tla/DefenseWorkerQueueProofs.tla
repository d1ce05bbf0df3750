--------------------- MODULE DefenseWorkerQueueProofs ---------------------
(***************************************************************************)
(* Proofs about DefenseWorkerQueue for any number of jobs, clients and     *)
(* workers.  Row collects what holds of the table whoever works on it;     *)
(* Hold relates what a process carries across its statements (a job and    *)
(* the attempt it claimed) to the row as it is now.                        *)
(***************************************************************************)
EXTENDS DefenseWorkerQueue, TLAPS

\* A row that does not exist yet has no attempts behind it.
AbsentIsFresh ==
  \A j \in Jobs : status[j] = "absent" => attempts[j] = 0

\* What a process carries is a claim that was made, at most as new as the row's.
HeldClaim ==
  \A w \in Workers : phase[w] # "idle" =>
    /\ held[w] \in Jobs
    /\ attempt[w] \in 1 .. attempts[held[w]]
    /\ status[held[w]] \in Terminal \cup {"running"}

\* The row a process settled still says what the process wrote.
HeldSettled ==
  \A w \in Workers : phase[w] \in Terminal =>
    status[held[w]] = phase[w] /\ settledBy[held[w]] = attempt[w]

\* A process about to complete a LiteSVM job has stored the attempt.
HeldRecorded ==
  \A w \in Workers :
    phase[w] = "completing" /\ request[held[w]] \in Requests => Token(w) \in records

\* Claims of two processes differ.
HeldDistinct ==
  \A v, w \in Workers :
    v # w /\ phase[v] # "idle" /\ phase[w] # "idle" => Token(v) # Token(w)

Inv ==
  /\ TypeOK /\ AbsentIsFresh /\ HeldClaim /\ HeldSettled /\ HeldRecorded /\ HeldDistinct
  /\ OneActivePerRequest /\ CompletedIsRecorded /\ AuditTrailTrue

\* The lease ClaimWorkerJob grants is a time.
LEMMA LeaseType == EffectiveLease \in Nat
BY TimesAssumption, SMT DEF EffectiveLease

\* EnqueueWorkerJob normalises max_attempts to a positive number.
LEMMA AttemptLimitType ==
  ASSUME NEW r, NEW n \in Nat
  PROVE  AttemptLimit(r, n) \in Nat \ {0}
BY SMT DEF AttemptLimit

\* A terminal event speaks of a job whose row is settled.
LEMMA EventShape ==
  ASSUME TypeOK, AuditTrailTrue, NEW e \in events
  PROVE  e[1] \in Jobs /\ status[e[1]] \in Terminal
<1>1. PICK j \in Jobs, t \in Terminal, n \in Nat : e = <<j, t, n>>
  BY SMT DEF TypeOK
<1>2. e[1] = j /\ e[2] = t
  BY <1>1
<1> QED BY <1>1, <1>2 DEF AuditTrailTrue

\* The empty table satisfies the invariant.
LEMMA InitInv == Init => Inv
BY NamesAssumption, SMT DEF Init, Inv, TypeOK, AbsentIsFresh, HeldClaim, HeldSettled, HeldRecorded,
  HeldDistinct, OneActivePerRequest, CompletedIsRecorded, AuditTrailTrue, ActiveFor,
  Active, Terminal, Phases, Working

-----------------------------------------------------------------------------
(***************************************************************************)
(* The enqueue calls.                                                      *)
(***************************************************************************)
\* Inserting a row: no process holds it yet, and the unique index sees the others.
LEMMA InsertJobInv ==
  ASSUME Inv, NEW c \in Clients, NEW j \in Jobs, NEW r \in Requests \cup {NoRequest},
         NEW n \in Asked, InsertJob(c, j, r, n)
  PROVE  Inv'
<1> USE DEF Inv, InsertJob, rowVars, logVars, workerVars
<1>0. AttemptLimit(r, n) \in Nat \ {0}
  BY AttemptLimitType, TimesAssumption, SMT
<1>1. TypeOK'
  BY <1>0, NamesAssumption, SMT DEF TypeOK, AbsentIsFresh, Active
<1>2. AbsentIsFresh'
  BY SMT DEF AbsentIsFresh, TypeOK
<1>3. HeldClaim' /\ HeldSettled'
  BY SMT DEF HeldClaim, HeldSettled, TypeOK, Terminal, Phases, Working
<1>a. \A v \in Workers : phase[v] # "idle" => held[v] \in Jobs \ {j}
  BY SMT DEF HeldClaim, Terminal
<1>b. \A k \in Jobs \ {j} : request'[k] = request[k] /\ status'[k] = status[k]
  BY SMT DEF TypeOK
<1>4. HeldRecorded'
  BY <1>a, <1>b, SMT DEF HeldRecorded, Token
<1>5. HeldDistinct'
  BY SMT DEF HeldDistinct, Token
<1>6. OneActivePerRequest'
  BY NamesAssumption, SMT DEF OneActivePerRequest, ActiveFor, Conflicts, TypeOK, Active
<1>7. CompletedIsRecorded'
  BY <1>b, SMT DEF CompletedIsRecorded, TypeOK
<1>8. AuditTrailTrue'
  <2>1. ASSUME NEW e \in events PROVE e[1] \in Jobs \ {j}
    BY <2>1, EventShape DEF Terminal
  <2> QED BY <2>1, <1>b, SMT DEF AuditTrailTrue
<1> QED BY <1>1, <1>2, <1>3, <1>4, <1>5, <1>6, <1>7, <1>8

\* Steps that leave the rows, the logs and what processes hold alone.
LEMMA FrameInv ==
  ASSUME Inv, TypeOK',
         UNCHANGED <<status, request, attempts, settledBy, records, events, phase, held, attempt>>
  PROVE  Inv'
BY SMT DEF Inv, AbsentIsFresh, HeldClaim, HeldSettled, HeldRecorded, HeldDistinct, Token,
   OneActivePerRequest, ActiveFor, CompletedIsRecorded, AuditTrailTrue

\* The remaining statements of an enqueue call write no table the invariant reads.
LEMMA CallInv ==
  ASSUME Inv, NEW c \in Clients,
         \/ \E r \in Requests : InsertConflicts(c, r)
         \/ LookupActive(c) \/ CallEnds(c)
  PROVE  Inv'
<1>1. UNCHANGED <<status, request, maxAttempts, attempts, workerId, leaseLeft, settledBy,
                  records, events, phase, held, attempt, workLeft, order>>
  BY DEF InsertConflicts, LookupActive, CallEnds, rowVars, logVars, workerVars
<1>2. /\ call' \in [Clients -> {"idle", "lookup", "announce"}]
      /\ callJob' \in [Clients -> Jobs \cup {NoJob}]
      /\ callRequest' \in [Clients -> Requests \cup {NoRequest}]
  <2> USE DEF Inv, TypeOK
  <2>1. CASE \E r \in Requests : InsertConflicts(c, r)
    BY <2>1 DEF InsertConflicts
  <2>2. CASE LookupActive(c) \/ CallEnds(c)
    BY <2>2 DEF LookupActive, CallEnds, EndCall
  <2> QED BY <2>1, <2>2
<1>3. TypeOK'
  BY <1>1, <1>2 DEF Inv, TypeOK
<1> QED BY <1>1, <1>3, FrameInv
-----------------------------------------------------------------------------
(***************************************************************************)
(* The claims: the row's part is common to both outcomes.                  *)
(***************************************************************************)
\* What the UPDATE of ClaimWorkerJob does to the row, whoever hears of it.
LEMMA ClaimRowInv ==
  ASSUME Inv, NEW w \in Workers, NEW j \in Jobs, ClaimRow(w, j)
  PROVE  /\ status' \in [Jobs -> Active \cup Terminal \cup {"absent"}]
         /\ attempts' \in [Jobs -> Nat] /\ \A k \in Jobs : attempts'[k] <= maxAttempts'[k]
         /\ workerId' \in [Jobs -> WorkerIds \cup {NoWorker}] /\ leaseLeft' \in [Jobs -> Nat]
         /\ status[j] \in Active /\ status'[j] = "running" /\ attempts'[j] = attempts[j] + 1
         /\ \A k \in Jobs \ {j} : status'[k] = status[k] /\ attempts'[k] = attempts[k]
         /\ UNCHANGED <<request, maxAttempts, settledBy>>
BY LeaseType, NamesAssumption, SMT
DEF ClaimRow, NextToClaim, Claimable, LeaseExpired, NextAttempt, Inv, TypeOK, Active

\* A claim raises the attempt, so the new holder differs from every other.
LEMMA ClaimInv ==
  ASSUME Inv, NEW w \in Workers, NEW j \in Jobs,
         Claim(w, j) \/ ClaimReplyLost(w, j)
  PROVE  Inv'
<1>0. ClaimRow(w, j) /\ UNCHANGED <<logVars, callVars, order>>
  BY DEF Claim, ClaimReplyLost
<1>1. /\ status' \in [Jobs -> Active \cup Terminal \cup {"absent"}]
      /\ attempts' \in [Jobs -> Nat] /\ \A k \in Jobs : attempts'[k] <= maxAttempts'[k]
      /\ workerId' \in [Jobs -> WorkerIds \cup {NoWorker}] /\ leaseLeft' \in [Jobs -> Nat]
      /\ status[j] \in Active /\ status'[j] = "running" /\ attempts'[j] = attempts[j] + 1
      /\ \A k \in Jobs \ {j} : status'[k] = status[k] /\ attempts'[k] = attempts[k]
      /\ UNCHANGED <<request, maxAttempts, settledBy>>
  BY <1>0, ClaimRowInv
<1>2. \/ /\ phase' = [phase EXCEPT ![w] = "ready"]
         /\ held' = [held EXCEPT ![w] = j]
         /\ attempt' = [attempt EXCEPT ![w] = attempts[j] + 1]
         /\ workLeft' = [workLeft EXCEPT ![w] = JobTimeout]
      \/ UNCHANGED workerVars
  BY DEF Claim, ClaimReplyLost, NextAttempt
<1>3. TypeOK'
  <2>1. UNCHANGED <<records, events, call, callJob, callRequest, order>>
    BY <1>0 DEF logVars, callVars
  <2>2. /\ phase' \in [Workers -> Phases] /\ held' \in [Workers -> Jobs \cup {NoJob}]
        /\ attempt' \in [Workers -> Nat] /\ workLeft' \in [Workers -> Nat]
    <3> USE DEF Inv, TypeOK
    <3>1. CASE UNCHANGED workerVars
      BY <3>1 DEF workerVars
    <3>2. CASE /\ phase' = [phase EXCEPT ![w] = "ready"]
               /\ held' = [held EXCEPT ![w] = j]
               /\ attempt' = [attempt EXCEPT ![w] = attempts[j] + 1]
               /\ workLeft' = [workLeft EXCEPT ![w] = JobTimeout]
      BY <3>2, TimesAssumption DEF Phases, Working
    <3> QED BY <3>1, <3>2, <1>2
  <2> QED BY <1>1, <2>1, <2>2 DEF Inv, TypeOK
<1>a. UNCHANGED <<records, events>>
  BY <1>0 DEF logVars
<1>b. \A k \in Jobs : status[k] \in Terminal => status'[k] = status[k] /\ k # j
  BY <1>1, SMT DEF Active, Terminal
<1>c. \A v \in Workers :
        \/ /\ phase'[v] = phase[v] /\ held'[v] = held[v] /\ attempt'[v] = attempt[v]
        \/ v = w /\ phase'[v] = "ready" /\ held'[v] = j /\ attempt'[v] = attempts[j] + 1
  BY <1>2, SMT DEF Inv, TypeOK, workerVars
<1>4. AbsentIsFresh' /\ OneActivePerRequest'
  BY <1>1, SMT DEF Inv, AbsentIsFresh, OneActivePerRequest, ActiveFor, Active
<1>d. CompletedIsRecorded'
  BY <1>1, <1>a, SMT DEF Inv, CompletedIsRecorded
<1>e. AuditTrailTrue'
  <2>1. ASSUME NEW e \in events PROVE e[1] \in Jobs /\ status[e[1]] \in Terminal
    BY EventShape DEF Inv
  <2> QED BY <2>1, <1>1, <1>a, <1>b, SMT DEF Inv, AuditTrailTrue
<1>5. HeldClaim'
  <2> SUFFICES ASSUME NEW v \in Workers, phase'[v] # "idle"
      PROVE  /\ held'[v] \in Jobs /\ attempt'[v] \in 1 .. attempts'[held'[v]]
             /\ status'[held'[v]] \in Terminal \cup {"running"}
    BY DEF HeldClaim
  <2>1. CASE phase'[v] = phase[v] /\ held'[v] = held[v] /\ attempt'[v] = attempt[v]
    <3>1. /\ held[v] \in Jobs /\ attempt[v] \in 1 .. attempts[held[v]]
          /\ status[held[v]] \in Terminal \cup {"running"}
      BY <2>1 DEF Inv, HeldClaim
    <3>2. attempts[held[v]] \in Nat /\ attempts'[held[v]] \in {attempts[held[v]], attempts[held[v]] + 1}
      BY <3>1, <1>1 DEF Inv, TypeOK
    <3> QED BY <2>1, <3>1, <3>2, <1>1
  <2>2. CASE v = w /\ phase'[v] = "ready" /\ held'[v] = j /\ attempt'[v] = attempts[j] + 1
    BY <2>2, <1>1, SMT DEF Inv, TypeOK
  <2> QED BY <2>1, <2>2, <1>c
<1>6. HeldSettled'
  BY <1>1, <1>b, <1>c, SMT DEF Inv, HeldClaim, HeldSettled, Terminal
<1>f. HeldRecorded'
  BY <1>1, <1>a, <1>c, SMT DEF Inv, HeldRecorded, Token
<1>7. HeldDistinct'
  <2>1. \A v \in Workers : phase[v] # "idle" => Token(v) # <<j, attempts[j] + 1>>
    BY SMT DEF Inv, HeldClaim, Token, TypeOK
  <2> QED BY <2>1, <1>c, SMT DEF Inv, HeldDistinct, Token
<1> QED BY <1>3, <1>4, <1>5, <1>6, <1>7, <1>d, <1>e, <1>f DEF Inv
-----------------------------------------------------------------------------
(***************************************************************************)
(* The steps of a worker with a job in hand, and time.                     *)
(***************************************************************************)
\* Starting and ending a run: at most an attempt record is added.
LEMMA RunInv ==
  ASSUME Inv, NEW w \in Workers,
         Refuse(w) \/ RejectStart(w) \/ Launch(w) \/ RunEnds(w) \/ RunCancelled(w)
         \/ StoreUnanswered(w)
  PROVE  Inv'
<1>1. /\ phase[w] \in {"ready", "running"}
      /\ \E p \in Working : phase' = [phase EXCEPT ![w] = p]
      /\ UNCHANGED <<rowVars, events, held, attempt, workLeft, callVars, order>>
  BY DEF Refuse, RejectStart, Launch, RunEnds, RunCancelled, StoreUnanswered, GoTo, Working, logVars
<1>2. /\ records' \in {records, records \cup {Token(w)}}
      /\ phase'[w] = "completing" /\ request[held[w]] \in Requests => Token(w) \in records'
  BY SMT DEF Refuse, RejectStart, Launch, RunEnds, RunCancelled, StoreUnanswered, GoTo, RecordsAfter, logVars,
     Inv, TypeOK
<1>3. Token(w) \in Jobs \X Nat
  <2>1. held[w] \in Jobs BY <1>1 DEF Inv, HeldClaim, Working
  <2>2. attempt[w] \in Nat BY DEF Inv, TypeOK
  <2> QED BY <2>1, <2>2 DEF Token
<1>4. TypeOK'
  <2>1. phase' \in [Workers -> Phases] BY <1>1 DEF Inv, TypeOK, Phases, Working
  <2>2. records' \subseteq Jobs \X Nat BY <1>2, <1>3 DEF Inv, TypeOK
  <2> QED BY <1>1, <2>1, <2>2 DEF Inv, TypeOK, rowVars, callVars
<1>5. AbsentIsFresh' /\ OneActivePerRequest' /\ CompletedIsRecorded' /\ AuditTrailTrue'
  BY <1>1, <1>2, SMT DEF Inv, AbsentIsFresh, OneActivePerRequest, ActiveFor,
     CompletedIsRecorded, AuditTrailTrue, rowVars
<1>6. HeldClaim' /\ HeldSettled' /\ HeldDistinct'
  BY <1>1, SMT DEF Inv, TypeOK, HeldClaim, HeldSettled, HeldDistinct, Token, rowVars, Working, Terminal
<1>7. HeldRecorded'
  <2>1. UNCHANGED <<request, held, attempt>> BY <1>1 DEF rowVars
  <2>2. ASSUME NEW v \in Workers, phase'[v] = "completing", request[held[v]] \in Requests
        PROVE  Token(v) \in records'
    <3>1. CASE v = w BY <3>1, <2>2, <1>2
    <3>2. CASE v # w
      <4>1. phase[v] = "completing" BY <3>2, <2>2, <1>1 DEF Inv, TypeOK
      <4> QED BY <4>1, <2>2, <1>2 DEF Inv, HeldRecorded
    <3> QED BY <3>1, <3>2
  <2> QED BY <2>1, <2>2 DEF HeldRecorded, Token
<1> QED BY <1>4, <1>5, <1>6, <1>7 DEF Inv

\* CompleteWorkerJob and FailWorkerJob write one row the process still owns.
LEMMA SettleRowInv ==
  ASSUME Inv, NEW w \in Workers, SettleRow(w)
  PROVE  Inv'
<1> USE DEF Inv, SettleRow, GoTo
<1>1. held[w] \in Jobs /\ attempt[w] \in Nat /\ Outcome(w) \in Terminal /\ status[held[w]] = "running"
  BY SMT DEF HeldClaim, TypeOK, Outcome, Terminal, OwnsRow
<1>2. TypeOK'
  BY <1>1, SMT DEF TypeOK, Phases, logVars, callVars
<1>3. AbsentIsFresh' /\ OneActivePerRequest'
  BY <1>1, SMT DEF AbsentIsFresh, OneActivePerRequest, ActiveFor, TypeOK, Terminal, Active
<1>4. HeldClaim' /\ HeldDistinct'
  BY <1>1, SMT DEF HeldClaim, HeldDistinct, Token, TypeOK, Terminal
<1>5. HeldSettled'
  BY <1>1, SMT DEF HeldSettled, TypeOK, Terminal
<1>6. HeldRecorded'
  BY <1>1, SMT DEF HeldRecorded, Token, TypeOK, Terminal, logVars
<1>7. CompletedIsRecorded'
  BY <1>1, SMT DEF CompletedIsRecorded, HeldRecorded, Outcome, Token, TypeOK, logVars
<1>8. AuditTrailTrue'
  <2>1. ASSUME NEW e \in events PROVE e[1] \in Jobs \ {held[w]}
    BY <2>1, <1>1, EventShape DEF Terminal
  <2> QED BY <2>1, SMT DEF AuditTrailTrue, TypeOK, logVars
<1> QED BY <1>2, <1>3, <1>4, <1>5, <1>6, <1>7, <1>8

\* A process that drops its job, with or without the terminal event.
LEMMA LetgoInv ==
  ASSUME Inv, NEW w \in Workers,
         SettleFails(w) \/ AppendSettled(w) \/ Crash(w)
  PROVE  Inv'
<1>1. /\ phase' = [phase EXCEPT ![w] = "idle"] /\ held' = [held EXCEPT ![w] = NoJob]
      /\ attempt' = [attempt EXCEPT ![w] = 0] /\ workLeft' = [workLeft EXCEPT ![w] = 0]
      /\ UNCHANGED <<rowVars, records, callVars, order>>
  BY DEF SettleFails, AppendSettled, Crash, GoTo, Letgo, logVars
<1>2. \/ UNCHANGED events
      \/ phase[w] \in Terminal /\ events' = events \cup {<<held[w], phase[w], attempt[w]>>}
  BY DEF SettleFails, AppendSettled, Crash, logVars
<1>3. TypeOK'
  <2>1. /\ phase' \in [Workers -> Phases] /\ held' \in [Workers -> Jobs \cup {NoJob}]
        /\ attempt' \in [Workers -> Nat] /\ workLeft' \in [Workers -> Nat]
    BY <1>1 DEF Inv, TypeOK, Phases
  <2>2. events' \subseteq Jobs \X Terminal \X Nat
    <3>1. CASE UNCHANGED events BY <3>1 DEF Inv, TypeOK
    <3>2. CASE phase[w] \in Terminal /\ events' = events \cup {<<held[w], phase[w], attempt[w]>>}
      <4>1. held[w] \in Jobs /\ attempt[w] \in Nat
        BY <3>2 DEF Inv, TypeOK, HeldClaim, Terminal
      <4> QED BY <3>2, <4>1 DEF Inv, TypeOK
    <3> QED BY <3>1, <3>2, <1>2
  <2> QED BY <2>1, <2>2, <1>1 DEF Inv, TypeOK, rowVars, callVars
<1>4. AbsentIsFresh' /\ OneActivePerRequest' /\ CompletedIsRecorded'
  BY <1>1, SMT DEF Inv, AbsentIsFresh, OneActivePerRequest, ActiveFor, CompletedIsRecorded, rowVars
<1>5. AuditTrailTrue'
  BY <1>1, <1>2, SMT DEF Inv, AuditTrailTrue, HeldSettled, rowVars
<1>6. HeldClaim' /\ HeldSettled' /\ HeldRecorded' /\ HeldDistinct'
  BY <1>1, SMT DEF Inv, TypeOK, HeldClaim, HeldSettled, HeldRecorded, HeldDistinct, Token, rowVars, Terminal
<1> QED BY <1>3, <1>4, <1>5, <1>6 DEF Inv

\* Time alone changes no row that the invariant reads.
LEMMA TickInv ==
  ASSUME Inv, Tick
  PROVE  Inv'
<1>1. TypeOK'
  BY SMT DEF Inv, TypeOK, Tick, LessOne, logVars, callVars
<1> QED
  BY <1>1, SMT DEF Inv, Tick, AbsentIsFresh, HeldClaim, HeldSettled, HeldRecorded, HeldDistinct, Token,
     OneActivePerRequest, ActiveFor, CompletedIsRecorded, AuditTrailTrue, logVars
-----------------------------------------------------------------------------
\* Every step preserves the invariant.
LEMMA NextInv == Inv /\ [Next]_vars => Inv'
<1> SUFFICES ASSUME Inv, [Next]_vars PROVE Inv' OBVIOUS
<1>1. ASSUME NEW c \in Clients, ClientStep(c) PROVE Inv'
  BY <1>1, InsertJobInv, CallInv DEF ClientStep
<1>2. ASSUME NEW w \in Workers, WorkerStep(w) PROVE Inv'
  BY <1>2, ClaimInv, RunInv, SettleRowInv, LetgoInv DEF WorkerStep, JobStep
<1>3. CASE Tick
  BY <1>3, TickInv
<1>4. CASE UNCHANGED vars
  <2> USE <1>4 DEF Inv, vars, rowVars, logVars, workerVars, callVars
  <2>1. TypeOK' BY SMT DEF TypeOK
  <2>2. AbsentIsFresh' /\ HeldClaim' /\ HeldSettled' BY SMT DEF AbsentIsFresh, HeldClaim, HeldSettled
  <2>3. HeldRecorded' /\ HeldDistinct' BY SMT DEF HeldRecorded, HeldDistinct, Token
  <2>4. OneActivePerRequest' BY SMT DEF OneActivePerRequest, ActiveFor
  <2>5. CompletedIsRecorded' /\ AuditTrailTrue' BY SMT DEF CompletedIsRecorded, AuditTrailTrue
  <2> QED BY <2>1, <2>2, <2>3, <2>4, <2>5
<1> QED BY <1>1, <1>2, <1>3, <1>4 DEF Next

\* The inductive invariant holds in every reachable state.
THEOREM InvAlways == Spec => []Inv
BY InitInv, NextInv, PTL DEF Spec

\* Type correctness and the bound on attempts, for any instance.
THEOREM TypeCorrect == Spec => []TypeOK
<1>1. Inv => TypeOK BY DEF Inv
<1> QED BY InvAlways, <1>1, PTL

\* Lost leases, lost replies and crashes never let two workers hold one attempt.
THEOREM AttemptsAreExclusive == Spec => []OneWorkerPerAttempt
<1>1. Inv => OneWorkerPerAttempt
  BY DEF Inv, HeldDistinct, OneWorkerPerAttempt, Busy, Working
<1> QED BY InvAlways, <1>1, PTL

\* A request has at most one active LiteSVM job.
THEOREM RequestsAreDeduplicated == Spec => []OneActivePerRequest
<1>1. Inv => OneActivePerRequest BY DEF Inv
<1> QED BY InvAlways, <1>1, PTL

\* A completed LiteSVM job has its stored attempt.
THEOREM CompletionsAreRecorded == Spec => []CompletedIsRecorded
<1>1. Inv => CompletedIsRecorded BY DEF Inv
<1> QED BY InvAlways, <1>1, PTL

\* Terminal events agree with the row, always.
THEOREM AuditTrailIsTrue == Spec => []AuditTrailTrue
<1>1. Inv => AuditTrailTrue BY DEF Inv
<1> QED BY InvAlways, <1>1, PTL

-----------------------------------------------------------------------------
(***************************************************************************)
(* Refinement.  Settling is fenced by worker_id alone, so the argument     *)
(* needs that no two processes share an identifier: then a process whose   *)
(* job was claimed again can no longer own the row.                        *)
(***************************************************************************)
DistinctIdentifiers == \A v, w \in Workers : v # w => IdOf[v] # IdOf[w]

\* A process that still owns the row of its job carries the row's newest claim.
OwnerIsCurrent ==
  \A w \in Workers : Busy(w) /\ OwnsRow(w) => attempt[w] = attempts[held[w]]

\* At the start nobody holds a job.
LEMMA OwnerInit == Init => OwnerIsCurrent
BY DEF Init, OwnerIsCurrent, Busy, Working

\* With distinct identifiers, only the newest claimant matches worker_id.
LEMMA OwnerStep ==
  ASSUME DistinctIdentifiers, Inv, OwnerIsCurrent, [Next]_vars
  PROVE  OwnerIsCurrent'
<1> SUFFICES ASSUME NEW v \in Workers, Busy(v)', OwnsRow(v)'
    PROVE  attempt'[v] = attempts'[held'[v]]
  BY DEF OwnerIsCurrent
<1> USE DEF Busy, OwnsRow
<1>a. ASSUME Busy(v), UNCHANGED <<attempts, workerId, held, attempt>>,
             status'[held[v]] = "running" => status[held[v]] = "running"
      PROVE  attempt'[v] = attempts'[held'[v]]
  BY <1>a DEF OwnerIsCurrent
<1>1. ASSUME NEW c \in Clients, ClientStep(c) PROVE attempt'[v] = attempts'[held'[v]]
  <2>1. UNCHANGED <<attempts, workerId, phase, held, attempt>>
    BY <1>1 DEF ClientStep, InsertJob, InsertConflicts, LookupActive, CallEnds, rowVars, workerVars
  <2>2. \A k \in Jobs : status'[k] = "running" => status[k] = "running"
    BY <1>1, SMT DEF ClientStep, InsertJob, InsertConflicts, LookupActive, CallEnds, rowVars, Inv, TypeOK
  <2>3. held[v] \in Jobs
    BY <2>1, SMT DEF Inv, HeldClaim, Working
  <2> QED BY <1>a, <2>1, <2>2, <2>3
<1>2. ASSUME NEW w \in Workers, NEW j \in Jobs, Claim(w, j) \/ ClaimReplyLost(w, j)
      PROVE  attempt'[v] = attempts'[held'[v]]
  <2>0. ClaimRow(w, j)
    BY <1>2 DEF Claim, ClaimReplyLost
  <2>1. /\ attempts' = [attempts EXCEPT ![j] = @ + 1]
        /\ workerId' = [workerId EXCEPT ![j] = IdOf[w]] /\ phase[w] = "idle"
    BY <2>0 DEF ClaimRow, NextAttempt, Inv, TypeOK
  <2>2. CASE v = w
    BY <1>2, <2>1, <2>2, SMT DEF Claim, ClaimReplyLost, NextAttempt, workerVars, Working, Inv, TypeOK
  <2>3. CASE v # w
    <3>1. phase'[v] = phase[v] /\ held'[v] = held[v] /\ attempt'[v] = attempt[v]
      BY <1>2, <2>3, SMT DEF Claim, ClaimReplyLost, workerVars, Inv, TypeOK
    <3>2. held[v] \in Jobs
      BY <3>1 DEF Inv, HeldClaim, Working
    <3>3. held[v] # j
      BY <2>1, <2>3, <3>1, <3>2 DEF DistinctIdentifiers, Inv, TypeOK
    <3>4. status'[held[v]] = status[held[v]]
      BY <2>0, <3>2, <3>3 DEF ClaimRow, Inv, TypeOK
    <3> QED BY <2>1, <3>1, <3>2, <3>3, <3>4 DEF OwnerIsCurrent, Inv, TypeOK
  <2> QED BY <2>2, <2>3
<1>3. ASSUME NEW w \in Workers, JobStep(w) \/ Crash(w)
      PROVE  attempt'[v] = attempts'[held'[v]]
  <2>1. UNCHANGED <<attempts, workerId>>
    BY <1>3 DEF JobStep, Refuse, RejectStart, Launch, RunEnds, RunCancelled,
      StoreUnanswered, SettleRow, SettleFails,
       AppendSettled, Crash, rowVars
  <2>2. Busy(v) /\ held'[v] = held[v] /\ attempt'[v] = attempt[v]
    BY <1>3, SMT DEF JobStep, Refuse, RejectStart, Launch, RunEnds, RunCancelled, StoreUnanswered, SettleRow,
       SettleFails, AppendSettled, Crash, GoTo, Letgo, Outcome, Working, Inv, TypeOK
  <2>3. held[v] \in Jobs
    BY <2>2 DEF Inv, HeldClaim, Working
  <2>4. status'[held[v]] = "running" => status[held[v]] = "running"
    BY <1>3, <2>3, SMT DEF JobStep, Refuse, RejectStart, Launch, RunEnds, RunCancelled,
      StoreUnanswered, SettleRow,
       SettleFails, AppendSettled, Crash, Outcome, rowVars, Inv, TypeOK
  <2> QED BY <2>1, <2>2, <2>3, <2>4 DEF OwnerIsCurrent
<1>4. CASE Tick
  BY <1>4, <1>a DEF Tick
<1>5. CASE UNCHANGED vars
  BY <1>5, <1>a DEF vars, rowVars, workerVars
<1> QED BY <1>1, <1>2, <1>3, <1>4, <1>5 DEF Next, WorkerStep

\* The empty table is the abstract queue without jobs.
LEMMA InitMapsToInit == Init => Fenced!Init
BY DEF Init, Fenced!Init

\* Every step of the queue is a step of the abstract queue or a stutter.
LEMMA StepMapsToStep ==
  ASSUME DistinctIdentifiers, Inv, OwnerIsCurrent, [Next]_vars
  PROVE  [Fenced!Next]_(Fenced!vars)
<1>a. ASSUME UNCHANGED <<status, request, maxAttempts, attempts, settledBy>>
      PROVE  UNCHANGED Fenced!vars
  BY <1>a DEF Fenced!vars
<1>1. ASSUME NEW c \in Clients, NEW j \in Jobs, NEW r \in Requests \cup {NoRequest},
             NEW n \in Asked, InsertJob(c, j, r, n)
      PROVE  Fenced!Next
  <2>1. AttemptLimit(r, n) \in Nat \ {0}
    BY AttemptLimitType, TimesAssumption
  <2>2. maxAttempts'[j] = AttemptLimit(r, n)
    BY <1>1 DEF InsertJob, Inv, TypeOK
  <2>3. r \in Requests => \A k \in Jobs : request[k] = r => status[k] \notin Active
    BY <1>1 DEF InsertJob, Conflicts, ActiveFor
  <2>4. Fenced!Submit(j, r)
    BY <1>1, <2>1, <2>2, <2>3 DEF InsertJob, Fenced!Submit, Fenced!Unsettled, Active
  <2> QED BY <2>4 DEF Fenced!Next
<1>2. ASSUME NEW w \in Workers, NEW j \in Jobs, Claim(w, j) \/ ClaimReplyLost(w, j)
      PROVE  Fenced!Next
  <2>1. ClaimRow(w, j)
    BY <1>2 DEF Claim, ClaimReplyLost
  <2>2. Fenced!Grant(j)
    BY <2>1, SMT DEF ClaimRow, NextToClaim, Claimable, LeaseExpired, NextAttempt, Fenced!Grant,
       Fenced!Unsettled, Inv, TypeOK
  <2> QED BY <2>2 DEF Fenced!Next
<1>3. ASSUME NEW w \in Workers, SettleRow(w)
      PROVE  Fenced!Next
  <2>1. held[w] \in Jobs /\ attempt[w] = attempts[held[w]] /\ Outcome(w) \in Terminal
    BY <1>3 DEF SettleRow, OwnerIsCurrent, Busy, Working, Inv, HeldClaim, Outcome, Terminal
  <2>2. Fenced!Settle(held[w], Outcome(w))
    BY <1>3, <2>1 DEF SettleRow, OwnsRow, Fenced!Settle
  <2> QED BY <2>1, <2>2 DEF Fenced!Next, Fenced!Settled, Terminal
<1>4. ASSUME NEW c \in Clients,
             (\E r \in Requests : InsertConflicts(c, r)) \/ LookupActive(c) \/ CallEnds(c)
      PROVE  UNCHANGED Fenced!vars
  BY <1>4, <1>a DEF InsertConflicts, LookupActive, CallEnds, rowVars
<1>5. ASSUME NEW w \in Workers,
             \/ Refuse(w) \/ RejectStart(w) \/ Launch(w) \/ RunEnds(w) \/ RunCancelled(w)
             \/ StoreUnanswered(w)
             \/ SettleFails(w) \/ AppendSettled(w) \/ Crash(w)
      PROVE  UNCHANGED Fenced!vars
  BY <1>5, <1>a DEF Refuse, RejectStart, Launch, RunEnds, RunCancelled,
    StoreUnanswered, SettleFails, AppendSettled,
     Crash, rowVars
<1>6. CASE Tick \/ UNCHANGED vars
  BY <1>6, <1>a DEF Tick, vars, rowVars
<1> QED BY <1>1, <1>2, <1>3, <1>4, <1>5, <1>6 DEF Next, ClientStep, WorkerStep, JobStep

\* With distinct identifiers the queue implements the fenced job queue: results
\* come from the newest claim only and settled jobs never change.
THEOREM QueueIsFenced ==
  ASSUME DistinctIdentifiers
  PROVE  Spec => ImplementsFencedJobs
<1>1. Init => OwnerIsCurrent /\ Fenced!Init
  BY OwnerInit, InitMapsToInit
<1>2. Inv /\ OwnerIsCurrent /\ [Next]_vars => OwnerIsCurrent' /\ [Fenced!Next]_(Fenced!vars)
  BY OwnerStep, StepMapsToStep
<1> QED BY <1>1, <1>2, InvAlways, PTL DEF Spec, ImplementsFencedJobs, Fenced!Spec

Promised ==
  INSTANCE FencedJobsProofs
    WITH Recovers <- FALSE, state <- status, limit <- maxAttempts, token <- attempts

\* What the refinement gives the clients of the queue: one unsettled job for a
\* request, settled by its newest attempt, and for good (CompleteWorkerJob,
\* FailWorkerJob, the partial unique index).
THEOREM QueuePromises ==
  ASSUME DistinctIdentifiers
  PROVE  Spec => /\ [](Promised!OneUnsettledPerRequest /\ Promised!NewestSettles)
                 /\ Promised!SettledStays
<1>1. Init => OwnerIsCurrent /\ Promised!Init
  BY OwnerInit, InitMapsToInit DEF Fenced!Init, Promised!Init
<1>2. [Fenced!Next]_(Fenced!vars) => [Promised!Next]_(Promised!vars)
  BY DEF Fenced!Next, Fenced!vars, Promised!Next, Promised!vars, Fenced!Submit, Promised!Submit,
     Fenced!Grant, Promised!Grant, Fenced!Settle, Promised!Settle, Fenced!Recover, Promised!Recover,
     Fenced!Exhausted, Promised!Exhausted, Fenced!Settled, Promised!Settled, Fenced!Unsettled,
     Promised!Unsettled
<1>3. Inv /\ OwnerIsCurrent /\ [Next]_vars => OwnerIsCurrent' /\ [Promised!Next]_(Promised!vars)
  BY <1>2, OwnerStep, StepMapsToStep
<1>4. Spec => Promised!Spec BY <1>1, <1>3, InvAlways, PTL DEF Spec, Promised!Spec
<1> QED BY <1>4, Promised!RequestsAndGrants, Promised!SettledForGood, PTL

-----------------------------------------------------------------------------
(***************************************************************************)
(* Exclusive execution.  It rests on time, not on identifiers: the lease   *)
(* must outlast the job timeout, which EffectiveLease loses when jobTimeout*)
(* plus a minute exceeds the hour above which the request is ignored.      *)
(***************************************************************************)
LeaseOutlastsWork == Prompt /\ EffectiveLease > JobTimeout

\* While a process works, the row is its own and the lease outlives the work.
LeaseCovers ==
  \A w \in Workers : Busy(w) =>
    /\ status[held[w]] = "running" /\ attempt[w] = attempts[held[w]]
    /\ leaseLeft[held[w]] > workLeft[w]

\* A lease that covers the rest of its holder's work keeps others away.
LEMMA CoversExclusive ==
  ASSUME Inv, LeaseCovers
  PROVE  ExclusiveExecution
BY DEF Inv, HeldDistinct, LeaseCovers, ExclusiveExecution, Busy, Working, Token

\* Every step keeps the leases of busy processes long enough.
LEMMA CoversStep ==
  ASSUME LeaseOutlastsWork, Inv, LeaseCovers, [Next]_vars
  PROVE  LeaseCovers'
<1> SUFFICES ASSUME NEW v \in Workers, Busy(v)'
    PROVE  /\ status'[held'[v]] = "running" /\ attempt'[v] = attempts'[held'[v]]
           /\ leaseLeft'[held'[v]] > workLeft'[v]
  BY DEF LeaseCovers
<1> DEFINE Covered == /\ status'[held'[v]] = "running" /\ attempt'[v] = attempts'[held'[v]]
                      /\ leaseLeft'[held'[v]] > workLeft'[v]
<1>0. ASSUME Busy(v)
      PROVE  /\ held[v] \in Jobs /\ status[held[v]] = "running" /\ attempt[v] = attempts[held[v]]
             /\ leaseLeft[held[v]] > workLeft[v]
  BY <1>0 DEF LeaseCovers, Inv, HeldClaim, Busy, Working
<1>1. ASSUME NEW c \in Clients, ClientStep(c) PROVE Covered
  <2>1. UNCHANGED <<attempts, leaseLeft, phase, held, attempt, workLeft>>
    BY <1>1 DEF ClientStep, InsertJob, InsertConflicts, LookupActive, CallEnds, rowVars, workerVars
  <2>2. Busy(v)
    BY <2>1 DEF Busy
  <2>3. status'[held[v]] = status[held[v]]
    BY <1>0, <1>1, <2>2, SMT DEF ClientStep, InsertJob, InsertConflicts, LookupActive, CallEnds,
       rowVars, Inv, TypeOK
  <2> QED BY <1>0, <2>1, <2>2, <2>3
<1>2. ASSUME NEW w \in Workers, NEW j \in Jobs, Claim(w, j) \/ ClaimReplyLost(w, j)
      PROVE  Covered
  <2>0. ClaimRow(w, j)
    BY <1>2 DEF Claim, ClaimReplyLost
  <2>1. /\ attempts' = [attempts EXCEPT ![j] = @ + 1] /\ status' = [status EXCEPT ![j] = "running"]
        /\ leaseLeft' = [leaseLeft EXCEPT ![j] = EffectiveLease] /\ phase[w] = "idle"
    BY <2>0 DEF ClaimRow, NextAttempt, Inv, TypeOK
  <2>2. CASE phase'[v] = phase[v] /\ held'[v] = held[v] /\ attempt'[v] = attempt[v]
             /\ workLeft'[v] = workLeft[v]
    <3>1. Busy(v)
      BY <2>2 DEF Busy
    <3>2. held[v] # j
      <4>1. workLeft[v] \in Nat /\ leaseLeft[held[v]] \in Nat
        BY <1>0, <3>1 DEF Inv, TypeOK
      <4>2. leaseLeft[held[v]] # 0
        BY <4>1, <1>0, <3>1
      <4> QED BY <4>2, <1>0, <3>1, <2>0 DEF ClaimRow, NextToClaim, Claimable, LeaseExpired
    <3> QED BY <3>1, <3>2, <1>0, <2>1, <2>2 DEF Inv, TypeOK
  <2>3. CASE v = w /\ Claim(w, j)
    BY <2>3, <2>1, SMT DEF Claim, NextAttempt, LeaseOutlastsWork, Inv, TypeOK
  <2>4. CASE v # w \/ ClaimReplyLost(w, j)
    BY <2>4, <1>2, <2>2, SMT DEF Claim, ClaimReplyLost, workerVars, Inv, TypeOK
  <2> QED BY <2>3, <2>4, <1>2
<1>3. ASSUME NEW w \in Workers, JobStep(w) \/ Crash(w)
      PROVE  Covered
  <2>1. UNCHANGED attempts
    BY <1>3 DEF JobStep, Refuse, RejectStart, Launch, RunEnds, RunCancelled,
      StoreUnanswered, SettleRow, SettleFails,
       AppendSettled, Crash, rowVars
  <2>2. Busy(v) /\ held'[v] = held[v] /\ attempt'[v] = attempt[v] /\ workLeft'[v] = workLeft[v]
    BY <1>3, SMT DEF Busy, JobStep, Refuse, RejectStart, Launch, RunEnds, RunCancelled,
      StoreUnanswered, SettleRow,
       SettleFails, AppendSettled, Crash, GoTo, Letgo, Outcome, Working, Inv, TypeOK
  <2>3. status'[held[v]] = status[held[v]] /\ leaseLeft'[held[v]] = leaseLeft[held[v]]
    <3>1. CASE SettleRow(w)
      <4>1. Busy(w) /\ phase'[w] \notin Working
        BY <3>1, SMT DEF SettleRow, GoTo, Outcome, Busy, Working, Inv, TypeOK
      <4>2. v # w
        BY <4>1 DEF Busy
      <4>3. held[v] # held[w]
        BY <4>1, <4>2, <2>2, CoversExclusive DEF ExclusiveExecution
      <4> QED BY <4>3, <3>1 DEF SettleRow, Inv, TypeOK
    <3>2. CASE ~SettleRow(w)
      BY <3>2, <1>3 DEF JobStep, Refuse, RejectStart, Launch, RunEnds, RunCancelled,
        StoreUnanswered, SettleFails,
         AppendSettled, Crash, rowVars
    <3> QED BY <3>1, <3>2
  <2> QED BY <1>0, <2>1, <2>2, <2>3
<1>4. CASE Tick
  <2>1. Busy(v) /\ UNCHANGED <<status, attempts, held, attempt>>
    BY <1>4 DEF Tick, Busy
  <2>2. workLeft[v] > 0 /\ workLeft[v] \in Nat /\ leaseLeft[held[v]] \in Nat
    BY <2>1, <1>0, <1>4 DEF Tick, LeaseOutlastsWork, Inv, TypeOK
  <2>3. leaseLeft'[held[v]] = leaseLeft[held[v]] - 1 /\ workLeft'[v] = workLeft[v] - 1
    BY <2>1, <2>2, <1>0, <1>4, SMT DEF Tick, LessOne
  <2> QED BY <2>1, <2>2, <2>3, <1>0
<1>5. CASE UNCHANGED vars
  BY <1>5, <1>0 DEF vars, rowVars, workerVars, Busy
<1> QED BY <1>1, <1>2, <1>3, <1>4, <1>5 DEF Next, WorkerStep

\* When every process obeys its timeout and the lease is longer, no job is ever
\* worked on by two processes, whatever their identifiers.
THEOREM ExecutionIsExclusive ==
  ASSUME LeaseOutlastsWork
  PROVE  Spec => []ExclusiveExecution
<1>1. Init => LeaseCovers
  BY DEF Init, LeaseCovers, Busy, Working
<1>2. Inv /\ LeaseCovers /\ [Next]_vars => LeaseCovers'
  BY CoversStep
<1>3. Inv /\ LeaseCovers => ExclusiveExecution
  BY CoversExclusive
<1> QED BY <1>1, <1>2, <1>3, InvAlways, PTL DEF Spec
=============================================================================
