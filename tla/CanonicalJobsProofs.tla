------------------------- MODULE CanonicalJobsProofs -------------------------
(***************************************************************************)
(* Theorems about CanonicalJobs, for any number of jobs, processes and     *)
(* enqueue calls: no wake-up is lost, whatever fails; and with prompt      *)
(* processes a branch has one job and the table is a fenced queue.         *)
(***************************************************************************)
EXTENDS CanonicalJobs, SequenceTheorems, TLAPS

-----------------------------------------------------------------------------
(***************************************************************************)
(* The inductive invariant.                                                *)
(***************************************************************************)
\* A row that does not exist has no branch, no attempt and no signal.
RowsClean ==
  \A j \in Jobs :
    IF status[j] = "absent"
      THEN branch[j] = NoBranch /\ attempts[j] = 0 /\ wokenAt[j] = Nowhere
      ELSE branch[j] \in Branches

\* A worker that has a job and a call that has committed have a row.
HeldRows ==
  \A i \in Instances : phase[i] \in Holding => held[i] \in Jobs /\ status[held[i]] # "absent"

CallRows ==
  \A c \in Calls : call[c] = "committed" => callJob[c] \in Jobs /\ status[callJob[c]] # "absent"

\* From the claim that found nothing to the end of the wait.
Wakes ==
  \A i \in Instances, j \in Jobs :
    phase[i] \in {"empty", "parked"} /\ status[j] = "queued" /\ wokenAt[j] = i => gate[i]

\* The job of a worker is running, not stale, in the worker's own attempt, and
\* in no other worker's hands.
Exclusive ==
  /\ \A i \in Instances :
       phase[i] \in Holding => /\ status[held[i]] = "running" /\ freshLeft[held[i]] > 0
                               /\ attempt[i] = attempts[held[i]]
  /\ \A i, l \in Instances :
       phase[i] \in Holding /\ phase[l] \in Holding /\ held[i] = held[l] => i = l

Safe == TypeOK /\ RowsClean /\ HeldRows /\ CallRows /\ Wakes

Inv == Safe /\ (Prompt => Exclusive /\ OneJobPerBranch)

LEMMA InitInv == Init => Inv
<1> SUFFICES ASSUME Init PROVE Inv OBVIOUS
<1> USE CanonicalAssumption DEF Init, Safe
<1>1. TypeOK
  BY SMT DEF TypeOK, EmptyGates, Live, Settled, Phases, Holding, Parked, Claimable
<1>2. RowsClean /\ HeldRows /\ CallRows /\ Wakes
  BY SMT DEF RowsClean, HeldRows, CallRows, Wakes, Holding
<1>3. Exclusive /\ OneJobPerBranch BY SMT DEF Exclusive, OneJobPerBranch, Holding, Live
<1> QED BY <1>1, <1>2, <1>3 DEF Inv

-----------------------------------------------------------------------------
(***************************************************************************)
(* The worker's own steps.                                                 *)
(***************************************************************************)
LEMMA WorkerTypes ==
  ASSUME Inv
  PROVE  /\ gate \in [Instances -> BOOLEAN] /\ phase \in [Instances -> Phases]
         /\ held \in [Instances -> Jobs \cup {NoJob}] /\ attempt \in [Instances -> Nat]
BY DEF Inv, Safe, TypeOK

\* A worker goes on without touching a row: it keeps its job or drops it, and
\* it goes to wait only if no signal is missing.
LEMMA WorkerMoves ==
  ASSUME Inv, NEW i \in Instances, NEW p \in Phases, GoTo(i, p),
         UNCHANGED <<rowVars, callVars, restarts>>,
         gate' \in [Instances -> BOOLEAN], held' \in [Instances -> Jobs \cup {NoJob}],
         attempt' \in [Instances -> Nat],
         \A l \in Instances \ {i} :
           gate'[l] = gate[l] /\ held'[l] = held[l] /\ attempt'[l] = attempt[l],
         p \in Holding => phase[i] \in Holding /\ held'[i] = held[i] /\ attempt'[i] = attempt[i],
         p \in {"empty", "parked"} =>
           \A j \in Jobs : status[j] = "queued" /\ wokenAt[j] = i => gate'[i]
  PROVE  Inv'
<1> USE DEF rowVars, callVars
<1>1. /\ phase' \in [Instances -> Phases] /\ phase'[i] = p
      /\ \A l \in Instances \ {i} : phase'[l] = phase[l]
  BY WorkerTypes DEF GoTo
<1>2. TypeOK' BY <1>1 DEF Inv, Safe, TypeOK, Claimable, Retryable
<1>3. RowsClean' /\ CallRows' BY DEF Inv, Safe, RowsClean, CallRows
<1>4. HeldRows' BY <1>1 DEF Inv, Safe, HeldRows
<1>5. Wakes' BY <1>1 DEF Inv, Safe, Wakes
<1>6. Prompt => Exclusive' /\ OneJobPerBranch'
  <2>1. Prompt => Exclusive' BY <1>1 DEF Inv, Exclusive
  <2> QED BY <2>1 DEF Inv, OneJobPerBranch
<1> QED BY <1>2, <1>3, <1>4, <1>5, <1>6 DEF Inv, Safe

\* ... and keeps its gate, or empties it on its way to the next claim.
LEMMA Going ==
  ASSUME Inv, NEW i \in Instances, NEW p \in Phases, GoTo(i, p),
         UNCHANGED <<rowVars, callVars, restarts, held, attempt>>,
         p \in Holding => phase[i] \in Holding,
         \/ /\ UNCHANGED gate
            /\ p \in {"empty", "parked"} =>
                 \A j \in Jobs : status[j] = "queued" /\ wokenAt[j] = i => gate[i]
         \/ Empty(i) /\ p \notin {"empty", "parked"}
  PROVE  Inv'
<1>1. gate' \in [Instances -> BOOLEAN] /\ \A l \in Instances \ {i} : gate'[l] = gate[l]
  BY WorkerTypes DEF Empty
<1>2. p \in {"empty", "parked"} =>
        \A j \in Jobs : status[j] = "queued" /\ wokenAt[j] = i => gate'[i]
  OBVIOUS
<1> QED BY <1>1, <1>2, WorkerTypes, WorkerMoves

LEMMA LoopInv ==
  ASSUME Inv, NEW i \in Instances,
         \/ RequeueFails(i) \/ Drain(i) \/ FindNothing(i) \/ Park(i) \/ ClaimFails(i)
         \/ WakeBySignal(i) \/ WakeByTimer(i)
         \/ ReportBuilt(i) \/ ProcessFails(i) \/ ScheduleEnds(i)
  PROVE  Inv'
<1> USE DEF Phases, Holding, Parked
<1>1. CASE RequeueFails(i) BY <1>1, Going DEF RequeueFails
<1>2. CASE Drain(i) BY <1>2, Going DEF Drain
<1>3. CASE FindNothing(i)
  <2>1. \A j \in Jobs : status[j] # "queued" BY <1>3 DEF FindNothing, Inv, Safe, TypeOK
  <2> QED BY <1>3, <2>1, Going DEF FindNothing
<1>4. CASE Park(i)
  <2>1. \A j \in Jobs : status[j] = "queued" /\ wokenAt[j] = i => gate[i]
    BY <1>4 DEF Park, Inv, Safe, Wakes
  <2> QED BY <1>4, <2>1, Going DEF Park
<1>5. CASE ClaimFails(i) BY <1>5, Going DEF ClaimFails
<1>6. CASE WakeBySignal(i) BY <1>6, Going DEF WakeBySignal
<1>7. CASE WakeByTimer(i) BY <1>7, Going DEF WakeByTimer
<1>8. CASE ReportBuilt(i) BY <1>8, Going DEF ReportBuilt
<1>9. CASE ProcessFails(i) BY <1>9, Going DEF ProcessFails
<1>10. CASE ScheduleEnds(i) BY <1>10, Going DEF ScheduleEnds
<1> QED BY <1>1, <1>2, <1>3, <1>4, <1>5, <1>6, <1>7, <1>8, <1>9, <1>10

\* A worker without its job.
LEMMA LetgoTypes ==
  ASSUME Inv, NEW i \in Instances, Letgo(i)
  PROVE  /\ held' \in [Instances -> Jobs \cup {NoJob}] /\ attempt' \in [Instances -> Nat]
         /\ \A l \in Instances \ {i} : held'[l] = held[l] /\ attempt'[l] = attempt[l]
BY WorkerTypes DEF Letgo

LEMMA SettleFailsInv == ASSUME Inv, NEW i \in Instances, SettleFails(i) PROVE Inv'
<1>1. /\ GoTo(i, "drain") /\ Letgo(i) /\ gate' = gate
      /\ UNCHANGED <<rowVars, callVars, restarts>>
  BY DEF SettleFails
<1>2. "drain" \in Phases /\ "drain" \notin Holding BY DEF Phases, Holding
<1> QED BY <1>1, <1>2, LetgoTypes, WorkerTypes, WorkerMoves

-----------------------------------------------------------------------------
(***************************************************************************)
(* Enqueue calls and new rows.                                             *)
(***************************************************************************)
LEMMA CallTypes ==
  ASSUME Inv
  PROVE  /\ call \in [Calls -> {"idle", "committed"}] /\ callJob \in [Calls -> Jobs \cup {NoJob}]
         /\ wokenAt \in [Jobs -> Instances \cup {Nowhere}]
BY DEF Inv, Safe, TypeOK

\* A row is inserted, with or without a signal to the process it says.
LEMMA RowInserted ==
  ASSUME Inv, NEW j \in Jobs, NEW b \in Branches, InsertRow(j, b),
         UNCHANGED <<attempts, freshLeft, settledBy, workerVars, restarts>>,
         wokenAt' \in [Jobs -> Instances \cup {Nowhere}],
         \A k \in Jobs \ {j} : wokenAt'[k] = wokenAt[k],
         wokenAt'[j] = Nowhere \/ gate'[wokenAt'[j]],
         gate' \in [Instances -> BOOLEAN], \A i \in Instances : gate[i] => gate'[i],
         call' \in [Calls -> {"idle", "committed"}], callJob' \in [Calls -> Jobs \cup {NoJob}],
         \A c \in Calls : call'[c] = "committed" =>
           callJob'[c] = j \/ (call[c] = "committed" /\ callJob'[c] = callJob[c])
  PROVE  Inv'
<1> USE DEF workerVars
<1>1. /\ status[j] = "absent" /\ RowsOf(b) = {}
      /\ status' = [status EXCEPT ![j] = "queued"]
      /\ branch' = [branch EXCEPT ![j] = b]
      /\ order' = Append(order, j)
  BY DEF InsertRow
<1>2. /\ status' \in [Jobs -> Live \cup Settled \cup {"absent"}] /\ status'[j] = "queued"
      /\ \A k \in Jobs \ {j} : status'[k] = status[k]
      /\ branch' \in [Jobs -> Branches \cup {NoBranch}] /\ branch'[j] = b
      /\ \A k \in Jobs \ {j} : branch'[k] = branch[k]
  BY <1>1 DEF Inv, Safe, TypeOK, Live
<1>3. order' \in Seq(Jobs) BY <1>1, AppendProperties DEF Inv, Safe, TypeOK
<1>4. attempts[j] = 0 BY <1>1 DEF Inv, Safe, RowsClean
<1>5. TypeOK'
  <2>1. \A k \in Jobs : status'[k] = "queued" => Claimable(k)'
    BY <1>2, <1>4, CanonicalAssumption, SMT DEF Inv, Safe, TypeOK, Claimable, Retryable
  <2> QED BY <1>2, <1>3, <2>1 DEF Inv, Safe, TypeOK
<1>6. RowsClean' BY <1>2 DEF Inv, Safe, RowsClean
<1>7. HeldRows' BY <1>2 DEF Inv, Safe, HeldRows
<1>8. CallRows' BY <1>2 DEF Inv, Safe, CallRows
<1>9. Wakes'
  <2>1. ASSUME NEW i \in Instances, NEW k \in Jobs, phase[i] \in {"empty", "parked"},
               status'[k] = "queued", wokenAt'[k] = i
        PROVE  gate'[i]
    <3>1. CASE k = j BY <2>1, <3>1, CanonicalAssumption
    <3>2. CASE k # j BY <1>2, <2>1, <3>2 DEF Inv, Safe, Wakes
    <3> QED BY <3>1, <3>2
  <2> QED BY <2>1 DEF Wakes
<1>10. ASSUME Prompt PROVE Exclusive' /\ OneJobPerBranch'
  <2>1. Exclusive'
    <3>1. \A i \in Instances : phase[i] \in Holding => held[i] # j
      BY <1>1, <1>10 DEF Inv, Exclusive
    <3> QED BY <1>2, <1>10, <3>1 DEF Inv, Safe, HeldRows, Exclusive
  <2>2. \A k \in Jobs : status[k] \in Live => branch[k] # b BY <1>1 DEF RowsOf
  <2>3. OneJobPerBranch' BY <1>2, <1>10, <2>2 DEF Inv, OneJobPerBranch
  <2> QED BY <2>1, <2>3
<1> QED BY <1>5, <1>6, <1>7, <1>8, <1>9, <1>10 DEF Inv, Safe

LEMMA InsertInv ==
  ASSUME Inv, NEW c \in Calls, NEW j \in Jobs, NEW t \in Roots, Insert(c, j, t)
  PROVE  Inv'
<1>1. <<NoJob, 0, t>> \in Branches BY CanonicalAssumption, SMT DEF Branches
<1>2. /\ InsertRow(j, <<NoJob, 0, t>>)
      /\ call' = [call EXCEPT ![c] = "committed"] /\ callJob' = [callJob EXCEPT ![c] = j]
      /\ UNCHANGED <<attempts, freshLeft, settledBy, wokenAt, gate, workerVars, restarts>>
  BY DEF Insert
<1>3. wokenAt[j] = Nowhere BY <1>2 DEF InsertRow, Inv, Safe, RowsClean
<1>4. /\ call' \in [Calls -> {"idle", "committed"}] /\ callJob' \in [Calls -> Jobs \cup {NoJob}]
      /\ callJob'[c] = j
      /\ \A d \in Calls \ {c} : call'[d] = call[d] /\ callJob'[d] = callJob[d]
  BY <1>2, CallTypes
<1> QED BY <1>1, <1>2, <1>3, <1>4, CallTypes, WorkerTypes, RowInserted

\* What a worker announces, or fails to, about a row it has queued.
LEMMA AnnouncedOrUnheard ==
  ASSUME Inv, NEW i \in Instances, NEW j \in Jobs, Announced(i, j) \/ Unheard(j)
  PROVE  /\ gate' \in [Instances -> BOOLEAN] /\ \A l \in Instances : gate[l] => gate'[l]
         /\ wokenAt' \in [Jobs -> Instances \cup {Nowhere}]
         /\ \A k \in Jobs \ {j} : wokenAt'[k] = wokenAt[k]
         /\ wokenAt'[j] = Nowhere \/ (wokenAt'[j] = i /\ gate'[i])
<1>1. CASE Announced(i, j) BY <1>1, WorkerTypes, CallTypes DEF Announced, Signal
<1>2. CASE Unheard(j) BY <1>2, WorkerTypes, CallTypes DEF Unheard
<1> QED BY <1>1, <1>2

\* The mint of a report becomes a child; the worker signals to itself.
LEMMA ScheduleChildInv ==
  ASSUME Inv, NEW i \in Instances, NEW j \in Jobs, NEW m \in Targets, ScheduleChild(i, j, m)
  PROVE  Inv'
<1> DEFINE parent == held[i]
<1>1. /\ phase[i] = "scheduling" /\ DepthOf(parent) < MaxDepth
      /\ InsertRow(j, ChildOf(i, m)) /\ (Announced(i, j) \/ Unheard(j))
      /\ UNCHANGED <<attempts, freshLeft, settledBy, workerVars, callVars, restarts>>
  BY DEF ScheduleChild, MayHaveChild
<1>2. parent \in Jobs /\ branch[parent] \in Branches
  BY <1>1 DEF Inv, Safe, HeldRows, RowsClean, Holding
<1>3. RootOf(parent) \in Jobs \cup {NoJob} /\ DepthOf(parent) \in 0 .. MaxDepth
  BY <1>2 DEF Branches, RootOf, DepthOf
<1>4. DepthOf(parent) + 1 \in 0 .. MaxDepth BY <1>1, <1>3, CanonicalAssumption, SMT
<1>5. ChildOf(i, m) \in Branches BY <1>3, <1>4 DEF Branches, ChildOf
<1>6. /\ gate' \in [Instances -> BOOLEAN] /\ \A l \in Instances : gate[l] => gate'[l]
      /\ wokenAt' \in [Jobs -> Instances \cup {Nowhere}]
      /\ \A k \in Jobs \ {j} : wokenAt'[k] = wokenAt[k]
      /\ wokenAt'[j] = Nowhere \/ gate'[wokenAt'[j]]
  BY <1>1, AnnouncedOrUnheard
<1>8. call' = call /\ callJob' = callJob BY <1>1 DEF callVars
<1> QED BY <1>1, <1>5, <1>6, <1>8, CallTypes, RowInserted

\* Calls begin and end, and announce rows, without changing what is in them.
LEMMA CallMoves ==
  ASSUME Inv, UNCHANGED <<status, branch, attempts, freshLeft, order, settledBy, workerVars, restarts>>,
         call' \in [Calls -> {"idle", "committed"}], callJob' \in [Calls -> Jobs \cup {NoJob}],
         \A c \in Calls : call'[c] = "committed" =>
           \/ callJob'[c] \in Jobs /\ status[callJob'[c]] # "absent"
           \/ call[c] = "committed" /\ callJob'[c] = callJob[c],
         gate' \in [Instances -> BOOLEAN], \A i \in Instances : gate[i] => gate'[i],
         wokenAt' \in [Jobs -> Instances \cup {Nowhere}],
         \A k \in Jobs : wokenAt'[k] # wokenAt[k] => status[k] # "absent" /\ gate'[wokenAt'[k]]
  PROVE  Inv'
<1> USE DEF workerVars
<1>1. TypeOK' BY DEF Inv, Safe, TypeOK, Claimable, Retryable
<1>2. RowsClean' BY DEF Inv, Safe, RowsClean
<1>3. HeldRows' /\ CallRows' BY DEF Inv, Safe, HeldRows, CallRows
<1>4. Wakes' BY DEF Inv, Safe, Wakes
<1>5. Prompt => Exclusive' /\ OneJobPerBranch' BY DEF Inv, Exclusive, OneJobPerBranch
<1> QED BY <1>1, <1>2, <1>3, <1>4, <1>5 DEF Inv, Safe

LEMMA FindExistingInv ==
  ASSUME Inv, NEW c \in Calls, NEW j \in Jobs, NEW t \in Roots, FindExisting(c, j, t)
  PROVE  Inv'
<1>1. /\ status[j] = "queued"
      /\ call' = [call EXCEPT ![c] = "committed"] /\ callJob' = [callJob EXCEPT ![c] = j]
      /\ UNCHANGED <<rowVars, gate, workerVars, restarts>>
  BY DEF FindExisting
<1>2. /\ call' \in [Calls -> {"idle", "committed"}] /\ callJob' \in [Calls -> Jobs \cup {NoJob}]
      /\ callJob'[c] = j
      /\ \A d \in Calls \ {c} : call'[d] = call[d] /\ callJob'[d] = callJob[d]
  BY <1>1, CallTypes
<1> QED BY <1>1, <1>2, CallTypes, WorkerTypes, CallMoves DEF rowVars

LEMMA FindChildInv ==
  ASSUME Inv, NEW i \in Instances, NEW j \in Jobs, NEW m \in Targets, FindChild(i, j, m)
  PROVE  Inv'
<1>1. /\ status[j] = "queued" /\ Announced(i, j)
      /\ UNCHANGED <<status, branch, attempts, freshLeft, order, settledBy, workerVars, callVars,
                     restarts>>
  BY DEF FindChild
<1>2. /\ gate' \in [Instances -> BOOLEAN] /\ \A l \in Instances : gate[l] => gate'[l]
      /\ wokenAt' \in [Jobs -> Instances \cup {Nowhere}]
      /\ \A k \in Jobs \ {j} : wokenAt'[k] = wokenAt[k]
  BY <1>1, AnnouncedOrUnheard
<1>3. wokenAt'[j] = i /\ gate'[i] BY <1>1, CallTypes, WorkerTypes DEF Announced, Signal
<1> QED BY <1>1, <1>2, <1>3, CallTypes, CallMoves DEF callVars

LEMMA CallEnds ==
  ASSUME Inv, NEW c \in Calls,
         call' = [call EXCEPT ![c] = "idle"], callJob' = [callJob EXCEPT ![c] = NoJob]
  PROVE  /\ call' \in [Calls -> {"idle", "committed"}] /\ callJob' \in [Calls -> Jobs \cup {NoJob}]
         /\ \A d \in Calls : call'[d] = "committed" => call[d] = "committed" /\ callJob'[d] = callJob[d]
BY CallTypes

LEMMA AnnounceInv == ASSUME Inv, NEW c \in Calls, Announce(c) PROVE Inv'
<1>1. /\ call[c] = "committed" /\ Signal(HostOf[c])
      /\ wokenAt' = [wokenAt EXCEPT ![callJob[c]] = HostOf[c]]
      /\ call' = [call EXCEPT ![c] = "idle"] /\ callJob' = [callJob EXCEPT ![c] = NoJob]
      /\ UNCHANGED <<status, branch, attempts, freshLeft, order, settledBy, workerVars, restarts>>
  BY DEF Announce
<1>2. HostOf[c] \in Instances BY CanonicalAssumption
<1>3. callJob[c] \in Jobs /\ status[callJob[c]] # "absent" BY <1>1 DEF Inv, Safe, CallRows
<1>4. /\ gate' \in [Instances -> BOOLEAN] /\ gate'[HostOf[c]]
      /\ \A i \in Instances : gate[i] => gate'[i]
  BY <1>1, <1>2, WorkerTypes DEF Signal
<1>5. /\ wokenAt' \in [Jobs -> Instances \cup {Nowhere}] /\ wokenAt'[callJob[c]] = HostOf[c]
      /\ \A k \in Jobs \ {callJob[c]} : wokenAt'[k] = wokenAt[k]
  BY <1>1, <1>2, <1>3, CallTypes
<1> QED BY <1>1, <1>3, <1>4, <1>5, CallEnds, CallMoves

LEMMA CommitReplyLostInv == ASSUME Inv, NEW c \in Calls, CommitReplyLost(c) PROVE Inv'
<1>1. /\ call' = [call EXCEPT ![c] = "idle"] /\ callJob' = [callJob EXCEPT ![c] = NoJob]
      /\ UNCHANGED <<rowVars, gate, workerVars, restarts>>
  BY DEF CommitReplyLost
<1> QED BY <1>1, CallEnds, CallTypes, WorkerTypes, CallMoves DEF rowVars

-----------------------------------------------------------------------------
(***************************************************************************)
(* The statements on existing rows.                                        *)
(***************************************************************************)
\* Rows that exist change their state, never to a state that counts unless they
\* were in one; the branches stay.
LEMMA RowsMove ==
  ASSUME Inv,
         UNCHANGED <<branch, order>>,
         status' \in [Jobs -> Live \cup Settled \cup {"absent"}],
         attempts' \in [Jobs -> 0 .. MaxAttempts], freshLeft' \in [Jobs -> 0 .. StaleAfter],
         settledBy' \in [Jobs -> Nat], wokenAt' \in [Jobs -> Instances \cup {Nowhere}],
         \A j \in Jobs :
           /\ status[j] = "absent" => /\ status'[j] = "absent" /\ attempts'[j] = attempts[j]
                                      /\ wokenAt'[j] = wokenAt[j]
           /\ status'[j] = "absent" => status[j] = "absent"
           /\ status'[j] = "queued" => attempts'[j] < MaxAttempts
           /\ Prompt /\ status'[j] \in Live => status[j] \in Live,
         gate' \in [Instances -> BOOLEAN], phase' \in [Instances -> Phases],
         held' \in [Instances -> Jobs \cup {NoJob}], attempt' \in [Instances -> Nat],
         restarts' \in 0 .. MaxRestarts,
         \A i \in Instances :
           phase'[i] \in Holding => held'[i] \in Jobs /\ status[held'[i]] # "absent",
         call' \in [Calls -> {"idle", "committed"}], callJob' \in [Calls -> Jobs \cup {NoJob}],
         \A c \in Calls :
           call'[c] = "committed" => call[c] = "committed" /\ callJob'[c] = callJob[c],
         Wakes', Prompt => Exclusive'
  PROVE  Inv'
<1>1. TypeOK' BY DEF Inv, Safe, TypeOK, Claimable, Retryable
<1>2. RowsClean' BY DEF Inv, Safe, RowsClean
<1>3. HeldRows' /\ CallRows' BY DEF Inv, Safe, HeldRows, CallRows
<1>4. Prompt => OneJobPerBranch' BY DEF Inv, OneJobPerBranch
<1> QED BY <1>1, <1>2, <1>3, <1>4 DEF Inv, Safe

LEMMA RowTypes ==
  ASSUME Inv
  PROVE  /\ status \in [Jobs -> Live \cup Settled \cup {"absent"}]
         /\ attempts \in [Jobs -> 0 .. MaxAttempts] /\ freshLeft \in [Jobs -> 0 .. StaleAfter]
         /\ settledBy \in [Jobs -> Nat] /\ restarts \in 0 .. MaxRestarts
         /\ \A j \in Jobs : status[j] = "queued" => attempts[j] < MaxAttempts
BY DEF Inv, Safe, TypeOK, Claimable, Retryable

LEMMA Others ==
  ASSUME Inv, NEW i \in Instances, NEW p \in Phases, GoTo(i, p)
  PROVE  /\ phase' \in [Instances -> Phases] /\ phase'[i] = p
         /\ \A l \in Instances \ {i} : phase'[l] = phase[l]
BY WorkerTypes DEF GoTo

\* The claim, whether or not its reply arrives.
LEMMA ClaimInv ==
  ASSUME Inv, NEW i \in Instances, NEW j \in Jobs, ClaimNext(i, j) \/ ClaimReplyLost(i, j)
  PROVE  Inv'
<1>1. /\ phase[i] = "claim" /\ status[j] = "queued" /\ attempts[j] < MaxAttempts
      /\ status' = [status EXCEPT ![j] = "running"]
      /\ attempts' = [attempts EXCEPT ![j] = @ + 1]
      /\ freshLeft' = [freshLeft EXCEPT ![j] = StaleAfter]
      /\ wokenAt' = [wokenAt EXCEPT ![j] = Nowhere]
      /\ UNCHANGED <<branch, order, settledBy, gate, call, callJob, restarts>>
  BY DEF ClaimNext, ClaimReplyLost, ClaimRow, Claimable, Retryable, callVars
<1>2. attempts[j] \in Nat /\ attempts[j] + 1 \in 0 .. MaxAttempts
  BY <1>1, RowTypes, CanonicalAssumption, SMT
<1>3. /\ status' \in [Jobs -> Live \cup Settled \cup {"absent"}] /\ status'[j] = "running"
      /\ attempts' \in [Jobs -> 0 .. MaxAttempts] /\ attempts'[j] = attempts[j] + 1
      /\ freshLeft' \in [Jobs -> 0 .. StaleAfter] /\ freshLeft'[j] = StaleAfter
      /\ wokenAt' \in [Jobs -> Instances \cup {Nowhere}]
      /\ \A k \in Jobs \ {j} : /\ status'[k] = status[k] /\ attempts'[k] = attempts[k]
                               /\ freshLeft'[k] = freshLeft[k] /\ wokenAt'[k] = wokenAt[k]
  <2>1. "running" \in Live BY DEF Live
  <2>2. StaleAfter \in 0 .. StaleAfter BY CanonicalAssumption, SMT
  <2> QED BY <1>1, <1>2, <2>1, <2>2, RowTypes, CallTypes
<1>4. /\ phase' \in [Instances -> Phases] /\ phase'[i] \notin {"empty", "parked"}
      /\ held' \in [Instances -> Jobs \cup {NoJob}] /\ attempt' \in [Instances -> Nat]
      /\ \A l \in Instances \ {i} : phase'[l] = phase[l] /\ held'[l] = held[l] /\ attempt'[l] = attempt[l]
      /\ phase'[i] \in Holding => held'[i] = j /\ attempt'[i] = attempts[j] + 1
  <2>1. CASE ClaimNext(i, j)
    <3>1. attempts[j] + 1 \in Nat BY <1>2
    <3>2. held' = [held EXCEPT ![i] = j] /\ attempt' = [attempt EXCEPT ![i] = attempts[j] + 1]
      BY <2>1 DEF ClaimNext
    <3>3. "processing" \in Phases /\ GoTo(i, "processing")
      BY <2>1 DEF ClaimNext, Phases, Holding
    <3> QED BY <3>1, <3>2, <3>3, Others, WorkerTypes
  <2>2. CASE ClaimReplyLost(i, j)
    <3>1. held' = held /\ attempt' = attempt BY <2>2 DEF ClaimReplyLost
    <3>2. "backoff" \in Phases /\ "backoff" \notin Holding /\ GoTo(i, "backoff")
      BY <2>2 DEF ClaimReplyLost, Phases, Parked, Holding
    <3> QED BY <3>1, <3>2, Others, WorkerTypes
  <2> QED BY <2>1, <2>2
<1>5. Wakes' BY <1>1, <1>3, <1>4 DEF Inv, Safe, Wakes
<1>6. ASSUME Prompt PROVE Exclusive'
  <2>1. \A l \in Instances : phase[l] \in Holding => held[l] \in Jobs \ {j}
    BY <1>1, <1>6 DEF Inv, Safe, HeldRows, Exclusive
  <2>2. StaleAfter > 0 BY CanonicalAssumption, SMT
  <2>3. \A l \in Instances : phase'[l] \in Holding =>
          /\ status'[held'[l]] = "running" /\ freshLeft'[held'[l]] > 0
          /\ attempt'[l] = attempts'[held'[l]]
    BY <1>3, <1>4, <1>6, <2>1, <2>2 DEF Inv, Exclusive
  <2>4. \A l, m \in Instances :
          phase'[l] \in Holding /\ phase'[m] \in Holding /\ held'[l] = held'[m] => l = m
    BY <1>4, <1>6, <2>1 DEF Inv, Exclusive
  <2> QED BY <2>3, <2>4 DEF Exclusive
<1>7. \A l \in Instances : phase'[l] \in Holding => held'[l] \in Jobs /\ status[held'[l]] # "absent"
  BY <1>1, <1>4 DEF Inv, Safe, HeldRows
<1>8. \A k \in Jobs :
        /\ status[k] = "absent" => /\ status'[k] = "absent" /\ attempts'[k] = attempts[k]
                                   /\ wokenAt'[k] = wokenAt[k]
        /\ status'[k] = "absent" => status[k] = "absent"
        /\ status'[k] = "queued" => attempts'[k] < MaxAttempts
        /\ Prompt /\ status'[k] \in Live => status[k] \in Live
  BY <1>1, <1>3, RowTypes DEF Live
<1> QED BY <1>1, <1>3, <1>4, <1>5, <1>6, <1>7, <1>8, CallTypes, RowTypes, WorkerTypes, RowsMove

\* The start of a process requeues what is stale.
LEMMA RequeueStaleInv == ASSUME Inv, NEW i \in Instances, RequeueStale(i) PROVE Inv'
<1>1. /\ status' = [j \in Jobs |-> IF ~Stale(j) THEN status[j]
                                   ELSE IF Retryable(j) THEN "queued" ELSE "failed"]
      /\ settledBy' = [j \in Jobs |-> IF Stale(j) /\ ~Retryable(j) THEN attempts[j]
                                      ELSE settledBy[j]]
      /\ wokenAt' = [j \in Jobs |-> IF Stale(j) THEN Nowhere ELSE wokenAt[j]]
      /\ GoTo(i, "drain")
      /\ UNCHANGED <<branch, attempts, freshLeft, order, gate, held, attempt, call, callJob, restarts>>
  BY DEF RequeueStale, callVars
<1>2. /\ status' \in [Jobs -> Live \cup Settled \cup {"absent"}]
      /\ wokenAt' \in [Jobs -> Instances \cup {Nowhere}]
      /\ \A j \in Jobs :
           \/ ~Stale(j) /\ status'[j] = status[j] /\ wokenAt'[j] = wokenAt[j]
           \/ /\ Stale(j) /\ status'[j] \in {"queued", "failed"} /\ wokenAt'[j] = Nowhere
              /\ status'[j] = "queued" => attempts[j] < MaxAttempts
  BY <1>1, RowTypes, CallTypes DEF Live, Settled, Retryable
<1>3. settledBy' \in [Jobs -> Nat]
  <2>1. \A j \in Jobs : attempts[j] \in Nat BY RowTypes, SMT
  <2> QED BY <1>1, <2>1, RowTypes
<1>4. /\ phase' \in [Instances -> Phases] /\ phase'[i] = "drain"
      /\ \A l \in Instances \ {i} : phase'[l] = phase[l]
  BY <1>1, Others DEF Phases
<1>5. "drain" \notin Holding BY DEF Holding
<1>6. Wakes' BY <1>1, <1>2, <1>4, CanonicalAssumption DEF Inv, Safe, Wakes
<1>7. ASSUME Prompt PROVE Exclusive'
  <2>1. \A l \in Instances : phase[l] \in Holding => held[l] \in Jobs /\ ~Stale(held[l])
    BY <1>7, RowTypes, SMT DEF Inv, Safe, HeldRows, Exclusive, Stale
  <2> QED BY <1>1, <1>2, <1>4, <1>5, <1>7, <2>1 DEF Inv, Exclusive
<1>8. \A l \in Instances : phase'[l] \in Holding => held'[l] \in Jobs /\ status[held'[l]] # "absent"
  BY <1>1, <1>4, <1>5 DEF Inv, Safe, HeldRows
<1>9. \A j \in Jobs :
        /\ status[j] = "absent" => /\ status'[j] = "absent" /\ attempts'[j] = attempts[j]
                                   /\ wokenAt'[j] = wokenAt[j]
        /\ status'[j] = "absent" => status[j] = "absent"
        /\ status'[j] = "queued" => attempts'[j] < MaxAttempts
        /\ Prompt /\ status'[j] \in Live => status[j] \in Live
  BY <1>1, <1>2, RowTypes DEF Stale, Live
<1> QED BY <1>1, <1>2, <1>3, <1>4, <1>6, <1>7, <1>8, <1>9, CallTypes, RowTypes, WorkerTypes, RowsMove

\* The clock of rows alone: a heartbeat, or time that passes.
LEMMA ClockMoves ==
  ASSUME Inv, freshLeft' \in [Jobs -> 0 .. StaleAfter],
         Prompt => \A i \in Instances : phase[i] \in Holding => freshLeft'[held[i]] > 0,
         UNCHANGED <<status, branch, attempts, order, settledBy, wokenAt, gate, workerVars,
                     callVars, restarts>>
  PROVE  Inv'
<1> USE DEF workerVars, callVars
<1>1. Wakes' BY DEF Inv, Safe, Wakes
<1>2. Prompt => Exclusive' BY DEF Inv, Exclusive
<1>3. \A i \in Instances : phase[i] \in Holding => held[i] \in Jobs /\ status[held[i]] # "absent"
  BY DEF Inv, Safe, HeldRows
<1> QED BY <1>1, <1>2, <1>3, CallTypes, RowTypes, WorkerTypes, RowsMove

LEMMA HeartbeatInv == ASSUME Inv, NEW i \in Instances, Heartbeat(i) PROVE Inv'
<1>1. /\ freshLeft' = [freshLeft EXCEPT ![held[i]] = StaleAfter]
      /\ phase[i] \in Holding
      /\ UNCHANGED <<status, branch, attempts, order, settledBy, wokenAt, gate, workerVars,
                     callVars, restarts>>
  BY DEF Heartbeat, Holding
<1>2. StaleAfter \in 0 .. StaleAfter /\ StaleAfter > 0 BY CanonicalAssumption, SMT
<1>3. \A l \in Instances : phase[l] \in Holding => held[l] \in Jobs
  BY DEF Inv, Safe, HeldRows
<1>4. /\ freshLeft' \in [Jobs -> 0 .. StaleAfter] /\ freshLeft'[held[i]] = StaleAfter
      /\ \A j \in Jobs \ {held[i]} : freshLeft'[j] = freshLeft[j]
  BY <1>1, <1>2, <1>3, RowTypes
<1>5. Prompt => \A l \in Instances : phase[l] \in Holding => freshLeft'[held[l]] > 0
  BY <1>2, <1>3, <1>4 DEF Inv, Exclusive
<1> QED BY <1>1, <1>4, <1>5, ClockMoves

LEMMA TickInv == ASSUME Inv, Tick PROVE Inv'
<1>1. /\ Prompt => \A i \in Instances : phase[i] \in Holding => freshLeft[held[i]] > 1
      /\ freshLeft' = [j \in Jobs |-> IF freshLeft[j] > 0 THEN freshLeft[j] - 1 ELSE 0]
      /\ UNCHANGED <<status, branch, attempts, order, settledBy, wokenAt, gate, workerVars,
                     callVars, restarts>>
  BY DEF Tick
<1>2. \A j \in Jobs : freshLeft[j] \in 0 .. StaleAfter BY RowTypes
<1>3. freshLeft' \in [Jobs -> 0 .. StaleAfter]
  <2>1. \A j \in Jobs : (IF freshLeft[j] > 0 THEN freshLeft[j] - 1 ELSE 0) \in 0 .. StaleAfter
    BY <1>2, CanonicalAssumption, SMT
  <2> QED BY <1>1, <2>1
<1>4. ASSUME Prompt, NEW i \in Instances, phase[i] \in Holding PROVE freshLeft'[held[i]] > 0
  <2>1. held[i] \in Jobs BY <1>4 DEF Inv, Safe, HeldRows
  <2>2. freshLeft[held[i]] > 1 BY <1>1, <1>4
  <2>3. freshLeft'[held[i]] = IF freshLeft[held[i]] > 0 THEN freshLeft[held[i]] - 1 ELSE 0
    BY <1>1, <2>1
  <2> QED BY <1>2, <2>1, <2>2, <2>3, SMT
<1> QED BY <1>1, <1>3, <1>4, ClockMoves

\* Complete: WHERE id=$1.
LEMMA CompleteInv == ASSUME Inv, NEW i \in Instances, Complete(i) PROVE Inv'
<1> DEFINE j == held[i]
<1>1. /\ phase[i] \in Holding
      /\ status' = [status EXCEPT ![j] = "completed"]
      /\ settledBy' = [settledBy EXCEPT ![j] = attempt[i]]
      /\ freshLeft' = [freshLeft EXCEPT ![j] = 0]
      /\ GoTo(i, "drain") /\ Letgo(i)
      /\ UNCHANGED <<branch, attempts, order, wokenAt, gate, call, callJob, restarts>>
  BY DEF Complete, Holding, callVars
<1>2. j \in Jobs /\ status[j] # "absent" BY <1>1 DEF Inv, Safe, HeldRows
<1> HIDE DEF j
<1>3. /\ status' \in [Jobs -> Live \cup Settled \cup {"absent"}] /\ status'[j] = "completed"
      /\ settledBy' \in [Jobs -> Nat] /\ freshLeft' \in [Jobs -> 0 .. StaleAfter]
      /\ \A k \in Jobs \ {j} : status'[k] = status[k] /\ freshLeft'[k] = freshLeft[k]
  <2>1. "completed" \in Live /\ 0 \in 0 .. StaleAfter BY CanonicalAssumption, SMT DEF Live
  <2> QED BY <1>1, <1>2, <2>1, RowTypes, WorkerTypes
<1>4. /\ phase' \in [Instances -> Phases] /\ phase'[i] = "drain"
      /\ \A l \in Instances \ {i} : phase'[l] = phase[l]
  BY <1>1, Others DEF Phases
<1>5. /\ held' \in [Instances -> Jobs \cup {NoJob}] /\ attempt' \in [Instances -> Nat]
      /\ \A l \in Instances \ {i} : held'[l] = held[l] /\ attempt'[l] = attempt[l]
  BY <1>1, LetgoTypes
<1>6. "drain" \notin Holding BY DEF Holding
<1>7. Wakes' BY <1>1, <1>3, <1>4 DEF Inv, Safe, Wakes
<1>8. ASSUME Prompt PROVE Exclusive'
  <2>1. \A l \in Instances \ {i} : phase[l] \in Holding => held[l] \in Jobs /\ held[l] # j
    BY <1>1, <1>8 DEF Inv, Safe, HeldRows, Exclusive, j
  <2> QED BY <1>1, <1>3, <1>4, <1>5, <1>6, <1>8, <2>1 DEF Inv, Exclusive
<1>9. \A l \in Instances : phase'[l] \in Holding => held'[l] \in Jobs /\ status[held'[l]] # "absent"
  BY <1>4, <1>5, <1>6 DEF Inv, Safe, HeldRows
<1>10. \A k \in Jobs :
         /\ status[k] = "absent" => /\ status'[k] = "absent" /\ attempts'[k] = attempts[k]
                                    /\ wokenAt'[k] = wokenAt[k]
         /\ status'[k] = "absent" => status[k] = "absent"
         /\ status'[k] = "queued" => attempts'[k] < MaxAttempts
         /\ Prompt /\ status'[k] \in Live => status[k] \in Live
  BY <1>1, <1>2, <1>3, RowTypes DEF Inv, Exclusive, Live, j
<1> QED
  BY <1>1, <1>3, <1>4, <1>5, <1>7, <1>8, <1>9, <1>10, CallTypes, RowTypes, WorkerTypes, RowsMove

\* RetryOrFail: WHERE id=$1, and the signal of a row that waits again.
LEMMA RetryOrFailInv == ASSUME Inv, NEW i \in Instances, RetryOrFail(i) PROVE Inv'
<1> DEFINE j == held[i]
<1>1. /\ phase[i] \in Holding
      /\ freshLeft' = [freshLeft EXCEPT ![j] = 0]
      /\ GoTo(i, "drain") /\ Letgo(i)
      /\ UNCHANGED <<branch, attempts, order, call, callJob, restarts>>
  BY DEF RetryOrFail, Holding, callVars
<1>2. \/ /\ Retryable(j) /\ status' = [status EXCEPT ![j] = "queued"]
         /\ Announced(i, j) \/ Unheard(j)
         /\ UNCHANGED settledBy
      \/ /\ status' = [status EXCEPT ![j] = "failed"]
         /\ settledBy' = [settledBy EXCEPT ![j] = attempt[i]] /\ UNCHANGED <<gate, wokenAt>>
  BY DEF RetryOrFail
<1>3. j \in Jobs /\ status[j] # "absent" BY <1>1 DEF Inv, Safe, HeldRows
<1> HIDE DEF j
<1>4. /\ status' \in [Jobs -> Live \cup Settled \cup {"absent"}]
      /\ \A k \in Jobs \ {j} : status'[k] = status[k]
      /\ \/ status'[j] = "queued" /\ attempts[j] < MaxAttempts
         \/ status'[j] = "failed"
  BY <1>2, <1>3, RowTypes DEF Live, Settled, Retryable
<1>5. settledBy' \in [Jobs -> Nat] BY <1>2, <1>3, RowTypes, WorkerTypes
<1>6. /\ gate' \in [Instances -> BOOLEAN] /\ \A l \in Instances : gate[l] => gate'[l]
      /\ wokenAt' \in [Jobs -> Instances \cup {Nowhere}]
      /\ \A k \in Jobs \ {j} : wokenAt'[k] = wokenAt[k]
      /\ status'[j] = "queued" => wokenAt'[j] = Nowhere \/ (wokenAt'[j] = i /\ gate'[i])
  <2>1. CASE Announced(i, j) \/ Unheard(j) BY <1>3, <2>1, AnnouncedOrUnheard
  <2>2. CASE status' = [status EXCEPT ![j] = "failed"] /\ UNCHANGED <<gate, wokenAt>>
    <3>1. status'[j] # "queued" BY <1>3, <2>2, RowTypes
    <3> QED BY <2>2, <3>1, WorkerTypes, CallTypes
  <2> QED BY <1>2, <2>1, <2>2
<1>7. /\ freshLeft' \in [Jobs -> 0 .. StaleAfter]
      /\ \A k \in Jobs \ {j} : freshLeft'[k] = freshLeft[k]
  <2>1. 0 \in 0 .. StaleAfter BY CanonicalAssumption, SMT
  <2> QED BY <1>1, <1>3, <2>1, RowTypes
<1>8. /\ phase' \in [Instances -> Phases] /\ phase'[i] = "drain"
      /\ \A l \in Instances \ {i} : phase'[l] = phase[l]
  BY <1>1, Others DEF Phases
<1>9. /\ held' \in [Instances -> Jobs \cup {NoJob}] /\ attempt' \in [Instances -> Nat]
      /\ \A l \in Instances \ {i} : held'[l] = held[l] /\ attempt'[l] = attempt[l]
  BY <1>1, LetgoTypes
<1>10. "drain" \notin Holding BY DEF Holding
<1>11. Wakes' BY <1>4, <1>6, <1>8, CanonicalAssumption DEF Inv, Safe, Wakes
<1>12. ASSUME Prompt PROVE Exclusive'
  <2>1. \A l \in Instances \ {i} : phase[l] \in Holding => held[l] \in Jobs /\ held[l] # j
    BY <1>1, <1>12 DEF Inv, Safe, HeldRows, Exclusive, j
  <2> QED BY <1>1, <1>4, <1>7, <1>8, <1>9, <1>10, <1>12, <2>1 DEF Inv, Exclusive
<1>13. \A l \in Instances : phase'[l] \in Holding => held'[l] \in Jobs /\ status[held'[l]] # "absent"
  BY <1>8, <1>9, <1>10 DEF Inv, Safe, HeldRows
<1>14. \A k \in Jobs :
         /\ status[k] = "absent" => /\ status'[k] = "absent" /\ attempts'[k] = attempts[k]
                                    /\ wokenAt'[k] = wokenAt[k]
         /\ status'[k] = "absent" => status[k] = "absent"
         /\ status'[k] = "queued" => attempts'[k] < MaxAttempts
         /\ Prompt /\ status'[k] \in Live => status[k] \in Live
  BY <1>1, <1>3, <1>4, <1>6, RowTypes DEF Inv, Exclusive, Live, j
<1> QED
  BY <1>1, <1>4, <1>5, <1>6, <1>7, <1>8, <1>9, <1>11, <1>12, <1>13, <1>14, CallTypes, RowTypes,
     RowsMove

\* A process dies with its gate, its job and its calls.
LEMMA RestartInv == ASSUME Inv, NEW i \in Instances, Restart(i) PROVE Inv'
<1>1. /\ GoTo(i, "boot") /\ Letgo(i) /\ Empty(i)
      /\ call' = [c \in Calls |-> IF HostOf[c] = i THEN "idle" ELSE call[c]]
      /\ callJob' = [c \in Calls |-> IF HostOf[c] = i THEN NoJob ELSE callJob[c]]
      /\ UNCHANGED <<status, branch, attempts, freshLeft, order, settledBy, wokenAt>>
  BY DEF Restart, rowVars
<1>2. restarts' \in 0 .. MaxRestarts
  BY RowTypes, CanonicalAssumption, SMT DEF Restart
<1>3. /\ phase' \in [Instances -> Phases] /\ phase'[i] = "boot"
      /\ \A l \in Instances \ {i} : phase'[l] = phase[l]
  BY <1>1, Others DEF Phases
<1>4. /\ held' \in [Instances -> Jobs \cup {NoJob}] /\ attempt' \in [Instances -> Nat]
      /\ \A l \in Instances \ {i} : held'[l] = held[l] /\ attempt'[l] = attempt[l]
  BY <1>1, LetgoTypes
<1>5. gate' \in [Instances -> BOOLEAN] /\ \A l \in Instances \ {i} : gate'[l] = gate[l]
  BY <1>1, WorkerTypes DEF Empty
<1>6. /\ call' \in [Calls -> {"idle", "committed"}] /\ callJob' \in [Calls -> Jobs \cup {NoJob}]
      /\ \A c \in Calls : call'[c] = "committed" => call[c] = "committed" /\ callJob'[c] = callJob[c]
  BY <1>1, CallTypes
<1>7. "boot" \notin Holding BY DEF Holding
<1>8. Wakes' BY <1>1, <1>3, <1>5 DEF Inv, Safe, Wakes
<1>9. Prompt => Exclusive' BY <1>1, <1>3, <1>4, <1>7 DEF Inv, Exclusive
<1>10. \A l \in Instances : phase'[l] \in Holding => held'[l] \in Jobs /\ status[held'[l]] # "absent"
  BY <1>3, <1>4, <1>7 DEF Inv, Safe, HeldRows
<1> QED
  BY <1>1, <1>2, <1>3, <1>4, <1>5, <1>6, <1>8, <1>9, <1>10, CallTypes, RowTypes, RowsMove

-----------------------------------------------------------------------------
\* Every step keeps the invariant.
LEMMA NextInv == Inv /\ [Next]_vars => Inv'
<1> SUFFICES ASSUME Inv, [Next]_vars PROVE Inv' OBVIOUS
<1>1. ASSUME NEW c \in Calls, CallStep(c) PROVE Inv'
  BY <1>1, InsertInv, FindExistingInv, AnnounceInv, CommitReplyLostInv DEF CallStep
<1>2. ASSUME NEW i \in Instances, Idle(i) \/ ClaimFails(i) PROVE Inv'
  BY <1>2, RequeueStaleInv, LoopInv DEF Idle
<1>3. ASSUME NEW i \in Instances, Process(i) PROVE Inv'
  BY <1>3, LoopInv, CompleteInv, RetryOrFailInv, SettleFailsInv DEF Process, Settle
<1>4. CASE UNCHANGED vars
  <2>1. UNCHANGED <<status, branch, attempts, freshLeft, order, settledBy, wokenAt, gate, workerVars,
                    callVars, restarts>>
    BY <1>4 DEF vars, rowVars
  <2> QED BY <2>1, CallTypes, WorkerTypes, CallMoves DEF callVars
<1> QED
  BY <1>1, <1>2, <1>3, <1>4, HeartbeatInv, RestartInv, ClaimInv, ScheduleChildInv,
     FindChildInv, TickInv DEF Next

\* The invariant holds in every behaviour.
THEOREM Invariance == Spec => []Inv
BY InitInv, NextInv, PTL DEF Spec

\* Every variable keeps its type; a job is attempted max_attempts times at most,
\* and a queued row is always one that ClaimNext may return.
THEOREM CanonicalTypeCorrect == Spec => []TypeOK
<1>1. Inv => TypeOK BY DEF Inv, Safe
<1> QED BY Invariance, <1>1, PTL

\* A worker that waits has a signal in its gate if its process announced a row
\* that is still queued: RequestProcessing after the commit, Drain before the
\* claim, and lost replies, restarts and slow processes between them.
THEOREM WakeUpsAreKept == Spec => []NoLostWakeup
<1>1. Inv => NoLostWakeup BY DEF Inv, Safe, Wakes, NoLostWakeup
<1> QED BY Invariance, <1>1, PTL

\* As long as live processes keep their jobs from going stale, a branch has one
\* job that is queued, running or completed (CreateUniqueActive).
THEOREM BranchesHaveOneJob ==
  ASSUME Prompt
  PROVE  Spec => []OneJobPerBranch
<1>1. Inv => OneJobPerBranch BY DEF Inv
<1> QED BY Invariance, <1>1, PTL

-----------------------------------------------------------------------------
(***************************************************************************)
(* Refinement.  The statements that settle a job ask for its identity      *)
(* only; that a prompt process alone holds its job, in its newest attempt, *)
(* is what makes them the abstract queue's.                                *)
(***************************************************************************)
LEMMA InitMapsToInit == Init => Fenced!Init
BY DEF Init, Fenced!Init

LEMMA InsertMapsToSubmit ==
  ASSUME Inv, NEW j \in Jobs, NEW b \in Branches, InsertRow(j, b), UNCHANGED <<attempts, settledBy>>
  PROVE  Fenced!Next
<1>1. /\ status[j] = "absent" /\ RowsOf(b) = {}
      /\ status' = [status EXCEPT ![j] = "queued"] /\ branch' = [branch EXCEPT ![j] = b]
  BY DEF InsertRow
<1>2. \A k \in Jobs : branch[k] = b => status[k] \notin Fenced!Unsettled
  BY <1>1 DEF RowsOf, Live, Fenced!Unsettled
<1> DEFINE limit == [k \in Jobs |-> IF status[k] = "absent" THEN 0 ELSE MaxAttempts]
<1>3. /\ limit'[j] \in Nat \ {0}
      /\ limit' = [limit EXCEPT ![j] = limit'[j]]
  <2>1. status'[j] = "queued" /\ \A k \in Jobs \ {j} : status'[k] = status[k]
    BY <1>1, RowTypes
  <2>2. limit' = [k \in Jobs |-> IF status'[k] = "absent" THEN 0 ELSE MaxAttempts] OBVIOUS
  <2>3. limit'[j] = MaxAttempts /\ \A k \in Jobs \ {j} : limit'[k] = limit[k] BY <2>1
  <2>4. limit' = [limit EXCEPT ![j] = limit'[j]]
    <3> HIDE DEF limit
    <3>1. DOMAIN limit = Jobs /\ limit = [k \in Jobs |-> limit[k]] BY DEF limit
    <3>2. limit' = [k \in Jobs |-> limit'[k]] BY <2>2
    <3> QED BY <2>3, <3>1, <3>2
  <2> QED BY <2>3, <2>4, CanonicalAssumption
<1>4. Fenced!Submit(j, b) BY <1>1, <1>2, <1>3 DEF Fenced!Submit
<1> QED BY <1>4 DEF Fenced!Next

\* A row that exists has its limit, before and after.
LEMMA LimitStays ==
  ASSUME Inv, \A k \in Jobs : status'[k] = "absent" <=> status[k] = "absent"
  PROVE  [k \in Jobs |-> IF status'[k] = "absent" THEN 0 ELSE MaxAttempts]
           = [k \in Jobs |-> IF status[k] = "absent" THEN 0 ELSE MaxAttempts]
OBVIOUS

LEMMA ClaimMapsToGrant ==
  ASSUME Inv, NEW i \in Instances, NEW j \in Jobs, ClaimRow(i, j)
  PROVE  Fenced!Next
<1>1. /\ status[j] = "queued" /\ attempts[j] < MaxAttempts
      /\ status' = [status EXCEPT ![j] = "running"] /\ attempts' = [attempts EXCEPT ![j] = @ + 1]
      /\ UNCHANGED <<branch, settledBy>>
  BY DEF ClaimRow, Claimable, Retryable
<1>2. \A k \in Jobs : status'[k] = "absent" <=> status[k] = "absent" BY <1>1, RowTypes
<1>3. Fenced!Grant(j)
  BY <1>1, <1>2, LimitStays DEF Fenced!Grant, Fenced!Unsettled
<1> QED BY <1>3 DEF Fenced!Next

LEMMA RequeueMapsToRecover ==
  ASSUME Inv, NEW i \in Instances, RequeueStale(i)
  PROVE  Fenced!Next
<1> DEFINE S == {j \in Jobs : Stale(j)}
<1>1. /\ status' = [j \in Jobs |-> IF ~Stale(j) THEN status[j]
                                   ELSE IF Retryable(j) THEN "queued" ELSE "failed"]
      /\ settledBy' = [j \in Jobs |-> IF Stale(j) /\ ~Retryable(j) THEN attempts[j]
                                      ELSE settledBy[j]]
      /\ UNCHANGED <<branch, attempts>>
  BY DEF RequeueStale
<1>2. \A j \in S : status[j] = "running" /\ (Fenced!Exhausted(j) <=> ~Retryable(j))
  <2>1. ASSUME NEW j \in S PROVE Fenced!Exhausted(j) <=> ~Retryable(j)
    <3>1. status[j] # "absent" /\ attempts[j] \in 0 .. MaxAttempts BY RowTypes DEF Stale
    <3>2. Fenced!Exhausted(j) <=> attempts[j] = MaxAttempts BY <3>1 DEF Fenced!Exhausted
    <3> QED BY <3>1, <3>2, CanonicalAssumption, SMT DEF Retryable
  <2> QED BY <2>1 DEF Stale
<1>3. \A k \in Jobs : status'[k] = "absent" <=> status[k] = "absent" BY <1>1 DEF Stale
<1>4. status' = [j \in Jobs |-> IF j \notin S THEN status[j]
                                ELSE IF Fenced!Exhausted(j) THEN "failed" ELSE "queued"]
  BY <1>1, <1>2
<1>5. settledBy' = [j \in Jobs |-> IF j \in S /\ Fenced!Exhausted(j) THEN attempts[j] ELSE settledBy[j]]
  BY <1>1, <1>2
<1>6. Fenced!Recover(S) BY <1>1, <1>2, <1>3, <1>4, <1>5, LimitStays DEF Fenced!Recover
<1> QED BY <1>6 DEF Fenced!Next

LEMMA SettleMapsToSettle ==
  ASSUME Inv, Exclusive, NEW i \in Instances, Complete(i) \/ RetryOrFail(i)
  PROVE  Fenced!Next
<1> DEFINE j == held[i]
<1>1. /\ j \in Jobs /\ status[j] = "running" /\ attempt[i] = attempts[j]
      /\ attempts[j] \in 0 .. MaxAttempts /\ UNCHANGED <<branch, attempts>>
  BY RowTypes DEF Complete, RetryOrFail, Holding, Inv, Safe, HeldRows, Exclusive
<1>2. ASSUME NEW outcome \in {"completed", "failed"},
             status' = [status EXCEPT ![j] = outcome],
             settledBy' = [settledBy EXCEPT ![j] = attempt[i]]
      PROVE  Fenced!Next
  <2>1. \A k \in Jobs : status'[k] = "absent" <=> status[k] = "absent" BY <1>1, <1>2, RowTypes
  <2>2. Fenced!Settle(j, outcome) BY <1>1, <1>2, <2>1, LimitStays DEF Fenced!Settle
  <2> QED BY <1>1, <2>2 DEF Fenced!Next, Fenced!Settled
<1>3. ASSUME Retryable(j), status' = [status EXCEPT ![j] = "queued"], UNCHANGED settledBy
      PROVE  Fenced!Next
  <2>1. \A k \in Jobs : status'[k] = "absent" <=> status[k] = "absent" BY <1>1, <1>3, RowTypes
  <2>2. ~Fenced!Exhausted(j)
    BY <1>1, <1>3, CanonicalAssumption, SMT DEF Fenced!Exhausted, Retryable
  <2>3. status' = [k \in Jobs |-> IF k \notin {j} THEN status[k]
                                  ELSE IF Fenced!Exhausted(k) THEN "failed" ELSE "queued"]
    BY <1>1, <1>3, <2>2, RowTypes
  <2>4. settledBy' = [k \in Jobs |-> IF k \in {j} /\ Fenced!Exhausted(k) THEN attempts[k]
                                     ELSE settledBy[k]]
    BY <1>3, <2>2, RowTypes
  <2>5. Fenced!Recover({j}) BY <1>1, <2>1, <2>3, <2>4, LimitStays DEF Fenced!Recover
  <2> QED BY <1>1, <2>5 DEF Fenced!Next
<1> QED BY <1>2, <1>3 DEF Complete, RetryOrFail

\* Every step of the table is a step of the abstract queue or a stutter.
LEMMA StepMapsToStep ==
  ASSUME Prompt, Inv, [Next]_vars
  PROVE  [Fenced!Next]_(Fenced!vars)
<1>a. ASSUME UNCHANGED <<status, branch, attempts, settledBy>> PROVE UNCHANGED Fenced!vars
  BY <1>a DEF Fenced!vars
<1>1. ASSUME NEW c \in Calls, CallStep(c) PROVE [Fenced!Next]_(Fenced!vars)
  <2>1. ASSUME NEW j \in Jobs, NEW t \in Roots, Insert(c, j, t) PROVE Fenced!Next
    <3>1. <<NoJob, 0, t>> \in Branches BY CanonicalAssumption, SMT DEF Branches
    <3> QED BY <2>1, <3>1, InsertMapsToSubmit DEF Insert
  <2> QED BY <1>1, <1>a, <2>1 DEF CallStep, FindExisting, Announce, CommitReplyLost, rowVars
<1>2. ASSUME NEW i \in Instances, NEW j \in Jobs, NEW m \in Targets, ScheduleChild(i, j, m)
      PROVE  Fenced!Next
  <2>1. phase[i] \in Holding BY <1>2 DEF ScheduleChild, MayHaveChild, Holding
  <2>2. branch[held[i]] \in Branches BY <2>1 DEF Inv, Safe, HeldRows, RowsClean
  <2>3. held[i] \in Jobs BY <2>1 DEF Inv, Safe, HeldRows
  <2>4. RootOf(held[i]) \in Jobs \cup {NoJob} /\ DepthOf(held[i]) \in 0 .. MaxDepth
    BY <2>2, <2>3 DEF Branches, RootOf, DepthOf
  <2>5. DepthOf(held[i]) + 1 \in 0 .. MaxDepth
    BY <1>2, <2>4, CanonicalAssumption, SMT DEF ScheduleChild, MayHaveChild
  <2>6. ChildOf(i, m) \in Branches BY <2>4, <2>5 DEF Branches, ChildOf
  <2> QED BY <1>2, <2>6, InsertMapsToSubmit DEF ScheduleChild
<1>3. ASSUME NEW i \in Instances, NEW j \in Jobs, ClaimNext(i, j) \/ ClaimReplyLost(i, j)
      PROVE  Fenced!Next
  BY <1>3, ClaimMapsToGrant DEF ClaimNext, ClaimReplyLost
<1>4. ASSUME NEW i \in Instances, Complete(i) \/ RetryOrFail(i) PROVE Fenced!Next
  BY <1>4, SettleMapsToSettle DEF Inv
<1>5. ASSUME NEW i \in Instances,
             \/ RequeueFails(i) \/ Drain(i) \/ FindNothing(i) \/ Park(i) \/ ClaimFails(i)
             \/ WakeBySignal(i) \/ WakeByTimer(i) \/ ReportBuilt(i) \/ ProcessFails(i)
             \/ ScheduleEnds(i) \/ SettleFails(i) \/ Heartbeat(i) \/ Restart(i)
      PROVE  UNCHANGED Fenced!vars
  BY <1>5, <1>a DEF RequeueFails, Drain, FindNothing, Park, ClaimFails, WakeBySignal, WakeByTimer,
     ReportBuilt, ProcessFails, ScheduleEnds, SettleFails, Heartbeat, Restart, rowVars
<1>6. ASSUME NEW i \in Instances, NEW j \in Jobs, NEW m \in Targets, FindChild(i, j, m)
      PROVE  UNCHANGED Fenced!vars
  BY <1>6, <1>a DEF FindChild
<1>7. CASE Tick \/ UNCHANGED vars BY <1>7, <1>a DEF Tick, vars, rowVars
<1> QED
  BY <1>1, <1>2, <1>3, <1>4, <1>5, <1>6, <1>7, RequeueMapsToRecover DEF Next, Idle, Process, Settle

\* The table of canonical jobs implements the fenced job queue: no two unsettled
\* jobs answer one request, the newest attempt settles, and what is settled
\* stays, although Complete and RetryOrFail check neither status nor attempt.
THEOREM CanonicalQueueIsFenced ==
  ASSUME Prompt
  PROVE  Spec => ImplementsFencedJobs
<1>1. Init => Fenced!Init BY InitMapsToInit
<1>2. Inv /\ [Next]_vars => [Fenced!Next]_(Fenced!vars) BY StepMapsToStep
<1> QED BY <1>1, <1>2, Invariance, PTL DEF Spec, ImplementsFencedJobs, Fenced!Spec

-----------------------------------------------------------------------------
Promised ==
  INSTANCE FencedJobsProofs
    WITH Requests <- Branches, NoRequest <- NoBranch, Recovers <- TRUE,
         state <- status, request <- branch, token <- attempts,
         limit <- [j \in Jobs |-> IF status[j] = "absent" THEN 0 ELSE MaxAttempts]

\* What the refinement gives the clients of the table: one unsettled job for a
\* branch, settled by its newest attempt, and for good (Complete, RetryOrFail).
THEOREM CanonicalPromises ==
  ASSUME Prompt
  PROVE  Spec => /\ [](Promised!OneUnsettledPerRequest /\ Promised!NewestSettles)
                 /\ Promised!SettledStays
<1>1. Init => Promised!Init BY InitMapsToInit DEF Fenced!Init, Promised!Init
<1>2. [Fenced!Next]_(Fenced!vars) => [Promised!Next]_(Promised!vars)
  BY DEF Fenced!Next, Fenced!vars, Promised!Next, Promised!vars, Fenced!Submit, Promised!Submit,
     Fenced!Grant, Promised!Grant, Fenced!Settle, Promised!Settle, Fenced!Recover, Promised!Recover,
     Fenced!Exhausted, Promised!Exhausted, Fenced!Settled, Promised!Settled, Fenced!Unsettled,
     Promised!Unsettled
<1>3. Inv /\ [Next]_vars => [Promised!Next]_(Promised!vars) BY <1>2, StepMapsToStep
<1>4. Spec => Promised!Spec BY <1>1, <1>3, Invariance, PTL DEF Spec, Promised!Spec
<1> QED BY <1>4, Promised!RequestsAndGrants, Promised!SettledForGood, PTL
=============================================================================
