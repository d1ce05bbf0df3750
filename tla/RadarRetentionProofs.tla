------------------------ MODULE RadarRetentionProofs ------------------------
(***************************************************************************)
(* Theorems about RadarRetention, for any number of events, retention      *)
(* workers and analysts: nothing an archive statement deletes is lost, and *)
(* a processing row never says completed without a final verdict.          *)
(***************************************************************************)
EXTENDS RadarRetention, TLAPS

-----------------------------------------------------------------------------
(***************************************************************************)
(* The inductive invariant.                                                *)
(***************************************************************************)
JobType == [doing : {"idle", "analysing"} \cup Outcomes, event : Events \cup {NoEvent}]
Rows == SourceRow \cup {NoRow}
Copies == ArchiveRow \cup {NoRow}

\* The identity of a verdict in the archive is one of Key.
Numbered == \A v \in Events : Present("verdict", v) => src["verdict"][v].body.made \in 1 .. MaxMade

\* A worker has rows in hand in the phases that archive, a batch in those that
\* export.
Phased ==
  \A k \in Keepers : /\ seen[k] # {} => at[k] \in Tables
                     /\ batch[k] # {} => at[k] \in {"before", "after"}

\* The advisory lock.
OneExporter == \A k, l \in Keepers : batch[k] # {} /\ batch[l] # {} => k = l

\* The rows of a batch are still waiting in the archive, and the sink has them
\* unless the object went bad.
BatchSunk ==
  \A k \in Keepers : \A p \in batch[k] :
    /\ archive[p] # NoRow /\ archive[p].export = "pending"
    /\ intact[k] => Entry(p) \in sink

Keeping == Phased /\ OneExporter /\ BatchSunk /\ ExportedIsSunk /\ NothingLost

\* The final verdict of an event is in the table or was taken by retention.
HasVerdict(v) == Present("verdict", v) \/ \E r \in removed : r[1][1] = "verdict" /\ r[1][2] = v

\* An analyst about to mark a row completed has seen the verdict.
JobsHaveVerdict ==
  \A a \in Analysts :
    job[a].doing # "idle" =>
      /\ job[a].event \in Events
      /\ job[a].doing = "completed" => HasVerdict(job[a].event)

Inv ==
  TypeOK /\ Numbered /\ Keeping /\ JobsHaveVerdict /\ CompletedHasVerdict

LEMMA InitInv == Init => Inv
<1> SUFFICES ASSUME Init PROVE Inv OBVIOUS
<1>1. TypeOK
  BY RetentionAssumption, SMT DEF Init, TypeOK, Idle, Present, Phases, Tables
<1>2. Numbered /\ JobsHaveVerdict /\ CompletedHasVerdict
  BY SMT DEF Init, Numbered, JobsHaveVerdict, CompletedHasVerdict, Present, Idle, Tables
<1>3. Phased /\ OneExporter /\ BatchSunk BY DEF Init, Phased, OneExporter, BatchSunk
<1>4. ExportedIsSunk /\ NothingLost BY DEF Init, ExportedIsSunk, NothingLost
<1> QED BY <1>1, <1>2, <1>3, <1>4 DEF Inv, Keeping

-----------------------------------------------------------------------------
(***************************************************************************)
(* The verdict workers and the stream write rows and jobs.                 *)
(***************************************************************************)
\* They touch nothing of retention's.
LEMMA KeepersKept ==
  ASSUME Keeping, UNCHANGED <<archive, sink, keeperVars, historyVars>>
  PROVE  Keeping'
<1> USE DEF keeperVars, historyVars
<1>1. Phased' /\ OneExporter' BY DEF Keeping, Phased, OneExporter
<1>2. BatchSunk' /\ ExportedIsSunk' BY DEF Keeping, BatchSunk, ExportedIsSunk, Entry
<1>3. NothingLost' BY DEF Keeping, NothingLost, Archived
<1> QED BY <1>1, <1>2, <1>3 DEF Keeping

\* One row is written.
LEMMA PutRow ==
  ASSUME TypeOK, NEW t \in Tables, NEW v \in Events, NEW r \in SourceRow, Put(t, v, r)
  PROVE  /\ src' \in [Tables -> [Events -> Rows]]
         /\ src'[t][v] = r
         /\ \A u \in Tables, w \in Events : u # t \/ w # v => src'[u][w] = src[u][w]
BY DEF TypeOK, Put, Rows

\* What retention has taken it keeps.
LEMMA VerdictsStay ==
  ASSUME TypeOK, NEW t \in Tables, NEW v \in Events, NEW r \in SourceRow, Put(t, v, r),
         removed' = removed
  PROVE  /\ \A w \in Events : HasVerdict(w) => HasVerdict(w)'
         /\ t = "verdict" => HasVerdict(v)'
<1>1. r # NoRow BY NoRowAssumption
<1>2. "verdict" \in Tables BY DEF Tables
<1>3. ASSUME NEW w \in Events, Present("verdict", w) PROVE Present("verdict", w)'
  BY <1>1, <1>2, <1>3, PutRow DEF Present
<1>4. t = "verdict" => Present("verdict", v)' BY <1>1, PutRow DEF Present
<1> QED BY <1>3, <1>4 DEF HasVerdict

\* A row is written as it may be, and a job moves as it may.
LEMMA RowWritten ==
  ASSUME Inv, NEW t \in Tables, NEW v \in Events, NEW r \in SourceRow, Put(t, v, r),
         t = "verdict" => r.body.made \in 1 .. MaxMade,
         t = "proc" => /\ StatusOK(r.body)
                       /\ r.body.status = "completed" => HasVerdict(v),
         made' \in [Tables -> [Events -> 0 .. MaxMade]],
         job' \in [Analysts -> JobType],
         \A a \in Analysts :
           job'[a].doing # "idle" =>
             /\ job'[a].event \in Events
             /\ job'[a].doing = "completed" =>
                  HasVerdict(job'[a].event) \/ (t = "verdict" /\ job'[a].event = v),
         UNCHANGED <<archive, sink, keeperVars, historyVars>>
  PROVE  Inv'
<1> USE DEF keeperVars, historyVars
<1>0. TypeOK /\ removed' = removed BY DEF Inv
<1>1. /\ src' \in [Tables -> [Events -> Rows]]
      /\ src'[t][v] = r
      /\ \A u \in Tables, w \in Events : u # t \/ w # v => src'[u][w] = src[u][w]
  BY <1>0, PutRow
<1>2. /\ \A w \in Events : HasVerdict(w) => HasVerdict(w)'
      /\ t = "verdict" => HasVerdict(v)'
  BY <1>0, VerdictsStay
<1>3. "verdict" \in Tables /\ "proc" \in Tables BY DEF Tables
<1>4. TypeOK'
  <2>1. \A w \in Events : Present("proc", w)' => StatusOK(src'["proc"][w].body)
    BY <1>0, <1>1, <1>3 DEF TypeOK, Present
  <2> QED BY <1>0, <1>1, <2>1 DEF TypeOK, Rows, JobType
<1>5. Numbered' BY <1>1, <1>3 DEF Inv, Numbered, Present
<1>6. Keeping' BY KeepersKept DEF Inv
<1>7. JobsHaveVerdict' BY <1>2 DEF JobsHaveVerdict
<1>8. CompletedHasVerdict'
  <2>1. \A w \in Events : Present("proc", w)' /\ src'["proc"][w].body.status = "completed" => HasVerdict(w)
    BY <1>1, <1>3 DEF Inv, CompletedHasVerdict, HasVerdict, Present
  <2> QED BY <2>1, <1>2 DEF CompletedHasVerdict, HasVerdict
<1> QED BY <1>4, <1>5, <1>6, <1>7, <1>8 DEF Inv

\* Only a job moves.
LEMMA JobMoves ==
  ASSUME Inv, job' \in [Analysts -> JobType],
         \A a \in Analysts :
           job'[a].doing # "idle" =>
             /\ job'[a].event \in Events
             /\ job'[a].doing = "completed" => HasVerdict(job'[a].event),
         UNCHANGED <<src, made, archive, sink, keeperVars, historyVars>>
  PROVE  Inv'
<1> USE DEF keeperVars, historyVars
<1>1. TypeOK' BY DEF Inv, TypeOK, Present, JobType
<1>2. Numbered' /\ CompletedHasVerdict' BY DEF Inv, Numbered, CompletedHasVerdict, Present
<1>3. Keeping' BY KeepersKept DEF Inv
<1>4. JobsHaveVerdict' BY DEF JobsHaveVerdict, HasVerdict, Present
<1> QED BY <1>1, <1>2, <1>3, <1>4 DEF Inv

\* The step of a job that goes on, and of one that ends.
LEMMA JobRow ==
  ASSUME TypeOK, NEW a \in Analysts, NEW to \in {"analysing"} \cup Outcomes,
         job' = [job EXCEPT ![a].doing = to]
  PROVE  /\ job' \in [Analysts -> JobType]
         /\ job'[a].doing = to /\ job'[a].event = job[a].event
         /\ \A b \in Analysts \ {a} : job'[b] = job[b]
BY DEF TypeOK, JobType

LEMMA JobEnds ==
  ASSUME TypeOK, NEW a \in Analysts, job' = [job EXCEPT ![a] = Idle]
  PROVE  /\ job' \in [Analysts -> JobType]
         /\ job'[a].doing = "idle"
         /\ \A b \in Analysts \ {a} : job'[b] = job[b]
BY DEF TypeOK, JobType, Idle

\* What a row holds, and a row written over one that is there.
LEMMA RowThere ==
  ASSUME TypeOK, NEW t \in Tables, NEW v \in Events, Present(t, v)
  PROVE  src[t][v] \in SourceRow
BY DEF TypeOK, Present

LEMMA RowOf ==
  ASSUME NEW r \in SourceRow, NEW s \in Statuses
  PROVE  /\ [r EXCEPT !.body.status = s] \in SourceRow
         /\ [r EXCEPT !.body.status = s].body.status = s
         /\ [r EXCEPT !.body.status = s].body.attempts = r.body.attempts
<1>1. r.body \in Body BY DEF SourceRow
<1>2. /\ [r.body EXCEPT !.status = s] \in Body
      /\ [r.body EXCEPT !.status = s].status = s
      /\ [r.body EXCEPT !.status = s].attempts = r.body.attempts
  BY <1>1 DEF Body
<1>3. [r EXCEPT !.body.status = s] = [r EXCEPT !.body = [r.body EXCEPT !.status = s]]
  OBVIOUS
<1>4. \A b \in Body : [r EXCEPT !.body = b] \in SourceRow /\ [r EXCEPT !.body = b].body = b
  BY DEF SourceRow
<1> QED BY <1>2, <1>3, <1>4

LEMMA RowAges ==
  ASSUME NEW r \in SourceRow
  PROVE  [r EXCEPT !.old = TRUE] \in SourceRow /\ [r EXCEPT !.old = TRUE].body = r.body
BY DEF SourceRow

LEMMA FreshRow ==
  ASSUME NEW b \in Body
  PROVE  Fresh(b) \in SourceRow /\ Fresh(b).body = b
BY DEF Fresh, SourceRow

LEMMA JobsStand ==
  ASSUME Inv
  PROVE  /\ job \in [Analysts -> JobType]
         /\ made \in [Tables -> [Events -> 0 .. MaxMade]]
         /\ \A a \in Analysts :
              job[a].doing # "idle" =>
                /\ job[a].event \in Events
                /\ job[a].doing = "completed" => HasVerdict(job[a].event)
BY DEF Inv, TypeOK, JobType, JobsHaveVerdict

LEMMA IngestInv == ASSUME Inv, NEW v \in Events, Ingest(v) PROVE Inv'
<1>1. Fresh(Stored(1)) \in SourceRow
  BY FreshRow, SMT DEF Stored, Body, Statuses
<1>2. /\ Put("event", v, Fresh(Stored(1))) /\ made' = [made EXCEPT !["event"][v] = 1]
      /\ UNCHANGED <<archive, sink, keeperVars, job, historyVars>>
  BY DEF Ingest
<1>3. made' \in [Tables -> [Events -> 0 .. MaxMade]]
  BY <1>2, JobsStand, RetentionAssumption, SMT DEF Tables
<1> QED BY <1>1, <1>2, <1>3, JobsStand, RowWritten, SMT DEF Tables

\* A row passes the window: its body stays.
LEMMA AgeInv == ASSUME Inv, NEW t \in Tables, NEW v \in Events, Age(t, v) PROVE Inv'
<1> DEFINE r == [src[t][v] EXCEPT !.old = TRUE]
<1>0. TypeOK BY DEF Inv
<1>1. src[t][v] \in SourceRow BY <1>0, RowThere DEF Age
<1>2. r \in SourceRow /\ r.body = src[t][v].body BY <1>1, RowAges
<1>3. Put(t, v, r) BY <1>0, <1>1, Zenon DEF Age, Put, TypeOK
<1>4. /\ Present(t, v) /\ made' = made /\ job' = job
      /\ UNCHANGED <<archive, sink, keeperVars, historyVars>>
  BY DEF Age
<1> HIDE DEF r
<1>5. t = "verdict" => r.body.made \in 1 .. MaxMade BY <1>2, <1>4 DEF Inv, Numbered
<1>6. t = "proc" => /\ StatusOK(r.body)
                    /\ r.body.status = "completed" => HasVerdict(v)
  BY <1>0, <1>2, <1>4 DEF Inv, TypeOK, CompletedHasVerdict, HasVerdict
<1> QED BY <1>2, <1>3, <1>4, <1>5, <1>6, JobsStand, RowWritten

\* A status is written to a processing row, which the trigger may change, and a
\* job moves as it may.
LEMMA StatusSet ==
  ASSUME Inv, NEW v \in Events, NEW s \in Statuses, Present("proc", v), SetStatus(v, s),
         s = "completed" => HasVerdict(v),
         s = "exhausted" => src["proc"][v].body.attempts >= RetryLimit,
         job' \in [Analysts -> JobType],
         \A a \in Analysts :
           job'[a].doing # "idle" =>
             /\ job'[a].event \in Events
             /\ job'[a].doing = "completed" => HasVerdict(job'[a].event),
         UNCHANGED <<made, archive, sink, keeperVars, historyVars>>
  PROVE  Inv'
<1> DEFINE n == src["proc"][v].body.attempts
           written == Normalized(s, n)
           r == [src["proc"][v] EXCEPT !.body.status = written]
<1>0. TypeOK /\ "proc" \in Tables BY DEF Inv, Tables
<1>1. src["proc"][v] \in SourceRow /\ n \in 1 .. ExhaustLimit
  BY <1>0, RowThere DEF TypeOK, StatusOK
<1>2. /\ written \in Statuses
      /\ written = "completed" => HasVerdict(v)
      /\ written = "failed" => n < RetryLimit
      /\ written = "exhausted" => n >= RetryLimit
  BY <1>1, RetentionAssumption, SMT DEF Normalized, Statuses, Settled
<1>3. src' = [src EXCEPT !["proc"][v].body.status = written] BY DEF SetStatus
<1> HIDE DEF written
<1>4. r \in SourceRow /\ r.body.status = written /\ r.body.attempts = n
  BY <1>1, <1>2, RowOf
<1>5. Put("proc", v, r) BY <1>0, <1>3 DEF Put, TypeOK
<1> HIDE DEF r, n
<1>6. StatusOK(r.body) BY <1>1, <1>2, <1>4 DEF StatusOK
<1> QED BY <1>0, <1>2, <1>4, <1>5, <1>6, JobsStand, RowWritten

LEMMA RecoverStaleInv == ASSUME Inv, NEW v \in Events, RecoverStale(v) PROVE Inv'
<1>1. /\ Present("proc", v) /\ SetStatus(v, Recovered(v))
      /\ job' = job /\ UNCHANGED <<made, archive, sink, keeperVars, historyVars>>
  BY DEF RecoverStale
<1>2. /\ Recovered(v) \in Statuses
      /\ Recovered(v) = "completed" => HasVerdict(v)
      /\ Recovered(v) = "exhausted" => src["proc"][v].body.attempts >= RetryLimit
  BY SMT DEF Recovered, Statuses, Settled, HasVerdict
<1> QED BY <1>1, <1>2, JobsStand, StatusSet

\* A late mark says what its analyst has seen, not what the row has become.
LEMMA MarkInv == ASSUME Inv, NEW a \in Analysts, Mark(a) PROVE Inv'
<1> DEFINE v == job[a].event
<1>0. TypeOK BY DEF Inv
<1>1. /\ job[a].doing \in Outcomes /\ job' = [job EXCEPT ![a] = Idle]
      /\ UNCHANGED <<made, archive, sink, keeperVars, historyVars>>
  BY DEF Mark
<1>2. /\ job[a].doing \in Statuses /\ job[a].doing # "idle" /\ job[a].doing # "exhausted"
  BY <1>1, SMT DEF Outcomes, Statuses, Settled
<1>3. v \in Events /\ (job[a].doing = "completed" => HasVerdict(v)) BY <1>2, JobsStand
<1>4. /\ job' \in [Analysts -> JobType]
      /\ \A b \in Analysts :
           job'[b].doing # "idle" =>
             /\ job'[b].event \in Events
             /\ job'[b].doing = "completed" => HasVerdict(job'[b].event)
  BY <1>0, <1>1, JobEnds, JobsStand
<1>5. CASE Present("proc", v) /\ SetStatus(v, job[a].doing)
  BY <1>1, <1>2, <1>3, <1>4, <1>5, StatusSet
<1>6. CASE UNCHANGED src BY <1>1, <1>4, <1>6, JobMoves
<1> QED BY <1>5, <1>6 DEF Mark

LEMMA QuitInv == ASSUME Inv, NEW a \in Analysts, Quit(a) PROVE Inv'
<1>1. /\ job' = [job EXCEPT ![a] = Idle]
      /\ UNCHANGED <<src, made, archive, sink, keeperVars, historyVars>>
  BY DEF Quit
<1>2. TypeOK BY DEF Inv
<1>3. /\ job' \in [Analysts -> JobType]
      /\ \A b \in Analysts :
           job'[b].doing # "idle" =>
             /\ job'[b].event \in Events
             /\ job'[b].doing = "completed" => HasVerdict(job'[b].event)
  BY <1>1, <1>2, JobEnds, JobsStand
<1> QED BY <1>1, <1>3, JobMoves

LEMMA AnalyseInv ==
  ASSUME Inv, NEW a \in Analysts, NEW outcome \in {"insufficient_evidence", "failed"},
         Analyse(a, outcome)
  PROVE  Inv'
<1>1. /\ job[a].doing = "analysing" /\ job' = [job EXCEPT ![a].doing = outcome]
      /\ UNCHANGED <<src, made, archive, sink, keeperVars, historyVars>>
  BY DEF Analyse
<1>2. TypeOK /\ outcome \in Outcomes /\ outcome # "completed" BY DEF Inv, Outcomes
<1>3. job[a].event \in Events BY <1>1, JobsStand
<1>4. /\ job' \in [Analysts -> JobType]
      /\ \A b \in Analysts :
           job'[b].doing # "idle" =>
             /\ job'[b].event \in Events
             /\ job'[b].doing = "completed" => HasVerdict(job'[b].event)
  BY <1>1, <1>2, <1>3, JobRow, JobsStand
<1> QED BY <1>1, <1>4, JobMoves

\* The verdict is there, or it is made.
LEMMA SaveInv == ASSUME Inv, NEW a \in Analysts, Save(a) PROVE Inv'
<1> DEFINE v == job[a].event
<1>0. TypeOK /\ "verdict" \in Tables BY DEF Inv, Tables
<1>1. /\ job[a].doing = "analysing" /\ job' = [job EXCEPT ![a].doing = "completed"]
      /\ UNCHANGED <<archive, sink, keeperVars, historyVars>>
  BY DEF Save
<1>2. v \in Events BY <1>1, JobsStand
<1>3. "completed" \in Outcomes BY DEF Outcomes
<1>4. /\ job' \in [Analysts -> JobType]
      /\ job'[a].event = v /\ \A b \in Analysts \ {a} : job'[b] = job[b]
  BY <1>0, <1>1, <1>3, JobRow
<1>5. CASE Present("verdict", v) /\ UNCHANGED <<src, made>>
  <2>1. HasVerdict(v) BY <1>5 DEF HasVerdict
  <2> QED BY <1>1, <1>2, <1>4, <1>5, <2>1, JobsStand, JobMoves
<1>6. CASE /\ made["verdict"][v] < MaxMade
           /\ Put("verdict", v, Fresh(Stored(made["verdict"][v] + 1)))
           /\ made' = [made EXCEPT !["verdict"][v] = @ + 1]
  <2> DEFINE n == made["verdict"][v] + 1
  <2>1. n \in 1 .. MaxMade BY <1>0, <1>2, <1>6, JobsStand, RetentionAssumption, SMT
  <2>2. Stored(n) \in Body /\ Stored(n).made = n
    BY <2>1, RetentionAssumption, SMT DEF Stored, Body, Statuses
  <2>3. made' \in [Tables -> [Events -> 0 .. MaxMade]]
    <3>1. n \in 0 .. MaxMade BY <2>1, RetentionAssumption, SMT
    <3>2. made' = [made EXCEPT !["verdict"][v] = n] BY <1>6
    <3> HIDE DEF n
    <3> QED BY <1>0, <1>2, <3>1, <3>2, JobsStand
  <2>4. Put("verdict", v, Fresh(Stored(n))) BY <1>6
  <2> HIDE DEF n
  <2>5. Fresh(Stored(n)) \in SourceRow /\ Fresh(Stored(n)).body.made \in 1 .. MaxMade
    BY <2>1, <2>2, FreshRow
  <2>6. \A b \in Analysts :
          job'[b].doing # "idle" =>
            /\ job'[b].event \in Events
            /\ job'[b].doing = "completed" => HasVerdict(job'[b].event) \/ job'[b].event = v
    BY <1>2, <1>4, JobsStand
  <2> DEFINE r == Fresh(Stored(n))
  <2> HIDE DEF r
  <2>7. r \in SourceRow /\ r.body.made \in 1 .. MaxMade /\ Put("verdict", v, r)
    BY <2>4, <2>5 DEF r
  <2>8. "verdict" \in Tables /\ "verdict" # "proc" BY DEF Tables
  <2> QED BY <1>0, <1>1, <1>2, <1>4, <2>3, <2>6, <2>7, <2>8, RowWritten
<1> QED BY <1>5, <1>6 DEF Save

\* A row is made for the event, or the one there is attempted again.
LEMMA ClaimInv == ASSUME Inv, NEW a \in Analysts, NEW v \in Events, Claim(a, v) PROVE Inv'
<1>0. TypeOK /\ "proc" \in Tables BY DEF Inv, Tables
<1>1. /\ job' = [job EXCEPT ![a] = [doing |-> "analysing", event |-> v]]
      /\ UNCHANGED <<archive, sink, keeperVars, historyVars>>
  BY DEF Claim
<1>2. /\ job' \in [Analysts -> JobType]
      /\ \A b \in Analysts :
           job'[b].doing # "idle" =>
             /\ job'[b].event \in Events
             /\ job'[b].doing = "completed" => HasVerdict(job'[b].event)
  <2>1. [doing |-> "analysing", event |-> v] \in JobType BY DEF JobType
  <2> QED BY <1>1, <2>1, JobsStand
<1>3. CASE /\ made["proc"][v] < MaxMade
           /\ Put("proc", v, Fresh([status |-> "processing", attempts |-> 1,
                                    made |-> made["proc"][v] + 1]))
           /\ made' = [made EXCEPT !["proc"][v] = @ + 1]
  <2> DEFINE n == made["proc"][v] + 1
             b == [status |-> "processing", attempts |-> 1, made |-> n]
  <2>1. n \in 0 .. MaxMade /\ n \in Nat BY <1>0, <1>3, JobsStand, RetentionAssumption, SMT
  <2>2. made' = [made EXCEPT !["proc"][v] = n] /\ Put("proc", v, Fresh(b)) BY <1>3
  <2> HIDE DEF n
  <2>3. made' \in [Tables -> [Events -> 0 .. MaxMade]] BY <1>0, <2>1, <2>2, JobsStand
  <2>4. b \in Body /\ StatusOK(b) /\ b.status # "completed"
    BY <2>1, RetentionAssumption, SMT DEF Body, Statuses, StatusOK
  <2> HIDE DEF b
  <2>5. Fresh(b) \in SourceRow /\ Fresh(b).body = b BY <2>4, FreshRow
  <2> QED BY <1>0, <1>1, <1>2, <2>2, <2>3, <2>4, <2>5, RowWritten
<1>4. CASE /\ Present("proc", v) /\ Retryable(src["proc"][v].body)
           /\ src' = [src EXCEPT !["proc"][v].body.status = "processing",
                                 !["proc"][v].body.attempts = @ + 1]
           /\ UNCHANGED made
  <2> DEFINE old == src["proc"][v]
             n == old.body.attempts + 1
             r == [old EXCEPT !.body.status = "processing", !.body.attempts = n]
  <2>1. old \in SourceRow /\ old.body.attempts \in 1 .. ExhaustLimit
    BY <1>0, <1>4, RowThere DEF TypeOK, StatusOK
  <2>2. n \in 1 .. ExhaustLimit
    BY <1>4, <2>1, RetentionAssumption, SMT DEF Retryable
  <2>3. Put("proc", v, r)
    <3> DEFINE new == [old EXCEPT !.body.status = "processing"]
               s == [src EXCEPT !["proc"][v].body.status = "processing"]
    <3>1. src' = [s EXCEPT !["proc"][v].body.attempts = @ + 1] BY <1>4
    <3>2. s = [src EXCEPT !["proc"][v] = new] OBVIOUS
    <3>3. "processing" \in Statuses BY DEF Statuses
    <3>4. new \in SourceRow /\ new.body.attempts = old.body.attempts
      BY <2>1, <3>3, RowOf
    <3> HIDE DEF new, s
    <3>5. s["proc"][v] = new /\ s \in [Tables -> [Events -> Rows]]
      BY <1>0, <3>2, <3>4 DEF TypeOK, Rows
    <3>6. [s EXCEPT !["proc"][v].body.attempts = @ + 1]
            = [s EXCEPT !["proc"][v] = [new EXCEPT !.body.attempts = n]]
      BY <1>0, <3>4, <3>5
    <3>7. [s EXCEPT !["proc"][v] = [new EXCEPT !.body.attempts = n]]
            = [src EXCEPT !["proc"][v] = [new EXCEPT !.body.attempts = n]]
      BY <1>0, <3>2 DEF TypeOK
    <3>8. [new EXCEPT !.body.attempts = n] = r BY DEF new
    <3> QED BY <3>1, <3>6, <3>7, <3>8 DEF Put
  <2>4. n \in Nat BY <2>2, RetentionAssumption, SMT
  <2> HIDE DEF n
  <2>5. r \in SourceRow /\ r.body.attempts = n /\ r.body.status = "processing"
    <3>1. "processing" \in Statuses /\ "processing" # "completed" BY DEF Statuses
    <3> DEFINE b == [[old.body EXCEPT !.status = "processing"] EXCEPT !.attempts = n]
    <3> HIDE DEF old
    <3>2. old.body \in Body BY <2>1 DEF SourceRow
    <3>3. [old.body EXCEPT !.status = "processing"] \in Body BY <3>1, <3>2 DEF Body
    <3>4. b \in Body /\ b.attempts = n BY <2>4, <3>3 DEF Body
    <3>5. b.status = "processing" BY <3>2, <3>3 DEF Body
    <3>6. r = [old EXCEPT !.body = b] BY <2>1, <3>2, Zenon DEF SourceRow, Body
    <3> HIDE DEF b
    <3>7. [old EXCEPT !.body = b] \in SourceRow /\ [old EXCEPT !.body = b].body = b
      BY <2>1, <3>4 DEF SourceRow
    <3> QED BY <3>1, <3>4, <3>5, <3>6, <3>7
  <2> HIDE DEF r
  <2>6. StatusOK(r.body) /\ r.body.status # "completed" BY <2>2, <2>5 DEF StatusOK
  <2> QED BY <1>0, <1>1, <1>2, <1>4, <2>3, <2>5, <2>6, JobsStand, RowWritten
<1> QED BY <1>3, <1>4 DEF Claim

-----------------------------------------------------------------------------
(***************************************************************************)
(* The retention worker.                                                   *)
(***************************************************************************)
\* All but its archive statements leave the rows and the jobs alone.
LEMMA RowsStand ==
  ASSUME Inv, Keeping',
         archive' \in [Key -> Copies], sink' \subseteq Key \X Body,
         at' \in [Keepers -> Phases], seen' \in [Keepers -> SUBSET Events],
         batch' \in [Keepers -> SUBSET Key], intact' \in [Keepers -> BOOLEAN],
         UNCHANGED <<src, made, job, historyVars>>
  PROVE  Inv'
<1> USE DEF historyVars
<1>1. TypeOK' BY DEF Inv, TypeOK, Present, Copies
<1>2. Numbered' /\ CompletedHasVerdict' BY DEF Inv, Numbered, CompletedHasVerdict, Present
<1>3. JobsHaveVerdict' BY DEF Inv, JobsHaveVerdict, HasVerdict, Present
<1> QED BY <1>1, <1>2, <1>3 DEF Inv

LEMMA KeeperTypes ==
  ASSUME Inv
  PROVE  /\ archive \in [Key -> Copies] /\ sink \subseteq Key \X Body
         /\ removed \subseteq Key \X Body
         /\ at \in [Keepers -> Phases] /\ seen \in [Keepers -> SUBSET Events]
         /\ batch \in [Keepers -> SUBSET Key] /\ intact \in [Keepers -> BOOLEAN]
BY DEF Inv, TypeOK, Copies

LEMMA AfterIsPhase == ASSUME NEW p \in Phases \ {"idle"} PROVE After(p) \in Phases
BY SMT DEF After, Phases, Tables

\* A worker with nothing in hand goes to another phase.
LEMMA GoOn ==
  ASSUME Inv, NEW k \in Keepers, NEW p \in Phases, Go(k, p), seen[k] = {}, batch[k] = {},
         UNCHANGED <<src, made, archive, sink, seen, batch, intact, job, historyVars>>
  PROVE  Inv'
<1> USE DEF historyVars
<1>1. at' \in [Keepers -> Phases] /\ \A l \in Keepers \ {k} : at'[l] = at[l]
  BY KeeperTypes DEF Go
<1>2. Phased' BY <1>1 DEF Inv, Keeping, Phased
<1>3. OneExporter' /\ BatchSunk' BY DEF Inv, Keeping, OneExporter, BatchSunk, Entry
<1>4. ExportedIsSunk' /\ NothingLost'
  BY DEF Inv, Keeping, ExportedIsSunk, NothingLost, Archived, Entry
<1>5. Keeping' BY <1>2, <1>3, <1>4 DEF Keeping
<1> QED BY <1>1, <1>5, KeeperTypes, RowsStand

LEMMA HandsEmpty ==
  ASSUME Inv, NEW k \in Keepers
  PROVE  /\ at[k] \notin Tables => seen[k] = {}
         /\ at[k] \notin {"before", "after"} => batch[k] = {}
BY DEF Inv, Keeping, Phased

LEMMA RunInv ==
  ASSUME Inv, NEW k \in Keepers,
         StartRun(k) \/ ExportNothing(k) \/ CheckBacklog(k) \/ NextTarget(k)
  PROVE  Inv'
<1> USE DEF Tables, Phases
<1>1. CASE StartRun(k)
  <2>1. seen[k] = {} /\ batch[k] = {} BY <1>1, HandsEmpty DEF StartRun
  <2> QED BY <1>1, <2>1, GoOn DEF StartRun
<1>2. CASE ExportNothing(k)
  <2>1. seen[k] = {} /\ batch[k] = {} BY <1>2, HandsEmpty DEF ExportNothing
  <2>2. After(at[k]) \in Phases BY <1>2, AfterIsPhase DEF ExportNothing
  <2> QED BY <1>2, <2>1, <2>2, GoOn DEF ExportNothing
<1>3. CASE CheckBacklog(k)
  <2>1. seen[k] = {} /\ batch[k] = {} BY <1>3, HandsEmpty DEF CheckBacklog
  <2>2. (IF Cardinality(Pending) > BacklogMax THEN "idle" ELSE After("backlog")) \in Phases
    BY AfterIsPhase
  <2> QED BY <1>3, <2>1, <2>2, GoOn DEF CheckBacklog
<1>4. CASE NextTarget(k)
  <2>1. seen[k] = {} /\ batch[k] = {} BY <1>4, HandsEmpty DEF NextTarget
  <2>2. After(at[k]) \in Phases BY <1>4, AfterIsPhase DEF NextTarget
  <2> QED BY <1>4, <2>1, <2>2, GoOn DEF NextTarget
<1> QED BY <1>1, <1>2, <1>3, <1>4

LEMMA LookInv ==
  ASSUME Inv, NEW k \in Keepers, NEW rows \in SUBSET Events, Look(k, rows)
  PROVE  Inv'
<1> USE DEF historyVars
<1>1. /\ at[k] \in Tables /\ seen' = [seen EXCEPT ![k] = rows]
      /\ UNCHANGED <<src, made, archive, sink, at, batch, intact, job, historyVars>>
  BY DEF Look
<1>2. seen' \in [Keepers -> SUBSET Events] /\ \A l \in Keepers \ {k} : seen'[l] = seen[l]
  BY <1>1, KeeperTypes
<1>3. Phased' BY <1>1, <1>2 DEF Inv, Keeping, Phased
<1>4. OneExporter' /\ BatchSunk' BY <1>1 DEF Inv, Keeping, OneExporter, BatchSunk, Entry
<1>5. ExportedIsSunk' /\ NothingLost'
  BY <1>1 DEF Inv, Keeping, ExportedIsSunk, NothingLost, Archived, Entry
<1>6. Keeping' BY <1>3, <1>4, <1>5 DEF Keeping
<1> QED BY <1>1, <1>2, <1>6, KeeperTypes, RowsStand

\* What a halted run had in hand stays where it is.
LEMMA HaltInv == ASSUME Inv, NEW k \in Keepers, Halt(k) PROVE Inv'
<1> USE DEF historyVars
<1>1. /\ at' = [at EXCEPT ![k] = "idle"] /\ seen' = [seen EXCEPT ![k] = {}]
      /\ batch' = [batch EXCEPT ![k] = {}] /\ intact' = [intact EXCEPT ![k] = TRUE]
      /\ UNCHANGED <<src, made, archive, sink, job, historyVars>>
  BY DEF Halt, Go
<1>2. /\ at' \in [Keepers -> Phases] /\ seen' \in [Keepers -> SUBSET Events]
      /\ batch' \in [Keepers -> SUBSET Key] /\ intact' \in [Keepers -> BOOLEAN]
      /\ seen'[k] = {} /\ batch'[k] = {}
      /\ \A l \in Keepers \ {k} : /\ at'[l] = at[l] /\ seen'[l] = seen[l]
                                  /\ batch'[l] = batch[l] /\ intact'[l] = intact[l]
  BY <1>1, KeeperTypes DEF Phases
<1>3. Phased' BY <1>2 DEF Inv, Keeping, Phased
<1>4. OneExporter' BY <1>2 DEF Inv, Keeping, OneExporter
<1>5. BatchSunk' BY <1>1, <1>2 DEF Inv, Keeping, BatchSunk, Entry
<1>6. ExportedIsSunk' /\ NothingLost'
  BY <1>1 DEF Inv, Keeping, ExportedIsSunk, NothingLost, Archived, Entry
<1>7. Keeping' BY <1>3, <1>4, <1>5, <1>6 DEF Keeping
<1> QED BY <1>1, <1>2, <1>7, KeeperTypes, RowsStand

\* The batch is all that waits; a bad object leaves the sink as it was.
LEMMA ExportPutInv ==
  ASSUME Inv, NEW k \in Keepers, NEW good \in BOOLEAN, ExportPut(k, good)
  PROVE  Inv'
<1> USE DEF historyVars
<1>1. /\ at[k] \in {"before", "after"} /\ \A l \in Keepers : batch[l] = {}
      /\ batch' = [batch EXCEPT ![k] = Pending] /\ intact' = [intact EXCEPT ![k] = good]
      /\ sink' = IF good THEN sink \cup {Entry(p) : p \in Pending} ELSE sink
      /\ UNCHANGED <<src, made, archive, at, seen, job, historyVars>>
  BY DEF ExportPut, Exporting
<1>2. /\ batch' \in [Keepers -> SUBSET Key] /\ intact' \in [Keepers -> BOOLEAN]
      /\ batch'[k] = Pending /\ intact'[k] = good
      /\ \A l \in Keepers \ {k} : batch'[l] = {}
  BY <1>1, KeeperTypes DEF Pending
<1>3. \A p \in Pending : Entry(p) \in Key \X Body
  BY KeeperTypes DEF Pending, Entry, Copies, ArchiveRow
<1>4. sink' \subseteq Key \X Body /\ sink \subseteq sink' BY <1>1, <1>3, KeeperTypes
<1>5. Phased' /\ OneExporter' BY <1>1, <1>2 DEF Inv, Keeping, Phased, OneExporter
<1>6. BatchSunk' BY <1>1, <1>2 DEF BatchSunk, Pending, Entry
<1>7. ExportedIsSunk' BY <1>1, <1>4 DEF Inv, Keeping, ExportedIsSunk, Entry
<1>8. NothingLost' BY <1>1, <1>4 DEF Inv, Keeping, NothingLost, Archived
<1>9. Keeping' BY <1>5, <1>6, <1>7, <1>8 DEF Keeping
<1> QED BY <1>1, <1>2, <1>4, <1>9, KeeperTypes, RowsStand

\* An export of copies: their state moves on, their bodies stay.
LEMMA CopyMoves ==
  ASSUME NEW r \in ArchiveRow, NEW x \in {"pending", "exported", "prunable"}
  PROVE  /\ [r EXCEPT !.export = x] \in ArchiveRow /\ [r EXCEPT !.export = x] # NoRow
         /\ [r EXCEPT !.export = x].export = x /\ [r EXCEPT !.export = x].body = r.body
<1>1. [r EXCEPT !.export = x] \in ArchiveRow BY DEF ArchiveRow
<1> QED BY <1>1, NoRowAssumption DEF ArchiveRow

LEMMA MarkExportedInv == ASSUME Inv, NEW k \in Keepers, MarkExported(k) PROVE Inv'
<1> USE DEF historyVars
<1>1. /\ batch[k] # {} /\ intact[k]
      /\ archive' = [p \in Key |-> IF p \in batch[k] THEN [archive[p] EXCEPT !.export = "exported"]
                                                     ELSE archive[p]]
      /\ batch' = [batch EXCEPT ![k] = {}] /\ intact' = [intact EXCEPT ![k] = TRUE]
      /\ at' = [at EXCEPT ![k] = After(at[k])]
      /\ UNCHANGED <<src, made, sink, seen, job, historyVars>>
  BY DEF MarkExported, ReadBackOk, Go
<1>2. at[k] \in {"before", "after"} BY <1>1 DEF Inv, Keeping, Phased
<1>3. seen[k] = {} BY <1>2, HandsEmpty DEF Tables
<1>4. After(at[k]) \in Phases BY <1>2, AfterIsPhase DEF Phases
<1>5. /\ at' \in [Keepers -> Phases] /\ batch' \in [Keepers -> SUBSET Key]
      /\ intact' \in [Keepers -> BOOLEAN]
      /\ \A l \in Keepers : batch'[l] = {}
      /\ \A l \in Keepers \ {k} : at'[l] = at[l]
  BY <1>1, <1>4, KeeperTypes DEF Inv, Keeping, OneExporter
<1>6. ASSUME NEW p \in batch[k]
      PROVE  /\ p \in Key /\ archive[p] \in ArchiveRow /\ Entry(p) \in sink
             /\ archive'[p] \in ArchiveRow /\ archive'[p] # NoRow /\ archive'[p].body = archive[p].body
  <2>1. p \in Key /\ archive[p] # NoRow /\ Entry(p) \in sink
    BY <1>1, KeeperTypes DEF Inv, Keeping, BatchSunk
  <2>2. archive[p] \in ArchiveRow BY <2>1, KeeperTypes DEF Copies
  <2>3. archive'[p] = [archive[p] EXCEPT !.export = "exported"] BY <1>1, <2>1
  <2> QED BY <2>1, <2>2, <2>3, CopyMoves
<1>7. \A p \in Key : p \notin batch[k] => archive'[p] = archive[p] BY <1>1
<1>8. archive' \in [Key -> Copies]
  <2>1. \A p \in Key : archive'[p] \in Copies BY <1>6, <1>7, KeeperTypes DEF Copies
  <2>2. archive' = [p \in Key |-> archive'[p]] BY <1>1
  <2> QED BY <2>1, <2>2
<1>9. Phased' BY <1>1, <1>3, <1>5 DEF Inv, Keeping, Phased
<1>10. OneExporter' /\ BatchSunk' BY <1>5 DEF OneExporter, BatchSunk
<1>11. \A p \in Key : archive[p] # NoRow =>
         archive'[p] # NoRow /\ archive'[p].body = archive[p].body /\ Entry(p)' = Entry(p)
  BY <1>6, <1>7 DEF Entry
<1>12. ExportedIsSunk'
  <2>1. ASSUME NEW p \in Key, archive'[p] # NoRow, archive'[p].export # "pending"
        PROVE  Entry(p)' \in sink
    <3>1. CASE p \in batch[k] BY <3>1, <1>6, <1>11, NoRowAssumption
    <3>2. CASE p \notin batch[k]
      BY <2>1, <3>2, <1>7, <1>11 DEF Inv, Keeping, ExportedIsSunk
    <3> QED BY <3>1, <3>2
  <2> QED BY <1>1, <2>1 DEF ExportedIsSunk
<1>13. NothingLost'
  <2>1. \A r \in removed : r[1] \in Key BY KeeperTypes
  <2> QED BY <1>1, <1>11, <2>1 DEF Inv, Keeping, NothingLost, Archived
<1>14. Keeping' BY <1>9, <1>10, <1>12, <1>13 DEF Keeping
<1> QED BY <1>1, <1>5, <1>8, <1>14, KeeperTypes, RowsStand

LEMMA MatureInv == ASSUME Inv, NEW p \in Key, Mature(p) PROVE Inv'
<1> USE DEF historyVars, keeperVars
<1>1. /\ archive[p] # NoRow /\ archive[p].export = "exported"
      /\ archive' = [archive EXCEPT ![p].export = "prunable"]
      /\ UNCHANGED <<src, made, sink, at, seen, batch, intact, job, historyVars>>
  BY DEF Mature
<1>2. archive[p] \in ArchiveRow BY <1>1, KeeperTypes DEF Copies
<1>3. /\ archive'[p] \in ArchiveRow /\ archive'[p] # NoRow /\ archive'[p].body = archive[p].body
      /\ \A q \in Key \ {p} : archive'[q] = archive[q]
  <2>1. archive' = [archive EXCEPT ![p] = [archive[p] EXCEPT !.export = "prunable"]]
    BY <1>1, KeeperTypes
  <2>2. archive'[p] = [archive[p] EXCEPT !.export = "prunable"] BY <2>1, KeeperTypes
  <2> QED BY <1>2, <2>1, <2>2, CopyMoves, KeeperTypes
<1>4. archive' \in [Key -> Copies] BY <1>1, <1>3, KeeperTypes DEF Copies
<1>5. \A q \in Key : Entry(q)' = Entry(q) BY <1>3 DEF Entry
<1>6. Phased' /\ OneExporter' BY <1>1 DEF Inv, Keeping, Phased, OneExporter
<1>7. BatchSunk'
  <2>1. \A k \in Keepers : p \notin batch[k] BY <1>1 DEF Inv, Keeping, BatchSunk
  <2> QED BY <1>1, <1>3, <1>5, <2>1, KeeperTypes DEF Inv, Keeping, BatchSunk
<1>8. ExportedIsSunk' BY <1>1, <1>3, <1>5 DEF Inv, Keeping, ExportedIsSunk
<1>9. NothingLost'
  <2>1. \A r \in removed : r[1] \in Key BY KeeperTypes
  <2> QED BY <1>1, <1>3, <2>1 DEF Inv, Keeping, NothingLost, Archived
<1>10. Keeping' BY <1>6, <1>7, <1>8, <1>9 DEF Keeping
<1> QED BY <1>1, <1>4, <1>10, KeeperTypes, RowsStand

\* What is pruned is in the sink.
LEMMA PruneInv == ASSUME Inv, NEW k \in Keepers, Prune(k) PROVE Inv'
<1> USE DEF historyVars
<1>1. /\ at[k] = "prune"
      /\ archive' = [p \in Key |-> IF archive[p] # NoRow /\ archive[p].export = "prunable"
                                     THEN NoRow ELSE archive[p]]
      /\ at' = [at EXCEPT ![k] = After("prune")]
      /\ UNCHANGED <<src, made, sink, seen, batch, intact, job, historyVars>>
  BY DEF Prune, Go
<1>2. seen[k] = {} /\ batch[k] = {} BY <1>1, HandsEmpty DEF Tables
<1>3. After("prune") \in Phases BY AfterIsPhase DEF Phases
<1>4. at' \in [Keepers -> Phases] /\ \A l \in Keepers \ {k} : at'[l] = at[l]
  BY <1>1, <1>3, KeeperTypes
<1>5. archive' \in [Key -> Copies] BY <1>1, KeeperTypes DEF Copies
<1>6. \A p \in Key :
        \/ archive'[p] = archive[p]
        \/ archive'[p] = NoRow /\ archive[p] # NoRow /\ archive[p].export = "prunable"
  BY <1>1
<1>7. Phased' /\ OneExporter' BY <1>1, <1>2, <1>4 DEF Inv, Keeping, Phased, OneExporter
<1>8. BatchSunk'
  <2>1. \A l \in Keepers : \A p \in batch[l] : archive'[p] = archive[p]
    BY <1>6, KeeperTypes DEF Inv, Keeping, BatchSunk
  <2> QED BY <1>1, <2>1 DEF Inv, Keeping, BatchSunk, Entry
<1>9. ExportedIsSunk' BY <1>1, <1>6 DEF Inv, Keeping, ExportedIsSunk, Entry
<1>10. NothingLost'
  <2>1. ASSUME NEW r \in removed PROVE Archived(r)' \/ r \in sink
    <3>1. r[1] \in Key /\ r = <<r[1], r[2]>> BY KeeperTypes
    <3>2. CASE r \in sink BY <3>2
    <3>3. CASE Archived(r) /\ archive'[r[1]] = archive[r[1]] BY <3>3 DEF Archived
    <3>4. CASE Archived(r) /\ archive[r[1]].export = "prunable"
      <4>1. Entry(r[1]) = r BY <3>1, <3>4 DEF Archived, Entry
      <4>2. Entry(r[1]) \in sink
        BY <3>1, <3>4 DEF Inv, Keeping, ExportedIsSunk, Archived
      <4> QED BY <4>1, <4>2
    <3> QED BY <1>6, <3>1, <3>2, <3>3, <3>4 DEF Inv, Keeping, NothingLost
  <2> QED BY <1>1, <2>1 DEF NothingLost
<1>11. Keeping' BY <1>7, <1>8, <1>9, <1>10 DEF Keeping
<1> QED BY <1>1, <1>4, <1>5, <1>11, KeeperTypes, RowsStand

\* The archive statement: it copies what it has not got, it deletes what the
\* archive holds as it is, and the cascade takes no more than processing rows.
LEMMA ArchiveInv == ASSUME Inv, NEW k \in Keepers, ArchiveAndDelete(k) PROVE Inv'
<1> USE DEF historyVars
<1> DEFINE t == at[k]
           rows == {v \in seen[k] : Expired(t, v)}
           cascade == IF t = "event" THEN {v \in rows : Present("proc", v)} ELSE {}
           deleted == {<<KeyOf(t, v), src[t][v].body>> : v \in rows}
<1>0. TypeOK /\ {"verdict", "proc"} \subseteq Tables BY DEF Inv, Tables
<1>1. t \in Tables /\ rows \subseteq Events
  BY KeeperTypes DEF ArchiveAndDelete, Inv, Keeping, Phased
<1>2. batch[k] = {} BY <1>1, HandsEmpty DEF Tables
<1>3. ASSUME NEW v \in rows
      PROVE  /\ src[t][v] \in SourceRow /\ src[t][v].body \in Body
             /\ KeyOf(t, v) \in Key /\ KeyOf(t, v)[1] = t /\ KeyOf(t, v)[2] = v
  <2>1. v \in Events /\ Present(t, v) BY <1>1 DEF Expired
  <2>2. src[t][v] \in SourceRow BY <1>0, <1>1, <2>1, RowThere
  <2>3. src[t][v].body \in Body BY <2>2 DEF SourceRow
  <2>4. (IF t = "verdict" THEN src[t][v].body.made ELSE 1) \in 1 .. MaxMade
    <3>1. CASE t = "verdict" BY <2>1, <3>1 DEF Inv, Numbered
    <3>2. CASE t # "verdict" BY <3>2, RetentionAssumption, SMT
    <3> QED BY <3>1, <3>2
  <2> QED BY <1>1, <2>1, <2>2, <2>3, <2>4 DEF KeyOf, Key
<1>4. /\ archive' = [p \in Key |->
                       IF archive[p] = NoRow /\ \E v \in rows : p = KeyOf(t, v)
                         THEN [body |-> src[t][p[2]].body, export |-> "pending"] ELSE archive[p]]
      /\ seen' = [seen EXCEPT ![k] = {}]
      /\ UNCHANGED <<made, sink, batch, intact, job>>
  BY DEF ArchiveAndDelete
<1>5. \/ /\ \A v \in rows : Verified(t, v)
         /\ src' = [u \in Tables |-> [v \in Events |->
                      IF (u = t /\ v \in rows) \/ (u = "proc" /\ v \in cascade)
                        THEN NoRow ELSE src[u][v]]]
         /\ removed' = removed \cup deleted /\ cascaded' = cascaded \cup cascade /\ at' = at
      \/ Go(k, "idle") /\ UNCHANGED <<src, historyVars>>
  BY DEF ArchiveAndDelete
<1> HIDE DEF t, rows
<1>6. \A p \in Key :
        \/ archive'[p] = archive[p]
        \/ /\ archive[p] = NoRow /\ archive'[p] \in ArchiveRow /\ archive'[p].export = "pending"
  <2>1. ASSUME NEW p \in Key, archive[p] = NoRow, NEW v \in rows, p = KeyOf(t, v)
        PROVE  archive'[p] \in ArchiveRow /\ archive'[p].export = "pending"
    <3>1. src[t][p[2]].body \in Body BY <1>3, <2>1
    <3>2. archive'[p] = [body |-> src[t][p[2]].body, export |-> "pending"] BY <1>4, <2>1
    <3> QED BY <3>1, <3>2 DEF ArchiveRow
  <2> QED BY <1>4, <2>1
<1>7. archive' \in [Key -> Copies] BY <1>4, <1>6, KeeperTypes DEF Copies
<1>8. \A p \in Key : archive[p] # NoRow => archive'[p] = archive[p] BY <1>6
<1>9. /\ at' \in [Keepers -> Phases] /\ seen' \in [Keepers -> SUBSET Events]
      /\ seen'[k] = {} /\ \A l \in Keepers \ {k} : at'[l] = at[l] /\ seen'[l] = seen[l]
  BY <1>4, <1>5, KeeperTypes DEF Go, Phases
<1>10. deleted \subseteq Key \X Body BY <1>3
<1>11. /\ src' \in [Tables -> [Events -> Rows]]
       /\ \A u \in Tables, v \in Events :
            \/ src'[u][v] = src[u][v]
            \/ src'[u][v] = NoRow /\ ((u = t /\ v \in rows) \/ u = "proc")
  BY <1>0, <1>5 DEF TypeOK, Rows
<1>12. removed \subseteq removed' /\ removed' \subseteq Key \X Body /\ cascaded' \subseteq Events
  <2>1. cascade \subseteq Events BY <1>1
  <2> QED BY <1>0, <1>5, <1>10, <2>1, KeeperTypes DEF TypeOK
<1>13. TypeOK'
  <2>1. \A v \in Events : Present("proc", v)' => StatusOK(src'["proc"][v].body)
    BY <1>0, <1>11 DEF TypeOK, Present
  <2> QED BY <1>0, <1>4, <1>7, <1>9, <1>11, <1>12, <2>1 DEF TypeOK, Rows, Copies
<1>14. Numbered' BY <1>0, <1>11 DEF Inv, Numbered, Present
<1>15. Phased' /\ OneExporter' BY <1>2, <1>4, <1>9 DEF Inv, Keeping, Phased, OneExporter
<1>16. BatchSunk'
  <2>1. \A l \in Keepers : \A p \in batch[l] : archive'[p] = archive[p]
    BY <1>8, KeeperTypes DEF Inv, Keeping, BatchSunk
  <2>2. batch' = batch /\ intact' = intact /\ sink' = sink BY <1>4
  <2> QED BY <2>1, <2>2 DEF Inv, Keeping, BatchSunk, Entry
<1>17. ExportedIsSunk' BY <1>4, <1>6 DEF Inv, Keeping, ExportedIsSunk, Entry
<1>18. NothingLost'
  <2>1. ASSUME NEW r \in removed PROVE Archived(r)' \/ r \in sink
    <3>1. r[1] \in Key BY KeeperTypes
    <3> QED BY <1>8, <3>1 DEF Inv, Keeping, NothingLost, Archived
  <2>2. ASSUME NEW v \in rows, Verified(t, v)
        PROVE  archive'[KeyOf(t, v)] # NoRow /\ archive'[KeyOf(t, v)].body = src[t][v].body
    <3> DEFINE p == KeyOf(t, v)
    <3>1. p \in Key /\ p[2] = v BY <1>3
    <3> HIDE DEF p
    <3>2. CASE archive[p] = NoRow
      <4>1. archive'[p] = [body |-> src[t][v].body, export |-> "pending"]
        BY <1>4, <3>1, <3>2 DEF p
      <4>2. archive'[p] # NoRow BY <1>6, <3>1, <3>2, <4>1, <1>3, NoRowAssumption DEF ArchiveRow
      <4>3. archive'[p].body = src[t][v].body BY <4>1
      <4> QED BY <4>2, <4>3 DEF p
    <3>3. CASE archive[p] # NoRow
      <4>1. archive[p].body = src[t][v].body BY <2>2, <3>3 DEF Verified, p
      <4> QED BY <1>8, <3>1, <3>3, <4>1 DEF p
    <3> QED BY <3>2, <3>3
  <2>3. ASSUME NEW r \in deleted, \A v \in rows : Verified(t, v) PROVE Archived(r)'
    <3>1. PICK v \in rows : r = <<KeyOf(t, v), src[t][v].body>> OBVIOUS
    <3>2. r[1] = KeyOf(t, v) /\ r[2] = src[t][v].body BY <3>1
    <3> QED BY <2>2, <2>3, <3>2 DEF Archived
  <2> HIDE DEF deleted
  <2>4. \A r \in removed' : Archived(r)' \/ r \in sink BY <1>5, <2>1, <2>3
  <2>5. sink' = sink BY <1>4
  <2> QED BY <2>4, <2>5 DEF NothingLost
<1>19. \A v \in Events : HasVerdict(v) => HasVerdict(v)'
  <2>1. ASSUME NEW v \in Events, Present("verdict", v), ~Present("verdict", v)'
        PROVE  \E r \in removed' : r[1][1] = "verdict" /\ r[1][2] = v
    <3>1. t = "verdict" /\ v \in rows BY <1>0, <1>11, <2>1 DEF Present
    <3>2. removed' = removed \cup deleted BY <1>5, <2>1 DEF Present
    <3>3. <<KeyOf(t, v), src[t][v].body>> \in deleted BY <3>1
    <3>4. <<KeyOf(t, v), src[t][v].body>>[1] = KeyOf(t, v) OBVIOUS
    <3> QED BY <1>3, <3>1, <3>2, <3>3, <3>4
  <2> QED BY <1>12, <2>1 DEF HasVerdict
<1>20. JobsHaveVerdict' BY <1>4, <1>19 DEF Inv, JobsHaveVerdict
<1>21. CompletedHasVerdict'
  <2>1. \A v \in Events : Present("proc", v)' /\ src'["proc"][v].body.status = "completed" => HasVerdict(v)
    BY <1>0, <1>11 DEF Inv, CompletedHasVerdict, HasVerdict, Present
  <2> QED BY <1>19, <2>1 DEF CompletedHasVerdict, HasVerdict
<1>22. Keeping' BY <1>15, <1>16, <1>17, <1>18 DEF Keeping
<1> QED BY <1>13, <1>14, <1>20, <1>21, <1>22 DEF Inv

-----------------------------------------------------------------------------
\* Every step keeps the invariant.
LEMMA NextInv == Inv /\ [Next]_vars => Inv'
<1> SUFFICES ASSUME Inv, [Next]_vars PROVE Inv' OBVIOUS
<1>1. ASSUME NEW a \in Analysts, AnalystStep(a) PROVE Inv'
  BY <1>1, ClaimInv, SaveInv, MarkInv, QuitInv, AnalyseInv DEF AnalystStep
<1>2. ASSUME NEW k \in Keepers, KeeperStep(k) PROVE Inv'
  BY <1>2, RunInv, HaltInv, ExportPutInv, MarkExportedInv, LookInv, ArchiveInv, PruneInv
  DEF KeeperStep
<1>3. CASE UNCHANGED vars
  <2>1. UNCHANGED <<src, made, archive, sink, keeperVars, job, historyVars>> BY <1>3 DEF vars
  <2> QED BY <2>1, JobsStand, JobMoves
<1> QED BY <1>1, <1>2, <1>3, IngestInv, RecoverStaleInv, AgeInv, MatureInv DEF Next

\* The invariant holds in every behaviour.
THEOREM Invariance == Spec => []Inv
BY InitInv, NextInv, PTL DEF Spec

\* Rows, copies and jobs keep their types, no event is analysed more often than
\* its retries allow (the upsert of claimTarget), and a row says failed or
\* exhausted as its attempts do, whichever of the writers of markTarget and
\* arvisRecoverStaleStreamJobs comes last (the trigger of migration 040).
THEOREM RetentionTypeCorrect == Spec => []TypeOK
<1>1. Inv => TypeOK BY DEF Inv
<1> QED BY Invariance, <1>1, PTL

\* Whatever an archive statement has deleted is, as it was, in the archive or in
\* the sink (archiveAndDelete, exportOneBatch, the pruning of runOnce).
THEOREM NothingIsLost == Spec => []NothingLost
<1>1. Inv => NothingLost BY DEF Inv, Keeping
<1> QED BY Invariance, <1>1, PTL

\* A copy is marked exported only when the sink holds it as it is.
THEOREM ExportsAreSunk == Spec => []ExportedIsSunk
<1>1. Inv => ExportedIsSunk BY DEF Inv, Keeping
<1> QED BY Invariance, <1>1, PTL

\* A processing row that says completed has its final verdict, in the table or
\* taken by retention (markTarget, arvisRecoverStaleStreamJobs).
THEOREM CompletedRowsHaveVerdicts == Spec => []CompletedHasVerdict
<1>1. Inv => CompletedHasVerdict BY DEF Inv
<1> QED BY Invariance, <1>1, PTL
=============================================================================
