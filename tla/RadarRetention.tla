--------------------------- MODULE RadarRetention ---------------------------
(***************************************************************************)
(* Stream events, the workers that turn them into verdicts                 *)
(* (services/arvis_stream_verdict_worker.go, arvis_stream_recovery.go),    *)
(* and the retention worker that moves what is older than the window into  *)
(* an archive and from there into an external sink                         *)
(* (services/security_radar_retention_v2.go, services/retentionexport).    *)
(*                                                                         *)
(* Of the six tables retention works on, the three that meet the verdict   *)
(* workers are modelled: the final verdicts, the processing rows, and the  *)
(* stream events these refer to with ON DELETE CASCADE.                    *)
(***************************************************************************)
EXTENDS Naturals, FiniteSets

CONSTANTS Events,        \* stream events
          Keepers,       \* retention workers, one in every API process
          Analysts,      \* goroutines of the verdict workers
          NoEvent, NoRow,
          RetryLimit,    \* attempts from which a failed event is exhausted
          ExhaustLimit,  \* an exhausted one is retried below this many
          BatchLimit,    \* rows of one archive statement
          BacklogMax,    \* archived rows that may wait for their export
          SinkEnabled,   \* a sink is configured
          MaxMade        \* bound on the rows made for one event, for model checking only

Tables == {"verdict", "proc", "event"}

ASSUME RetentionAssumption ==
  /\ NoEvent \notin Events
  /\ {RetryLimit, ExhaustLimit, BatchLimit, MaxMade} \subseteq Nat \ {0}
  /\ RetryLimit <= ExhaustLimit /\ BacklogMax \in Nat
  /\ SinkEnabled \in BOOLEAN

VARIABLES
  src,       \* the rows of the three tables
  made,      \* how many rows each table has had for an event
  archive,   \* radar_retention_archive
  sink,      \* the rows in the external sink
  at, seen,  \* each retention worker, and the rows its statement's snapshot holds
  batch,     \* the archived rows it has written to the sink
  intact,    \* whether they read back as they were written
  job,       \* each analyst: what it is doing, to which event
  removed,   \* history: the rows archive statements have deleted
  cascaded   \* history: events whose deletion took a processing row along

keeperVars == <<at, seen, batch, intact>>
historyVars == <<removed, cascaded>>
vars == <<src, made, archive, sink, keeperVars, job, historyVars>>

-----------------------------------------------------------------------------
Settled == {"completed", "insufficient_evidence", "failed", "exhausted"}
Statuses == {"processing", "stored"} \cup Settled
Body == [status : Statuses, attempts : Nat, made : Nat]
SourceRow == [body : Body, old : BOOLEAN]
ArchiveRow == [body : Body, export : {"pending", "exported", "prunable"}]
Key == Tables \X Events \X (1 .. MaxMade)
Phases == {"idle", "before", "backlog", "after", "prune"} \cup Tables
Outcomes == {"completed", "insufficient_evidence", "failed"}

ASSUME NoRowAssumption == NoRow \notin SourceRow \cup ArchiveRow

Present(t, v) == src[t][v] # NoRow
Fresh(body) == [body |-> body, old |-> FALSE]
Stored(n) == [status |-> "stored", attempts |-> 0, made |-> n]
Put(t, v, r) == src' = [src EXCEPT ![t][v] = r]
Idle == [doing |-> "idle", event |-> NoEvent]

Init ==
  /\ src = [t \in Tables |-> [v \in Events |-> NoRow]]
  /\ made = [t \in Tables |-> [v \in Events |-> 0]]
  /\ archive = [k \in Key |-> NoRow]
  /\ sink = {}
  /\ at = [k \in Keepers |-> "idle"] /\ seen = [k \in Keepers |-> {}]
  /\ batch = [k \in Keepers |-> {}] /\ intact = [k \in Keepers |-> TRUE]
  /\ job = [a \in Analysts |-> Idle]
  /\ removed = {} /\ cascaded = {}

\* The stream delivers an event; the dedupe index keeps it to one row.
Ingest(v) ==
  /\ made["event"][v] = 0
  /\ Put("event", v, Fresh(Stored(1)))
  /\ made' = [made EXCEPT !["event"][v] = 1]
  /\ UNCHANGED <<archive, sink, keeperVars, job, historyVars>>

\* A row passes the retention window, none before the event it is about.
Age(t, v) ==
  /\ Present(t, v) /\ ~src[t][v].old
  /\ t # "event" /\ Present("event", v) => src["event"][v].old
  /\ src' = [src EXCEPT ![t][v].old = TRUE]
  /\ UNCHANGED <<made, archive, sink, keeperVars, job, historyVars>>

-----------------------------------------------------------------------------
(***************************************************************************)
(* The verdict workers.  pendingTargets lists events without a row, or     *)
(* with one to retry, of any age; the list may be stale when claimTarget   *)
(* comes to an event, so the upsert decides.                               *)
(***************************************************************************)
\* A mutant of Normalized: the status is stored as it was written.
Normalized_AsWritten(status, attempts) == status

\* The trigger on every write of the status or the attempts.
Normalized(status, attempts) ==
  IF status = "failed" /\ attempts >= RetryLimit THEN "exhausted" ELSE status

\* The row with a status written to it.
SetStatus(v, status) ==
  src' = [src EXCEPT !["proc"][v].body.status = Normalized(status, src["proc"][v].body.attempts)]

Retryable(body) ==
  \/ body.status = "failed" /\ body.attempts < RetryLimit
  \/ body.status = "exhausted" /\ body.attempts < ExhaustLimit

\* INSERT ... ON CONFLICT DO UPDATE; the foreign key needs the event.
Claim(a, v) ==
  /\ job[a] = Idle /\ Present("event", v)
  /\ \/ /\ ~Present("proc", v) /\ made["proc"][v] < MaxMade
        /\ Put("proc", v, Fresh([status |-> "processing", attempts |-> 1,
                                 made |-> made["proc"][v] + 1]))
        /\ made' = [made EXCEPT !["proc"][v] = @ + 1]
     \/ /\ Present("proc", v) /\ Retryable(src["proc"][v].body)
        /\ src' = [src EXCEPT !["proc"][v].body.status = "processing",
                              !["proc"][v].body.attempts = @ + 1]
        /\ UNCHANGED made
  /\ job' = [job EXCEPT ![a] = [doing |-> "analysing", event |-> v]]
  /\ UNCHANGED <<archive, sink, keeperVars, historyVars>>

\* processTarget up to the final verdict: it is there already, it is inserted,
\* or another analyst's insert has won (the unique index).
Save(a) ==
  LET v == job[a].event IN
  /\ job[a].doing = "analysing"
  /\ \/ Present("verdict", v) /\ UNCHANGED <<src, made>>
     \/ /\ ~Present("verdict", v) /\ made["verdict"][v] < MaxMade
        /\ Put("verdict", v, Fresh(Stored(made["verdict"][v] + 1)))
        /\ made' = [made EXCEPT !["verdict"][v] = @ + 1]
  /\ job' = [job EXCEPT ![a].doing = "completed"]
  /\ UNCHANGED <<archive, sink, keeperVars, historyVars>>

\* No verified evidence, or an error before the final verdict is stored.
Analyse(a, outcome) ==
  /\ job[a].doing = "analysing"
  /\ job' = [job EXCEPT ![a].doing = outcome]
  /\ UNCHANGED <<src, made, archive, sink, keeperVars, historyVars>>

\* markTarget: by the event's identity alone, and its error is dropped.
Mark(a) ==
  LET v == job[a].event IN
  /\ job[a].doing \in Outcomes
  /\ \/ Present("proc", v) /\ SetStatus(v, job[a].doing)
     \/ UNCHANGED src
  /\ job' = [job EXCEPT ![a] = Idle]
  /\ UNCHANGED <<made, archive, sink, keeperVars, historyVars>>

\* The process of an analyst ends.
Quit(a) ==
  /\ job[a] # Idle
  /\ job' = [job EXCEPT ![a] = Idle]
  /\ UNCHANGED <<src, made, archive, sink, keeperVars, historyVars>>

\* A mutant of Recovered: the verdict is not looked for.
Recovered_Done(v) == "completed"

\* arvisRecoverStaleStreamJobs: a row five minutes in processing is settled by
\* what there is, whether its analyst lives or not.
Recovered(v) ==
  CASE Present("verdict", v) -> "completed"
    [] ~Present("verdict", v) /\ src["proc"][v].body.attempts >= RetryLimit -> "exhausted"
    [] OTHER -> "failed"

RecoverStale(v) ==
  /\ Present("proc", v) /\ src["proc"][v].body.status = "processing"
  /\ SetStatus(v, Recovered(v))
  /\ UNCHANGED <<made, archive, sink, keeperVars, job, historyVars>>

-----------------------------------------------------------------------------
(***************************************************************************)
(* runOnce: export what is waiting, check the backlog, archive and delete  *)
(* the tables in order, export again, prune.                               *)
(***************************************************************************)
After(phase) ==
  CASE phase = "before" -> "backlog" [] phase = "backlog" -> "verdict"
    [] phase = "verdict" -> "proc"   [] phase = "proc" -> "event"
    [] phase = "event" -> "after"    [] phase = "after" -> "prune"
    [] phase = "prune" -> "idle"

Go(k, phase) == at' = [at EXCEPT ![k] = phase]

StartRun(k) ==
  /\ at[k] = "idle"
  /\ Go(k, "before")
  /\ UNCHANGED <<src, made, archive, sink, seen, batch, intact, job, historyVars>>

\* The run is halted, or its process ends: the statements so far stand.
Halt(k) ==
  /\ at[k] # "idle"
  /\ Go(k, "idle") /\ seen' = [seen EXCEPT ![k] = {}]
  /\ batch' = [batch EXCEPT ![k] = {}] /\ intact' = [intact EXCEPT ![k] = TRUE]
  /\ UNCHANGED <<src, made, archive, sink, job, historyVars>>

Pending == {k \in Key : archive[k] # NoRow /\ archive[k].export = "pending"}
Entry(p) == <<p, archive[p].body>>

\* The advisory lock: one exporter at a time.
Exporting == \E k \in Keepers : batch[k] # {}

\* Put: the object may not be stored as it was written.
ExportPut(k, good) ==
  /\ at[k] \in {"before", "after"} /\ SinkEnabled /\ ~Exporting /\ Pending # {}
  /\ batch' = [batch EXCEPT ![k] = Pending]
  /\ sink' = IF good THEN sink \cup {Entry(p) : p \in Pending} ELSE sink
  /\ intact' = [intact EXCEPT ![k] = good]
  /\ UNCHANGED <<src, made, archive, at, seen, job, historyVars>>

\* A mutant of ReadBackOk: the object is not read back.
ReadBackOk_Unchecked(k) == TRUE

ReadBackOk(k) == intact[k]

\* MarkExported, after Get has returned the bytes that were put.
MarkExported(k) ==
  /\ batch[k] # {} /\ ReadBackOk(k)
  /\ archive' = [p \in Key |-> IF p \in batch[k] THEN [archive[p] EXCEPT !.export = "exported"]
                                                 ELSE archive[p]]
  /\ batch' = [batch EXCEPT ![k] = {}] /\ intact' = [intact EXCEPT ![k] = TRUE]
  /\ Go(k, After(at[k]))
  /\ UNCHANGED <<src, made, sink, seen, job, historyVars>>

\* No sink, nothing to export, or the lock is taken.
ExportNothing(k) ==
  /\ at[k] \in {"before", "after"} /\ batch[k] = {}
  /\ ~SinkEnabled \/ Pending = {} \/ Exporting
  /\ Go(k, After(at[k]))
  /\ UNCHANGED <<src, made, archive, sink, seen, batch, intact, job, historyVars>>

CheckBacklog(k) ==
  /\ at[k] = "backlog"
  /\ Go(k, IF Cardinality(Pending) > BacklogMax THEN "idle" ELSE After("backlog"))
  /\ UNCHANGED <<src, made, archive, sink, seen, batch, intact, job, historyVars>>

\* A target's own condition on the row, and on the rows that refer to it.
Expired(t, v) ==
  /\ Present(t, v) /\ src[t][v].old
  /\ t = "proc" => src[t][v].body.status # "processing"

Unreferenced(t, v) == t = "event" => ~Present("proc", v)

\* The snapshot of the archive statement.
Look(k, rows) ==
  /\ at[k] \in Tables /\ seen[k] = {}
  /\ rows # {} /\ Cardinality(rows) <= BatchLimit
  /\ \A v \in rows : Expired(at[k], v) /\ Unreferenced(at[k], v)
  /\ seen' = [seen EXCEPT ![k] = rows]
  /\ UNCHANGED <<src, made, archive, sink, at, batch, intact, job, historyVars>>

\* The identity of a row in the archive: every verdict has one of its own, while
\* an event and its processing row go by the event's.
KeyOf(t, v) == <<t, v, IF t = "verdict" THEN src[t][v].body.made ELSE 1>>

\* A mutant of Verified: the copies are not counted against the batch.
Verified_Unread(t, v) == TRUE

\* The archived copy of a row of the batch is the row itself.
Verified(t, v) ==
  archive[KeyOf(t, v)] # NoRow => archive[KeyOf(t, v)].body = src[t][v].body

\* FOR UPDATE looks at the row again, not at the rows that refer to it.  A row
\* archived before keeps its old copy, and one that differs halts the run with
\* nothing deleted.  The deletion of an event cascades.
ArchiveAndDelete(k) ==
  LET t == at[k]
      rows == {v \in seen[k] : Expired(t, v)}
      ok == \A v \in rows : Verified(t, v)
      cascade == IF t = "event" THEN {v \in rows : Present("proc", v)} ELSE {}
  IN
  /\ seen[k] # {}
  /\ archive' = [p \in Key |->
                   IF archive[p] = NoRow /\ \E v \in rows : p = KeyOf(t, v)
                     THEN [body |-> src[t][p[2]].body, export |-> "pending"] ELSE archive[p]]
  /\ seen' = [seen EXCEPT ![k] = {}]
  /\ \/ /\ ok
        /\ src' = [u \in Tables |-> [v \in Events |->
                     IF (u = t /\ v \in rows) \/ (u = "proc" /\ v \in cascade)
                       THEN NoRow ELSE src[u][v]]]
        /\ removed' = removed \cup {<<KeyOf(t, v), src[t][v].body>> : v \in rows}
        /\ cascaded' = cascaded \cup cascade
        /\ UNCHANGED at
     \/ /\ ~ok
        /\ Go(k, "idle")
        /\ UNCHANGED <<src, historyVars>>
  /\ UNCHANGED <<made, sink, batch, intact, job>>

\* Nothing is left, or the cap of batches defers the rest to the next run.
NextTarget(k) ==
  /\ at[k] \in Tables /\ seen[k] = {}
  /\ Go(k, After(at[k]))
  /\ UNCHANGED <<src, made, archive, sink, seen, batch, intact, job, historyVars>>

\* An exported row has been kept for the days it must be.
Mature(p) ==
  /\ archive[p] # NoRow /\ archive[p].export = "exported"
  /\ archive' = [archive EXCEPT ![p].export = "prunable"]
  /\ UNCHANGED <<src, made, sink, keeperVars, job, historyVars>>

Prune(k) ==
  /\ at[k] = "prune"
  /\ archive' = [p \in Key |-> IF archive[p] # NoRow /\ archive[p].export = "prunable"
                                 THEN NoRow ELSE archive[p]]
  /\ Go(k, After("prune"))
  /\ UNCHANGED <<src, made, sink, seen, batch, intact, job, historyVars>>

-----------------------------------------------------------------------------
AnalystStep(a) ==
  \/ \E v \in Events : Claim(a, v)
  \/ Save(a) \/ Mark(a) \/ Quit(a)
  \/ \E outcome \in {"insufficient_evidence", "failed"} : Analyse(a, outcome)

KeeperStep(k) ==
  \/ StartRun(k) \/ Halt(k)
  \/ \E good \in BOOLEAN : ExportPut(k, good)
  \/ MarkExported(k) \/ ExportNothing(k) \/ CheckBacklog(k)
  \/ \E rows \in SUBSET Events : Look(k, rows)
  \/ ArchiveAndDelete(k) \/ NextTarget(k) \/ Prune(k)

Next ==
  \/ \E v \in Events : Ingest(v) \/ RecoverStale(v)
  \/ \E t \in Tables, v \in Events : Age(t, v)
  \/ \E a \in Analysts : AnalystStep(a)
  \/ \E k \in Keepers : KeeperStep(k)
  \/ \E p \in Key : Mature(p)

Spec == Init /\ [][Next]_vars

-----------------------------------------------------------------------------
\* A processing row may be retried: what has failed RetryLimit times says so, and
\* what says so has.
StatusOK(body) ==
  /\ body.attempts \in 1 .. ExhaustLimit
  /\ body.status = "failed" => body.attempts < RetryLimit
  /\ body.status = "exhausted" => body.attempts >= RetryLimit

\* What the variables range over; a processing row is attempted at most
\* ExhaustLimit times, and its status and attempts agree whoever marks it, the
\* worker that claimed it, one that lost it, or the recovery of stale rows.
TypeOK ==
  /\ src \in [Tables -> [Events -> SourceRow \cup {NoRow}]]
  /\ made \in [Tables -> [Events -> 0 .. MaxMade]]
  /\ archive \in [Key -> ArchiveRow \cup {NoRow}]
  /\ sink \cup removed \subseteq Key \X Body
  /\ \A v \in Events : Present("proc", v) => StatusOK(src["proc"][v].body)
  /\ at \in [Keepers -> Phases] /\ seen \in [Keepers -> SUBSET Events]
  /\ batch \in [Keepers -> SUBSET Key] /\ intact \in [Keepers -> BOOLEAN]
  /\ job \in [Analysts -> [doing : {"idle", "analysing"} \cup Outcomes, event : Events \cup {NoEvent}]]
  /\ cascaded \subseteq Events

Archived(r) == archive[r[1]] # NoRow /\ archive[r[1]].body = r[2]

\* Halts, crashes, failing exports, pruning and rows that come back: whatever an
\* archive statement has deleted is, as it was, in the archive or in the sink.
NothingLost == \A r \in removed : Archived(r) \/ r \in sink

\* An archived row is only marked exported when the sink holds it as it is,
\* whatever became of the object on the way.
ExportedIsSunk ==
  \A p \in Key : archive[p] # NoRow /\ archive[p].export # "pending" => Entry(p) \in sink

\* A processing row that says completed has its final verdict, still in the
\* table or taken by retention: across late marks, stale recovery, reprocessing
\* and deletion.
CompletedHasVerdict ==
  \A v \in Events :
    Present("proc", v) /\ src["proc"][v].body.status = "completed" =>
      Present("verdict", v) \/ \E r \in removed : r[1][1] = "verdict" /\ r[1][2] = v

\* Stream events are never deleted while a processing row remains: the cascade
\* never takes a row past the archive (radarRetentionTargets).
CascadeTakesNothing == cascaded = {}
=============================================================================
