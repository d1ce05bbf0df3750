------------------------- MODULE EntitlementsProofs -------------------------
(***************************************************************************)
(* Proofs about Entitlements for any subscriptions, grants, requests,      *)
(* package sizes and bounds.  Rows are counted against the recorded        *)
(* payments, so the invariant has to say that a transaction counts an      *)
(* event once (TxMatches) and that a request holds a row that was filled   *)
(* (Holds); revocations are final because the provider emits nothing for a *)
(* subscription after one (FeedFinal).                                     *)
(***************************************************************************)
EXTENDS Entitlements, FiniteSetTheorems, SequenceTheorems, TLAPS

PastCheck == {"clear", "found", "absent"}

\* An open transaction is about an event that was emitted and is not recorded.
TxMatches ==
  \A e \in Events :
    /\ tx[e] # "idle" => e <= Len(feed) /\ e \notin recorded
    /\ tx[e] \in PastCheck => feed[e].type = "active"
    /\ tx[e] = "revoking" => feed[e].type = "revoked"

\* The provider emits nothing about a subscription after its revocation.
FeedFinal ==
  \A f \in 1 .. Len(feed) : feed[f].type = "revoked" =>
    /\ polar[feed[f].sub].state = "revoked"
    /\ \A e \in 1 .. Len(feed) : feed[e].sub = feed[f].sub => e <= f

\* An activation past its check has no revocation behind it, or it is overtaken.
NoStaleActivation ==
  \A e \in Events : tx[e] \in PastCheck =>
    ~RevocationRecorded(SubOf(e)) \/ SubOf(e) \in overtaken

\* A row holds at most what it was filled with, and that is a package.
RowsBounded ==
  \A r \in Rows : row[r].remaining <= row[r].total /\ row[r].total <= Outputs

\* A request past the reservation holds a row that was filled, others hold none.
Holds ==
  \A q \in Requests :
    IF req[q].at \in {"new", "admitted"} THEN req[q].row = NoRow
    ELSE req[q].row \in Rows /\ row[req[q].row].status # "none"

Inv ==
  /\ TypeOK /\ TxMatches /\ FeedFinal /\ NoStaleActivation /\ RevokedStaysOff
  /\ RowsBounded /\ Holds /\ NotOversold

-----------------------------------------------------------------------------
(***************************************************************************)
(* Counting.                                                               *)
(***************************************************************************)
\* One more payment buys one more package.
LEMMA OneMore ==
  ASSUME NEW n \in Nat
  PROVE  Outputs * (n + 1) = Outputs * n + Outputs /\ Outputs * n \in Nat
BY EntitlementAssumption, SMT

\* More payments buy no less.
LEMMA Monotonic ==
  ASSUME NEW m \in Nat, NEW n \in Nat, m <= n
  PROVE  Outputs * m <= Outputs * n
BY EntitlementAssumption, SMT

\* What is counted is finite.
LEMMA CountsFinite ==
  ASSUME TypeOK
  PROVE  /\ \A r : IsFiniteSet(Charged(r)) /\ Cardinality(Charged(r)) \in Nat
         /\ \A s : IsFiniteSet(Paid(s)) /\ Cardinality(Paid(s)) \in Nat
<1>1. ASSUME NEW r PROVE IsFiniteSet(Charged(r)) /\ Cardinality(Charged(r)) \in Nat
  <2>1. Charged(r) \in SUBSET Requests BY DEF Charged
  <2>2. IsFiniteSet(Charged(r)) BY <2>1, EntitlementAssumption, FS_Subset
  <2> QED BY <2>2, FS_CardinalityType
<1>2. ASSUME NEW s PROVE IsFiniteSet(Paid(s)) /\ Cardinality(Paid(s)) \in Nat
  <2>1. Len(feed) \in Int BY LenProperties DEF TypeOK
  <2>2. IsFiniteSet(1 .. Len(feed)) BY <2>1, FS_Interval, SMT
  <2>3. Paid(s) \in SUBSET (1 .. Len(feed)) BY DEF Paid, TypeOK
  <2>4. IsFiniteSet(Paid(s)) BY <2>2, <2>3, FS_Subset
  <2> QED BY <2>4, FS_CardinalityType
<1> QED BY <1>1, <1>2

\* What a revocation leaves of a row.
LEMMA RowRevoked ==
  ASSUME NEW r \in Row, NEW end \in Nat
  PROVE  LET new == [r EXCEPT !.status = "inactive", !.expires = end]
         IN  /\ new \in Row /\ new.status = "inactive"
             /\ new.remaining = r.remaining /\ new.total = r.total
BY Zenon DEF Row

\* What a request leaves of a row.
LEMMA RowSpent ==
  ASSUME NEW r \in Row, NEW n \in Nat
  PROVE  LET new == [r EXCEPT !.remaining = n]
         IN  /\ new \in Row /\ new.status = r.status
             /\ new.remaining = n /\ new.total = r.total
BY SMT DEF Row

\* At the start nothing is emitted, filled or reserved.
LEMMA InitInv == Init => Inv
<1> SUFFICES ASSUME Init PROVE Inv OBVIOUS
<1> USE EntitlementAssumption DEF Init
<1>1. TypeOK
  <2>1. feed \in Seq(Event) /\ Len(feed) = 0 BY EmptySeq
  <2> QED BY <2>1, SMT DEF TypeOK, TxSteps, Plans, Row, RequestSteps, NewRow, AtStart, Rows, Bindings,
      Standings
<1>2. TxMatches /\ FeedFinal /\ NoStaleActivation
  BY EmptySeq, SMT DEF TxMatches, FeedFinal, NoStaleActivation, PastCheck
<1>3. RevokedStaysOff
  BY SMT DEF RevokedStaysOff, RevocationRecorded
<1>4. RowsBounded /\ Holds
  BY SMT DEF RowsBounded, Holds, NewRow, AtStart
<1>5. NotOversold
  <2>1. ASSUME NEW r \in Rows PROVE Cardinality(Charged(r)) = 0 /\ row[r].remaining = 0
    <3>1. Charged(r) = {} BY SMT DEF Charged, AtStart, Rows
    <3> QED BY <3>1, FS_EmptySet DEF NewRow
  <2>2. ASSUME NEW s \in Subs PROVE Outputs * Cardinality(Paid(s)) \in Nat
    BY <1>1, CountsFinite, OneMore
  <2> QED BY <2>1, <2>2, SMT DEF NotOversold, Rows
<1> QED BY <1>1, <1>2, <1>3, <1>4, <1>5 DEF Inv

-----------------------------------------------------------------------------
(***************************************************************************)
(* What the steps of the same kind have in common.                         *)
(***************************************************************************)
\* Nothing that is counted changes.
LEMMA SameCounts ==
  ASSUME NotOversold, \A r \in Rows : row'[r].remaining = row[r].remaining,
         \A q \in Requests : req'[q].row = req[q].row,
         \A s \in Subs : Paid(s)' = Paid(s)
  PROVE  NotOversold'
<1>1. \A r : Charged(r)' = Charged(r) BY DEF Charged
<1> QED BY <1>1 DEF NotOversold, Rows

\* Rows and requests as before, and no fewer payments.
LEMMA NotOversoldGrows ==
  ASSUME NotOversold, TypeOK, \A r \in Rows : row'[r].remaining = row[r].remaining,
         \A r : Charged(r)' = Charged(r),
         \A s \in Subs : /\ Cardinality(Paid(s)') \in Nat
                         /\ Cardinality(Paid(s)) <= Cardinality(Paid(s)')
  PROVE  NotOversold'
<1>1. \A r \in Rows : Cardinality(Charged(r)) + row[r].remaining \in Nat
  BY CountsFinite, SMT DEF TypeOK, Row
<1>2. \A s \in Subs : /\ Outputs * Cardinality(Paid(s)) \in Nat
                     /\ Outputs * Cardinality(Paid(s)') \in Nat
                     /\ Outputs * Cardinality(Paid(s)) <= Outputs * Cardinality(Paid(s)')
  BY CountsFinite, OneMore, Monotonic
<1> QED BY <1>1, <1>2, SMT DEF NotOversold, Rows

\* A step that touches no row, request or record keeps what is said of them.
LEMMA RowsKept ==
  ASSUME Inv, UNCHANGED <<polar, feed, recorded, overtaken, row, req>>
  PROVE  FeedFinal' /\ RevokedStaysOff' /\ RowsBounded' /\ Holds' /\ NotOversold'
<1>1. FeedFinal' /\ RowsBounded' /\ Holds'
  BY DEF Inv, FeedFinal, RowsBounded, Holds
<1>2. RevokedStaysOff'
  BY DEF Inv, RevokedStaysOff, RevocationRecorded, SubOf
<1>3. \A s \in Subs : Paid(s)' = Paid(s)
  BY DEF Paid, SubOf
<1>4. NotOversold' BY <1>3, SameCounts, SMT DEF Inv
<1> QED BY <1>1, <1>2, <1>4

\* What the parts about transactions become when one of them is moved.
LEMMA TxMoved ==
  ASSUME Inv, NEW e \in Events, NEW step \in TxSteps,
         tx' = [tx EXCEPT ![e] = step], UNCHANGED <<feed, recorded, overtaken>>,
         step # "idle" => e <= Len(feed) /\ e \notin recorded,
         step \in PastCheck => /\ feed[e].type = "active"
                               /\ ~RevocationRecorded(SubOf(e)) \/ SubOf(e) \in overtaken,
         step = "revoking" => feed[e].type = "revoked"
  PROVE  TxMatches' /\ NoStaleActivation'
<1>1. tx \in [Events -> TxSteps] BY DEF Inv, TypeOK
<1>2. TxMatches' BY <1>1, SMT DEF Inv, TxMatches, PastCheck
<1>3. \A s : RevocationRecorded(s)' = RevocationRecorded(s) BY DEF RevocationRecorded, SubOf
<1>4. NoStaleActivation' BY <1>1, <1>3, SMT DEF Inv, NoStaleActivation, PastCheck, SubOf
<1> QED BY <1>2, <1>4

\* The events delivered are among those bounded by MaxEvents.
LEMMA EventType ==
  ASSUME TypeOK, NEW e \in 1 .. Len(feed)
  PROVE  e \in Events /\ feed[e] \in Event /\ SubOf(e) \in Subs
<1>1. e \in Events BY LenProperties, EntitlementAssumption, SMT DEF TypeOK, Events
<1>2. feed[e] \in Event BY ElementOfSeq DEF TypeOK
<1> QED BY <1>1, <1>2 DEF SubOf, Event

\* A transaction is begun, goes on, or is rolled back.
LEMMA TxStepInv ==
  ASSUME Inv, NEW e \in 1 .. Len(feed),
         \/ Begin(e) \/ PassCheck(e) \/ Lookup(e) \/ RevokeRow(e)
         \/ BindingRefused(e) \/ Bind(e) \/ InactiveRefused(e)
         \/ InsertRefused(e) \/ RefreshRefused(e) \/ Abort(e)
  PROVE  Inv'
<1>0. e \in Events /\ e <= Len(feed) /\ SubOf(e) \in Subs /\ TypeOK
  BY EventType, LenProperties, SMT DEF Inv, TypeOK
<1>1. UNCHANGED <<now, polar, standing, feed, recorded, overtaken, row, profile, req>>
  BY DEF Begin, BindingRefused, Bind, InactiveRefused, PassCheck, Lookup, RevokeRow, InsertRefused,
    RefreshRefused, Abort, Rollback
<1>2. /\ plan' \in [Events -> Plans]
      /\ faults' \in 0 .. MaxFaults
  BY <1>0, EntitlementAssumption, SMT
     DEF TypeOK, Begin, BindingRefused, Bind, InactiveRefused, PassCheck, Lookup, RevokeRow,
         InsertRefused, RefreshRefused, Abort, Rollback, Plans
<1>3. PICK step \in TxSteps :
        /\ tx' = [tx EXCEPT ![e] = step]
        /\ step # "idle" => e <= Len(feed) /\ e \notin recorded
        /\ step \in PastCheck => /\ feed[e].type = "active"
                                 /\ ~RevocationRecorded(SubOf(e)) \/ SubOf(e) \in overtaken
        /\ step = "revoking" => feed[e].type = "revoked"
  <2> DEFINE Good(step) ==
        /\ tx' = [tx EXCEPT ![e] = step]
        /\ step # "idle" => e <= Len(feed) /\ e \notin recorded
        /\ step \in PastCheck => /\ feed[e].type = "active"
                                 /\ ~RevocationRecorded(SubOf(e)) \/ SubOf(e) \in overtaken
        /\ step = "revoking" => feed[e].type = "revoked"
  <2>1. CASE Begin(e)
    <3>1. Good("ledger") BY <1>0, <2>1, SMT DEF Begin, Unseen, PastCheck
    <3> QED BY <3>1 DEF TxSteps
  <2>2. CASE PassCheck(e)
    <3>1. feed[e].type = "active" /\ e \notin recorded
      BY <1>0, <2>2, SMT DEF PassCheck, Bound, Inv, TxMatches
    <3>2. ~RevocationRecorded(SubOf(e))
      <4> SUFFICES ASSUME NEW f \in recorded, feed[f].type = "revoked", SubOf(f) = SubOf(e)
                   PROVE  FALSE
        BY DEF RevocationRecorded
      <4>1. f \in 1 .. Len(feed) BY <1>0 DEF TypeOK
      <4>2. e <= f BY <4>1 DEF Inv, FeedFinal, SubOf
      <4>3. f >= e BY <1>0, <4>1, <4>2, SMT DEF Events
      <4> QED BY <2>2, <4>3 DEF PassCheck, NewerRevocation
    <3>3. Good("clear") BY <1>0, <2>2, <3>1, <3>2, SMT DEF PassCheck, PastCheck
    <3> QED BY <3>3 DEF TxSteps
  <2>3. CASE Lookup(e)
    <3> DEFINE step == IF row[SubOf(e)].status = "none" THEN "absent" ELSE "found"
    <3>1. e \notin recorded /\ feed[e].type = "active"
          /\ (~RevocationRecorded(SubOf(e)) \/ SubOf(e) \in overtaken)
      BY <1>0, <2>3, SMT DEF Lookup, Inv, TxMatches, NoStaleActivation, PastCheck
    <3>2. Good(step) BY <1>0, <2>3, <3>1, SMT DEF Lookup, PastCheck
    <3> QED BY <3>2 DEF TxSteps
  <2>4. CASE RevokeRow(e)
    <3>1. Good("revoking")
      BY <1>0, <2>4, SMT DEF RevokeRow, Bound, Inv, TxMatches, PastCheck
    <3> QED BY <3>1 DEF TxSteps
  <2>5. CASE InsertRefused(e) \/ RefreshRefused(e) \/ Abort(e) \/ BindingRefused(e) \/ InactiveRefused(e)
    <3>1. Good("idle")
      BY <2>5, SMT DEF InsertRefused, RefreshRefused, BindingRefused, InactiveRefused, Abort, Rollback,
        PastCheck
    <3> QED BY <3>1 DEF TxSteps
  <2>6. CASE Bind(e)
    <3>1. Good("bound") BY <1>0, <2>6, SMT DEF Bind, Inv, TxMatches, PastCheck
    <3> QED BY <3>1 DEF TxSteps
  <2> QED BY <2>1, <2>2, <2>3, <2>4, <2>5, <2>6
<1>4. TypeOK' BY <1>0, <1>1, <1>2, <1>3, SMT DEF TypeOK
<1>5. TxMatches' /\ NoStaleActivation' BY <1>0, <1>1, <1>3, TxMoved
<1> QED BY <1>1, <1>4, <1>5, RowsKept DEF Inv

-----------------------------------------------------------------------------
(***************************************************************************)
(* Commits.                                                                *)
(***************************************************************************)
\* The steps that commit, and the type of the event they commit.
Committing(e) ==
  \/ (Suppress(e) \/ Reactivate(e) \/ InsertRow(e)) /\ feed[e].type = "active"
  \/ Refresh(e) /\ feed[e].type = "cycle"
  \/ (CommitRevoke(e) \/ RevokeNothing(e)) /\ feed[e].type = "revoked"
  \/ RecordOnly(e) /\ feed[e].type = "past_due"

\* What a step commits it has checked the type of, and nobody has recorded.
LEMMA CommitShape ==
  ASSUME Inv, NEW e \in 1 .. Len(feed),
         \/ Suppress(e) \/ Reactivate(e) \/ InsertRow(e) \/ Refresh(e) \/ CommitRevoke(e)
         \/ RevokeNothing(e) \/ RecordOnly(e)
  PROVE  /\ Committing(e) /\ Commit(e) /\ e \notin recorded /\ e \in Events /\ SubOf(e) \in Subs
         /\ feed[e].type # "revoked" => overtaken' = overtaken
         /\ feed[e].type = "revoked" => Overtake(e)
         /\ feed[e].end \in Nat
<1>0. e \in Events /\ feed[e] \in Event /\ SubOf(e) \in Subs
  BY EventType DEF Inv
<1>1. tx[e] # "idle" => e \notin recorded
  BY <1>0 DEF Inv, TxMatches
<1>2. tx[e] # "idle" /\ Committing(e) /\ Commit(e)
  BY <1>0, SMT DEF Inv, TxMatches, PastCheck, Committing, Bound, NeedsBinding, Suppress, Reactivate,
    InsertRow, Refresh, CommitRevoke, RevokeNothing, RecordOnly
<1>3. /\ feed[e].type # "revoked" => overtaken' = overtaken
      /\ feed[e].type = "revoked" => Overtake(e)
  BY <1>2, SMT DEF Committing, Suppress, Reactivate, InsertRow, Refresh, CommitRevoke, RevokeNothing,
    RecordOnly
<1> QED BY <1>0, <1>1, <1>2, <1>3 DEF Event

\* The revocations that are recorded after a commit.
LEMMA RevocationsAfter ==
  ASSUME Inv, NEW e \in 1 .. Len(feed), Commit(e)
  PROVE  \A s : RevocationRecorded(s)' <=>
                  RevocationRecorded(s) \/ (feed[e].type = "revoked" /\ SubOf(e) = s)
BY DEF Commit, RevocationRecorded, SubOf

\* A commit ends its transaction; a revocation overtakes the activations there are.
LEMMA CommitTx ==
  ASSUME Inv, NEW e \in 1 .. Len(feed), Committing(e)
  PROVE  TxMatches' /\ FeedFinal' /\ NoStaleActivation'
<1>0. /\ Commit(e) /\ e \in Events /\ tx \in [Events -> TxSteps]
      /\ feed[e].type # "revoked" => overtaken' = overtaken
      /\ feed[e].type = "revoked" => Overtake(e)
  BY CommitShape DEF Committing, Inv, TypeOK
<1>1. TxMatches' BY <1>0, SMT DEF Inv, TxMatches, Commit, PastCheck
<1>2. FeedFinal' BY <1>0 DEF Inv, FeedFinal, Commit
<1>3. NoStaleActivation'
  <2> SUFFICES ASSUME NEW f \in Events, tx'[f] \in PastCheck, RevocationRecorded(SubOf(f))'
               PROVE  SubOf(f) \in overtaken'
    BY <1>0 DEF NoStaleActivation, Commit, SubOf
  <2>1. f # e /\ tx[f] \in PastCheck
    BY <1>0, SMT DEF Commit, PastCheck
  <2>2. CASE RevocationRecorded(SubOf(f))
    BY <1>0, <2>1, <2>2 DEF Inv, NoStaleActivation, Overtake
  <2>3. CASE ~RevocationRecorded(SubOf(f))
    <3>1. feed[e].type = "revoked" /\ SubOf(e) = SubOf(f)
      BY <1>0, <2>3, RevocationsAfter DEF Commit, SubOf
    <3>2. f \in 1 .. Len(feed)
      BY <2>1, SMT DEF Inv, TxMatches, PastCheck, Events
    <3>3. Activating(SubOf(e)) BY <2>1, <3>1, <3>2 DEF Activating, PastCheck
    <3> QED BY <1>0, <3>1, <3>3 DEF Overtake
  <2> QED BY <2>2, <2>3
<1> QED BY <1>1, <1>2, <1>3

\* A commit counts its event, and no event is counted twice.
LEMMA PaidAfter ==
  ASSUME Inv, NEW e \in 1 .. Len(feed), Committing(e), NEW s
  PROVE  /\ Cardinality(Paid(s)') \in Nat
         /\ Cardinality(Paid(s)) <= Cardinality(Paid(s)')
         /\ s = SubOf(e) /\ feed[e].type \in {"active", "cycle"} =>
              Cardinality(Paid(s)') = Cardinality(Paid(s)) + 1
<1>0. e \notin recorded /\ recorded' = recorded \cup {e} /\ feed' = feed
  BY CommitShape DEF Committing, Commit
<1>1. IsFiniteSet(Paid(s)) /\ Cardinality(Paid(s)) \in Nat
  BY CountsFinite DEF Inv
<1>2. CASE s = SubOf(e) /\ feed[e].type \in {"active", "cycle"}
  <2>1. Paid(s)' = Paid(s) \cup {e} /\ e \notin Paid(s)
    BY <1>0, <1>2 DEF Paid, SubOf
  <2>2. Cardinality(Paid(s)') = Cardinality(Paid(s)) + 1
    BY <1>1, <2>1, FS_AddElement
  <2> QED BY <1>1, <2>2, SMT
<1>3. CASE ~(s = SubOf(e) /\ feed[e].type \in {"active", "cycle"})
  <2>1. Paid(s)' = Paid(s) BY <1>0, <1>3 DEF Paid, SubOf
  <2> QED BY <1>1, <1>3, <2>1, SMT
<1> QED BY <1>2, <1>3

\* A commit that fills no row: a suppressed or recorded event, a revocation.
LEMMA CommitInv ==
  ASSUME Inv, NEW e \in 1 .. Len(feed),
         Suppress(e) \/ RecordOnly(e) \/ RevokeNothing(e) \/ CommitRevoke(e)
  PROVE  Inv'
<1>0. /\ Committing(e) /\ Commit(e) /\ e \in Events /\ SubOf(e) \in Subs
      /\ feed[e].type # "revoked" => overtaken' = overtaken
      /\ feed[e].type = "revoked" => Overtake(e)
      /\ TypeOK
  BY CommitShape DEF Inv
<1>1. overtaken \subseteq overtaken' /\ overtaken' \subseteq Subs
  BY <1>0 DEF Overtake, TypeOK
<1>2. /\ row' \in [Rows -> Row] /\ profile' \in Plans
      /\ \A r \in Rows : /\ row'[r].remaining = row[r].remaining /\ row'[r].total = row[r].total
                         /\ row[r].status # "none" => row'[r].status # "none"
                         /\ row'[r].status = "active" => row[r].status = "active"
      /\ feed[e].type = "revoked" => row'[SubOf(e)].status # "active"
  <2>1. CASE Suppress(e) \/ RecordOnly(e) \/ RevokeNothing(e)
    <3>1. row' = row /\ profile' = profile
          /\ (feed[e].type = "revoked" => row[SubOf(e)].status # "active")
      BY <2>1, SMT DEF Suppress, RecordOnly, RevokeNothing, Bound, NeedsBinding
    <3> QED BY <1>0, <3>1, SMT DEF TypeOK
  <2>2. CASE CommitRevoke(e)
    <3>1. now \in Nat /\ plan[e] \in Plans /\ row[SubOf(e)] \in Row /\ SubOf(e) \in Rows
      BY <1>0, EntitlementAssumption, SMT DEF TypeOK, Rows
    <3> DEFINE end == IF row[SubOf(e)].expires < now THEN row[SubOf(e)].expires ELSE now
               new == [row[SubOf(e)] EXCEPT !.status = "inactive", !.expires = end]
    <3>2. end \in Nat BY <3>1, SMT DEF Row
    <3>3. /\ new \in Row /\ new.status = "inactive"
          /\ new.remaining = row[SubOf(e)].remaining /\ new.total = row[SubOf(e)].total
      BY <3>1, <3>2, RowRevoked
    <3>4. row' = [row EXCEPT ![SubOf(e)].status = "inactive", ![SubOf(e)].expires = end]
      BY <2>2 DEF CommitRevoke
    <3>5. row' = [row EXCEPT ![SubOf(e)] = new]
      BY <1>0, <3>1, <3>4 DEF TypeOK
    <3>6. profile' = plan[e] BY <2>2 DEF CommitRevoke
    <3> HIDE DEF new
    <3>7. row'[SubOf(e)] = new /\ \A r \in Rows \ {SubOf(e)} : row'[r] = row[r]
      BY <1>0, <3>1, <3>5 DEF TypeOK
    <3> QED BY <1>0, <3>1, <3>3, <3>5, <3>6, <3>7, SMT DEF TypeOK
  <2> QED BY <2>1, <2>2
<1>3. TypeOK'
  <2>1. tx' \in [Events -> TxSteps] /\ plan' \in [Events -> Plans]
    BY <1>0, SMT DEF TypeOK, Commit, TxSteps, Plans
  <2>2. recorded' \subseteq 1 .. Len(feed)
    BY <1>0 DEF TypeOK, Commit
  <2> QED BY <1>0, <1>1, <1>2, <2>1, <2>2, SMT DEF TypeOK, Commit
<1>4. RevokedStaysOff'
  <2>1. \A s \in Subs : RevocationRecorded(s)' /\ ~(feed[e].type = "revoked" /\ SubOf(e) = s)
          => RevocationRecorded(s)
    BY <1>0, RevocationsAfter
  <2> QED BY <1>1, <1>2, <2>1, EntitlementAssumption DEF Inv, RevokedStaysOff, Rows
<1>5. RowsBounded' /\ Holds'
  BY <1>0, <1>2, SMT DEF Inv, RowsBounded, Holds, Commit
<1>6. NotOversold'
  <2>1. \A r : Charged(r)' = Charged(r) BY <1>0 DEF Charged, Commit
  <2>2. \A s \in Subs : /\ Cardinality(Paid(s)') \in Nat
                       /\ Cardinality(Paid(s)) <= Cardinality(Paid(s)')
    BY <1>0, PaidAfter
  <2> QED BY <1>0, <1>2, <2>1, <2>2, NotOversoldGrows DEF Inv
<1> QED BY <1>0, <1>3, <1>4, <1>5, <1>6, CommitTx DEF Inv

\* A payment is recorded and fills the row of its subscription.
LEMMA FillInv ==
  ASSUME Inv, NEW e \in 1 .. Len(feed), Reactivate(e) \/ InsertRow(e) \/ Refresh(e)
  PROVE  Inv'
<1> DEFINE s == SubOf(e)
           new == FilledRow(feed[e].end)
<1>0. /\ Committing(e) /\ Commit(e) /\ e \in Events /\ s \in Subs /\ s \in Rows
      /\ feed[e].type \in {"active", "cycle"} /\ overtaken' = overtaken
      /\ TypeOK
  <2>1. feed[e].type \in {"active", "cycle"}
    BY CommitShape DEF Inv, TxMatches, Reactivate, InsertRow, Refresh, Bound, PastCheck
  <2>2. overtaken' = overtaken BY <2>1, CommitShape
  <2> QED BY <2>1, <2>2, CommitShape DEF Inv, Rows
<1>1. row' = [row EXCEPT ![s] = new] /\ profile' \in Plans
  BY <1>0 DEF Reactivate, InsertRow, Refresh, TypeOK, Plans
<1>2. /\ new \in Row /\ new.status = "active" /\ new.remaining = Outputs /\ new.total = Outputs
      /\ Outputs \in Nat
  BY CommitShape, EntitlementAssumption, SMT DEF FilledRow, Row
<1>3. row'[s] = new /\ \A r \in Rows \ {s} : row'[r] = row[r]
  BY <1>0, <1>1 DEF TypeOK
<1> HIDE DEF new
<1>4. TypeOK'
  <2>1. tx' \in [Events -> TxSteps] /\ plan' \in [Events -> Plans]
    BY <1>0, SMT DEF TypeOK, Commit, TxSteps, Plans
  <2>2. recorded' \subseteq 1 .. Len(feed) /\ row' \in [Rows -> Row]
    BY <1>0, <1>1, <1>2 DEF TypeOK, Commit
  <2> QED BY <1>0, <1>1, <2>1, <2>2, SMT DEF TypeOK, Commit
<1>5. RevokedStaysOff'
  <2>1. \A t : RevocationRecorded(t)' <=> RevocationRecorded(t)
    BY <1>0, RevocationsAfter
  <2>2. RevocationRecorded(s) => s \in overtaken \/ row[s].status = "active"
    BY <1>0, SMT DEF Inv, NoStaleActivation, PastCheck, Reactivate, InsertRow, Refresh
  <2>3. RevocationRecorded(s) => s \in overtaken
    BY <1>0, <2>2 DEF Inv, RevokedStaysOff
  <2> QED BY <1>0, <1>3, <2>1, <2>3, EntitlementAssumption DEF Inv, RevokedStaysOff, Rows
<1>6. RowsBounded' /\ Holds'
  BY <1>0, <1>2, <1>3, SMT DEF Inv, RowsBounded, Holds, Commit
<1>7. NotOversold'
  <2>1. \A r : Charged(r)' = Charged(r) BY <1>0 DEF Charged, Commit
  <2>2. ASSUME NEW r \in Rows \ {s}
        PROVE  Cardinality(Charged(r)') + row'[r].remaining = Cardinality(Charged(r)) + row[r].remaining
    BY <1>3, <2>1
  <2>3. \A g \in Grants : Cardinality(Charged(g)') + row'[g].remaining <= Outputs
    BY <1>0, <2>2, EntitlementAssumption DEF Inv, NotOversold, Rows
  <2>4. ASSUME NEW t \in Subs
        PROVE  Cardinality(Charged(t)') + row'[t].remaining <= Outputs * Cardinality(Paid(t)')
    <3> DEFINE c == Cardinality(Charged(t))
               n == Cardinality(Paid(t))
               m == Cardinality(Paid(t)')
    <3>1. c \in Nat /\ n \in Nat /\ m \in Nat /\ n <= m /\ row[t].remaining \in Nat
      BY <1>0, CountsFinite, PaidAfter, SMT DEF TypeOK, Row, Rows
    <3>2. c + row[t].remaining <= Outputs * n BY DEF Inv, NotOversold
    <3>3. Outputs * n <= Outputs * m /\ Outputs * n \in Nat /\ Outputs * m \in Nat
          /\ Outputs * (n + 1) = Outputs * n + Outputs
      BY <3>1, Monotonic, OneMore
    <3>4. CASE t = s
      <4>1. m = n + 1 BY <1>0, <3>4, PaidAfter
      <4>2. row'[t].remaining = Outputs BY <1>2, <1>3, <3>4
      <4>3. c + Outputs <= Outputs * m
        <5> HIDE DEF c, n, m
        <5> QED BY <1>2, <3>1, <3>2, <3>3, <4>1, SMT
      <4> QED BY <2>1, <4>2, <4>3
    <3>5. CASE t # s
      <4>1. c + row[t].remaining <= Outputs * m
        <5> HIDE DEF c, n, m
        <5> QED BY <3>1, <3>2, <3>3, SMT
      <4> QED BY <1>3, <2>1, <3>5, <4>1 DEF Rows
    <3> QED BY <3>4, <3>5
  <2> QED BY <2>3, <2>4 DEF NotOversold
<1> QED BY <1>0, <1>4, <1>5, <1>6, <1>7, CommitTx DEF Inv

-----------------------------------------------------------------------------
(***************************************************************************)
(* Requests.                                                               *)
(***************************************************************************)
\* A request leaves transactions, records and subscriptions alone.
LEMMA RequestFrame ==
  ASSUME Inv, UNCHANGED <<polar, standing, feed, billingVars>>,
         \A r \in Rows : row'[r].status = row[r].status
  PROVE  TxMatches' /\ FeedFinal' /\ NoStaleActivation' /\ RevokedStaysOff'
         /\ \A s : Paid(s)' = Paid(s)
<1> USE DEF billingVars
<1>1. TxMatches' /\ FeedFinal'
  BY DEF Inv, TxMatches, FeedFinal
<1>2. \A s : RevocationRecorded(s)' = RevocationRecorded(s) /\ Paid(s)' = Paid(s)
  BY DEF RevocationRecorded, SubOf, Paid
<1>3. NoStaleActivation' /\ RevokedStaysOff'
  BY <1>2 DEF Inv, NoStaleActivation, RevokedStaysOff, SubOf, Rows
<1> QED BY <1>1, <1>2, <1>3

\* A row gains what its requests give up, at most.
LEMMA Balanced ==
  ASSUME NotOversold, \A s \in Subs : Paid(s)' = Paid(s),
         \A r \in Rows : Cardinality(Charged(r)') + row'[r].remaining
                           <= Cardinality(Charged(r)) + row[r].remaining,
         \A r \in Rows : /\ Cardinality(Charged(r)') + row'[r].remaining \in Nat
                         /\ Cardinality(Charged(r)) + row[r].remaining \in Nat,
         TypeOK
  PROVE  NotOversold'
<1>1. \A s \in Subs : Outputs * Cardinality(Paid(s)) \in Nat
  BY CountsFinite, OneMore
<1> QED BY <1>1, EntitlementAssumption, SMT DEF NotOversold, Rows

\* Who counts against a row when one request moves.
LEMMA ChargedAfter ==
  ASSUME TypeOK, NEW q \in Requests, NEW at, NEW r, Move(q, at, r), NEW t
  PROVE  Charged(t)' = IF t = r THEN Charged(t) \cup {q} ELSE Charged(t) \ {q}
BY DEF Move, Charged, TypeOK

\* A request goes on with the row it holds, or with none.
LEMMA RequestStepInv ==
  ASSUME Inv, NEW q \in Requests,
         \/ Admit(q) \/ Exhausted(q) \/ Preflight(q) \/ RefundFails(q)
         \/ \E charged \in BOOLEAN : Respond(q, charged)
  PROVE  Inv'
<1>0. TypeOK /\ req[q].row \in Rows \cup {NoRow} BY SMT DEF Inv, TypeOK
<1>1. PICK at \in RequestSteps :
        /\ Move(q, at, req[q].row)
        /\ at \in {"new", "admitted"} <=> req[q].at \in {"new", "admitted"}
  <2>1. CASE Admit(q)
    <3>1. Move(q, "admitted", req[q].row) /\ req[q].at = "new"
      BY <2>1 DEF Admit, Inv, Holds
    <3> QED BY <3>1 DEF RequestSteps
  <2>2. CASE Exhausted(q)
    <3>1. Move(q, "new", req[q].row) /\ req[q].at = "admitted"
      BY <2>2 DEF Exhausted, Inv, Holds
    <3> QED BY <3>1 DEF RequestSteps
  <2>3. CASE Preflight(q)
    <3>1. req[q].at = "reserved"
          /\ (Move(q, "working", req[q].row) \/ Move(q, "refunding", req[q].row))
      BY <2>3 DEF Preflight
    <3> QED BY <3>1, SMT DEF RequestSteps, Holding
  <2>4. CASE RefundFails(q)
    <3>1. req[q].at = "refunding" /\ Move(q, "lost", req[q].row)
      BY <2>4 DEF RefundFails
    <3> QED BY <3>1, SMT DEF RequestSteps
  <2>5. ASSUME NEW charged \in BOOLEAN, Respond(q, charged)
        PROVE \E at \in RequestSteps :
                /\ Move(q, at, req[q].row)
                /\ at \in {"new", "admitted"} <=> req[q].at \in {"new", "admitted"}
    <3>1. req[q].at = "working"
          /\ (Move(q, "delivered", req[q].row) \/ Move(q, "refunding", req[q].row))
      BY <2>5 DEF Respond
    <3> QED BY <3>1, SMT DEF RequestSteps, Holding
  <2> QED BY <2>1, <2>2, <2>3, <2>4, <2>5
<1>2. UNCHANGED <<now, polar, standing, feed, billingVars, row, profile>> /\ faults' \in 0 .. MaxFaults
  BY <1>0, EntitlementAssumption, SMT
     DEF Admit, Exhausted, Preflight, RefundFails, Respond, TypeOK, billingVars
<1>3. TypeOK'
  <2>1. req' \in [Requests -> [at : RequestSteps, row : Rows \cup {NoRow}]]
    BY <1>0, <1>1 DEF TypeOK, Move
  <2> QED BY <1>0, <1>2, <2>1, SMT DEF TypeOK, billingVars
<1>4. /\ req'[q].at = at /\ req'[q].row = req[q].row
      /\ \A p \in Requests \ {q} : req'[p] = req[p]
  BY <1>0, <1>1 DEF Move, TypeOK
<1>5. RowsBounded' BY <1>2 DEF Inv, RowsBounded
<1>6. Holds'
  <2> SUFFICES ASSUME NEW p \in Requests
               PROVE  IF req'[p].at \in {"new", "admitted"} THEN req'[p].row = NoRow
                      ELSE req'[p].row \in Rows /\ row'[req'[p].row].status # "none"
    BY DEF Holds
  <2>1. req'[p].row = req[p].row
        /\ (req'[p].at \in {"new", "admitted"} <=> req[p].at \in {"new", "admitted"})
    BY <1>1, <1>4
  <2> QED BY <1>2, <2>1 DEF Inv, Holds
<1>7. NotOversold'
  <2>1. \A s \in Subs : Paid(s)' = Paid(s) BY <1>2, RequestFrame
  <2>2. \A p \in Requests : req'[p].row = req[p].row BY <1>4
  <2> QED BY <1>2, <2>1, <2>2, SameCounts DEF Inv
<1> QED BY <1>2, <1>3, <1>5, <1>6, <1>7, RequestFrame DEF Inv

\* An output moves from a row to a request, or back.
LEMMA OutputMoves ==
  ASSUME Inv, NEW q \in Requests, Reserve(q) \/ Refund(q)
  PROVE  Inv'
<1>0. TypeOK /\ Outputs \in Nat /\ NoRow \notin Rows
  BY EntitlementAssumption DEF Inv
<1>1. UNCHANGED <<now, polar, standing, feed, billingVars, profile, faults>>
  BY DEF Reserve, Refund
<1>2. PICK r \in Rows, at \in RequestSteps, held \in Rows \cup {NoRow}, n \in Nat :
        /\ row' = [row EXCEPT ![r].remaining = n] /\ Move(q, at, held)
        /\ \/ /\ req[q].row = NoRow /\ held = r /\ n = row[r].remaining - 1
              /\ row[r].status # "none" /\ at \notin {"new", "admitted"}
           \/ /\ req[q].row = r /\ held = NoRow /\ n <= row[r].remaining + 1
              /\ n <= row[r].total /\ at = "new"
  <2>1. CASE Reserve(q)
    <3>1. PICK r \in Fullest :
            /\ row' = [row EXCEPT ![r].remaining = @ - 1]
            /\ Move(q, IF q \in InnerChecked THEN "reserved" ELSE "working", r)
      BY <2>1 DEF Reserve
    <3>2. r \in Rows /\ row[r].status # "none" /\ row[r].remaining > 0
      BY <3>1 DEF Fullest, Spendable, Usable
    <3>3. row[r].remaining - 1 \in Nat BY <1>0, <3>2, SMT DEF TypeOK, Row
    <3>4. row' = [row EXCEPT ![r].remaining = row[r].remaining - 1] BY <3>1
    <3>5. req[q].row = NoRow BY <2>1 DEF Reserve, Inv, Holds
    <3>6. /\ (IF q \in InnerChecked THEN "reserved" ELSE "working") \in RequestSteps
          /\ (IF q \in InnerChecked THEN "reserved" ELSE "working") \notin {"new", "admitted"}
      BY SMT DEF RequestSteps, Holding
    <3> QED BY <3>1, <3>2, <3>3, <3>4, <3>5, <3>6
  <2>2. CASE Refund(q)
    <3> DEFINE r == req[q].row
               n == Refunded(r)
    <3>1. r \in Rows BY <2>2, SMT DEF Refund, Inv, Holds
    <3>2. n \in Nat /\ n <= row[r].remaining + 1 /\ n <= row[r].total
      BY <1>0, <3>1, SMT DEF Refunded, TypeOK, Row, Inv, RowsBounded
    <3>3. row' = [row EXCEPT ![r].remaining = n] /\ Move(q, "new", NoRow)
      BY <2>2 DEF Refund
    <3>4. "new" \in RequestSteps /\ NoRow \in Rows \cup {NoRow} BY DEF RequestSteps
    <3> HIDE DEF n
    <3> QED BY <3>1, <3>2, <3>3, <3>4
  <2> QED BY <2>1, <2>2
<1> DEFINE new == [row[r] EXCEPT !.remaining = n]
<1>3. /\ row[r] \in Row /\ row[r].remaining \in Nat /\ row[r].total \in Nat
      /\ new \in Row /\ new.status = row[r].status /\ new.remaining = n /\ new.total = row[r].total
  <2>1. row[r] \in Row BY <1>0 DEF TypeOK
  <2>2. row[r].remaining \in Nat /\ row[r].total \in Nat BY <2>1 DEF Row
  <2> QED BY <2>1, <2>2, RowSpent
<1>4. row' = [row EXCEPT ![r] = new] BY <1>0, <1>2 DEF TypeOK
<1> HIDE DEF new
<1>5. /\ row' \in [Rows -> Row] /\ row'[r] = new /\ \A t \in Rows \ {r} : row'[t] = row[t]
  BY <1>0, <1>3, <1>4 DEF TypeOK
<1>6. /\ req' \in [Requests -> [at : RequestSteps, row : Rows \cup {NoRow}]]
      /\ req'[q].at = at /\ req'[q].row = held /\ \A p \in Requests \ {q} : req'[p] = req[p]
  BY <1>0, <1>2 DEF Move, TypeOK
<1>7. TypeOK' BY <1>0, <1>1, <1>5, <1>6, SMT DEF TypeOK, billingVars
<1>8. \A t \in Rows : row'[t].status = row[t].status BY <1>3, <1>5
<1>9. RowsBounded'
  <2>1. n <= row[r].total
    BY <1>2, <1>3, SMT DEF Inv, RowsBounded
  <2> QED BY <1>3, <1>5, <2>1 DEF Inv, RowsBounded
<1>10. Holds'
  <2>1. IF at \in {"new", "admitted"} THEN held = NoRow ELSE held \in Rows /\ row[held].status # "none"
    BY <1>2
  <2> QED BY <1>6, <1>8, <2>1 DEF Inv, Holds
<1>11. NotOversold'
  <2>1. ASSUME NEW t \in Rows
        PROVE  /\ Cardinality(Charged(t)') + row'[t].remaining
                    <= Cardinality(Charged(t)) + row[t].remaining
               /\ Cardinality(Charged(t)') + row'[t].remaining \in Nat
               /\ Cardinality(Charged(t)) + row[t].remaining \in Nat
    <3> DEFINE C == Charged(t)
               D == Charged(t)'
    <3>1. IsFiniteSet(C) /\ Cardinality(C) \in Nat BY <1>0, CountsFinite
    <3>2. D = IF t = held THEN C \cup {q} ELSE C \ {q} BY <1>0, <1>2, ChargedAfter
    <3>3. q \in C <=> req[q].row = t BY DEF Charged
    <3>4. /\ Cardinality(C \cup {q}) = IF q \in C THEN Cardinality(C) ELSE Cardinality(C) + 1
          /\ Cardinality(C \ {q}) = IF q \in C THEN Cardinality(C) - 1 ELSE Cardinality(C)
      BY <3>1, FS_AddElement, FS_RemoveElement
    <3>5. Cardinality(D) \in Nat
      <4>1. IsFiniteSet(D) BY <3>1, <3>2, FS_AddElement, FS_RemoveElement
      <4> QED BY <4>1, FS_CardinalityType
    <3>6. row[t].remaining \in Nat /\ (t # r => row'[t].remaining = row[t].remaining)
          /\ (t = r => row'[t].remaining = n)
      <4>1. row[t] \in Row BY <1>0 DEF TypeOK
      <4>2. row[t].remaining \in Nat BY <4>1 DEF Row
      <4> QED BY <1>3, <1>5, <4>2
    <3>7. CASE t = r
      <4>1. CASE req[q].row = NoRow /\ held = r /\ n = row[r].remaining - 1
        <5>1. q \notin C /\ Cardinality(D) = Cardinality(C) + 1 BY <1>0, <3>2, <3>3, <3>4, <3>7, <4>1
        <5> HIDE DEF C, D
        <5> QED BY <3>1, <3>5, <3>6, <3>7, <4>1, <5>1, SMT DEF C, D
      <4>2. CASE req[q].row = r /\ held = NoRow /\ n <= row[r].remaining + 1
        <5>1. q \in C /\ Cardinality(D) = Cardinality(C) - 1 BY <1>0, <3>2, <3>3, <3>4, <3>7, <4>2
        <5> QED BY <3>1, <3>5, <3>6, <3>7, <4>2, <5>1, SMT
      <4> QED BY <1>2, <4>1, <4>2
    <3>8. CASE t # r
      <4>1. q \notin C /\ t # held BY <1>0, <1>2, <3>3, <3>8
      <4>2. Cardinality(D) = Cardinality(C) BY <3>2, <3>4, <4>1
      <4> QED BY <3>1, <3>6, <3>8, <4>2, SMT
    <3> QED BY <3>7, <3>8
  <2>2. \A s \in Subs : Paid(s)' = Paid(s) BY <1>1, <1>8, RequestFrame
  <2> QED BY <1>0, <2>1, <2>2, Balanced DEF Inv
<1> QED BY <1>1, <1>7, <1>8, <1>9, <1>10, <1>11, RequestFrame DEF Inv

-----------------------------------------------------------------------------
(***************************************************************************)
(* The provider, the owner, time and crashes.                              *)
(***************************************************************************)
\* A new billing period begins.
LEMMA TickInv == ASSUME Inv, Tick PROVE Inv'
<1> USE DEF Tick, billingVars
<1>1. TypeOK' BY EntitlementAssumption, SMT DEF Inv, TypeOK
<1>2. TxMatches' /\ NoStaleActivation'
  BY DEF Inv, TxMatches, NoStaleActivation, RevocationRecorded, SubOf
<1> QED BY <1>1, <1>2, RowsKept DEF Inv

\* The provider emits an event, about a subscription it has not revoked.
LEMMA EmitInv ==
  ASSUME Inv, NEW type \in EventTypes, NEW s \in Subs, NEW live \in BOOLEAN, Emit(type, s, live)
  PROVE  Inv'
<1> DEFINE end == IF type \in {"active", "cycle"} THEN now + 1 ELSE polar[s].until
           new == [type |-> type, sub |-> s, end |-> end, live |-> live]
           sold == [state |-> IF type = "cycle" THEN "active" ELSE type,
                    until |-> end, binding |-> polar[s].binding]
           state == IF type = "cycle" THEN "active" ELSE type
<1>0. TypeOK /\ feed \in Seq(Event) /\ Len(feed) \in Nat /\ Len(feed) < MaxEvents
  BY LenProperties DEF Inv, TypeOK, Emit
<1>1. end \in 0 .. Periods + 1
  BY <1>0, EntitlementAssumption, SMT DEF TypeOK
<1>2. new \in Event /\ new.sub = s /\ new.type = type
  BY <1>1, EntitlementAssumption, SMT DEF Event
<1>3. /\ feed' = Append(feed, new) /\ polar' = [polar EXCEPT ![s] = sold]
      /\ UNCHANGED <<now, standing, billingVars, row, profile, req, faults>> /\ Follows(type, s)
  BY DEF Emit
<1> HIDE DEF end, new
<1>4. /\ feed' \in Seq(Event) /\ Len(feed') = Len(feed) + 1 /\ feed'[Len(feed) + 1] = new
      /\ \A i \in 1 .. Len(feed) : feed'[i] = feed[i]
  BY <1>0, <1>2, <1>3, AppendProperties
<1>5. TypeOK'
  <2>1. state \in {"none", "active", "past_due", "revoked"}
    BY SMT DEF EventTypes
  <2>2. polar' \in [Subs -> [state : {"none", "active", "past_due", "revoked"},
                             until : 0 .. Periods + 1, binding : Bindings]]
    BY <1>0, <1>1, <1>3, <2>1 DEF TypeOK
  <2>3. recorded' \subseteq 1 .. Len(feed') /\ Len(feed') <= MaxEvents
    BY <1>0, <1>3, <1>4, EntitlementAssumption, SMT DEF TypeOK, billingVars
  <2> QED BY <1>0, <1>3, <1>4, <2>2, <2>3 DEF TypeOK, billingVars
<1>6. \A e \in recorded : e \in 1 .. Len(feed) /\ feed'[e] = feed[e]
  BY <1>0, <1>4 DEF TypeOK
<1>7. /\ \A t : RevocationRecorded(t)' <=> RevocationRecorded(t)
      /\ \A t : Paid(t)' = Paid(t)
  BY <1>3, <1>6 DEF RevocationRecorded, Paid, SubOf, billingVars
<1>8. ASSUME NEW e \in Events, tx[e] # "idle" PROVE e \in 1 .. Len(feed) /\ feed'[e] = feed[e]
  <2>1. e \in 1 .. Len(feed)
    BY <1>0, <1>8, SMT DEF Inv, TxMatches, Events
  <2> QED BY <1>4, <2>1
<1>9. TxMatches'
  BY <1>0, <1>3, <1>4, <1>8, SMT DEF Inv, TxMatches, PastCheck, billingVars
<1>10. NoStaleActivation'
  <2> SUFFICES ASSUME NEW e \in Events, tx[e] \in PastCheck
               PROVE  ~RevocationRecorded(SubOf(e))' \/ SubOf(e)' \in overtaken
    BY <1>3 DEF NoStaleActivation, billingVars
  <2>1. SubOf(e)' = SubOf(e) BY <1>8 DEF SubOf, PastCheck
  <2>2. ~RevocationRecorded(SubOf(e)) \/ SubOf(e) \in overtaken BY DEF Inv, NoStaleActivation
  <2>3. RevocationRecorded(SubOf(e))' <=> \E f \in recorded : feed[f].type = "revoked" /\ SubOf(f) = SubOf(e)
    BY <1>3, <1>6, <2>1 DEF RevocationRecorded, SubOf, billingVars
  <2> QED BY <2>1, <2>2, <2>3 DEF RevocationRecorded
<1>11. FeedFinal'
  <2> SUFFICES ASSUME NEW f \in 1 .. Len(feed'), feed'[f].type = "revoked"
               PROVE  /\ polar'[feed'[f].sub].state = "revoked"
                      /\ \A e \in 1 .. Len(feed') : feed'[e].sub = feed'[f].sub => e <= f
    BY DEF FeedFinal
  <2>1. CASE f = Len(feed) + 1
    <3>1. feed'[f] = new /\ type = "revoked" /\ state = "revoked"
      BY <1>2, <1>4, <2>1
    <3>2. polar'[s].state = "revoked" BY <1>0, <1>3, <3>1 DEF TypeOK
    <3> QED BY <1>0, <1>2, <1>4, <2>1, <3>1, <3>2, SMT
  <2>2. CASE f # Len(feed) + 1
    <3>1. f \in 1 .. Len(feed) BY <1>0, <1>4, <2>2, SMT
    <3>2. feed'[f] = feed[f] /\ feed[f].type = "revoked" BY <1>4, <3>1
    <3>3. polar[feed[f].sub].state = "revoked" BY <3>1, <3>2 DEF Inv, FeedFinal
    <3>4. feed[f].sub # s
      <4>1. polar[s].state # "revoked"
        BY <1>3 DEF Follows, EventTypes
      <4> QED BY <3>3, <4>1
    <3>5. polar'[feed[f].sub].state = "revoked" BY <1>0, <1>3, <3>3, <3>4 DEF TypeOK
    <3>6. ASSUME NEW e \in 1 .. Len(feed'), feed'[e].sub = feed[f].sub PROVE e <= f
      <4>1. e # Len(feed) + 1 BY <1>2, <1>4, <3>4, <3>6
      <4>2. e \in 1 .. Len(feed) BY <1>0, <1>4, <4>1, SMT
      <4>3. feed[e].sub = feed[f].sub BY <1>4, <3>6, <4>2
      <4> QED BY <3>1, <3>2, <4>2, <4>3 DEF Inv, FeedFinal
    <3> QED BY <3>2, <3>5, <3>6
  <2> QED BY <2>1, <2>2
<1>12. RevokedStaysOff' /\ RowsBounded' /\ Holds'
  BY <1>3, <1>7 DEF Inv, RevokedStaysOff, RowsBounded, Holds, billingVars
<1>13. NotOversold' BY <1>3, <1>7, SameCounts DEF Inv
<1> QED BY <1>5, <1>9, <1>10, <1>11, <1>12, <1>13 DEF Inv

\* The owner bans the customer, or lifts the ban.
LEMMA SetStandingInv ==
  ASSUME Inv, NEW status \in Standings, SetStanding(status)
  PROVE  Inv'
<1> USE DEF SetStanding, billingVars
<1>1. TypeOK' BY DEF Inv, TypeOK
<1>2. TxMatches' /\ NoStaleActivation'
  BY DEF Inv, TxMatches, NoStaleActivation, RevocationRecorded, SubOf
<1> QED BY <1>1, <1>2, RowsKept DEF Inv

\* The owner grants a package: nobody holds an output of a row that was not there.
LEMMA OwnerGrantInv ==
  ASSUME Inv, NEW g \in Grants, OwnerGrant(g)
  PROVE  Inv'
<1> DEFINE new == FilledRow(Never)
<1>0. TypeOK /\ g \in Rows /\ g \notin Subs /\ Outputs \in Nat
  BY EntitlementAssumption DEF Inv, Rows
<1>1. /\ row' = [row EXCEPT ![g] = new] /\ row[g].status = "none" /\ profile' = "professional"
      /\ UNCHANGED <<now, polar, standing, feed, billingVars, req, faults>>
  BY DEF OwnerGrant
<1>2. /\ new \in Row /\ new.status = "active" /\ new.remaining = Outputs /\ new.total = Outputs
  BY EntitlementAssumption, SMT DEF FilledRow, Row, Never
<1> HIDE DEF new
<1>3. row' \in [Rows -> Row] /\ row'[g] = new /\ \A r \in Rows \ {g} : row'[r] = row[r]
  BY <1>0, <1>1, <1>2 DEF TypeOK
<1>4. TypeOK' BY <1>0, <1>1, <1>3 DEF TypeOK, billingVars, Plans
<1>5. TxMatches' /\ FeedFinal' BY <1>1 DEF Inv, TxMatches, FeedFinal, billingVars
<1>6. \A s : RevocationRecorded(s)' = RevocationRecorded(s) /\ Paid(s)' = Paid(s)
  BY <1>1 DEF RevocationRecorded, SubOf, Paid, billingVars
<1>7. NoStaleActivation' BY <1>1, <1>6 DEF Inv, NoStaleActivation, SubOf, billingVars
<1>8. RevokedStaysOff'
  BY <1>0, <1>1, <1>3, <1>6 DEF Inv, RevokedStaysOff, Rows, billingVars
<1>9. RowsBounded' BY <1>0, <1>2, <1>3, SMT DEF Inv, RowsBounded
<1>10. Holds' BY <1>1, <1>2, <1>3 DEF Inv, Holds
<1>11. NotOversold'
  <2>1. \A r : Charged(r)' = Charged(r) BY <1>1 DEF Charged
  <2>2. Charged(g) = {}
    BY <1>0, <1>1, EntitlementAssumption DEF Inv, Holds, Charged
  <2>3. Cardinality(Charged(g)') + row'[g].remaining <= Outputs
    BY <1>0, <1>2, <1>3, <2>1, <2>2, FS_EmptySet, SMT
  <2>4. \A r \in Rows \ {g} : row'[r].remaining = row[r].remaining BY <1>3
  <2> QED BY <1>0, <1>6, <2>1, <2>3, <2>4 DEF Inv, NotOversold, Rows
<1> QED BY <1>4, <1>5, <1>7, <1>8, <1>9, <1>10, <1>11 DEF Inv

\* The process dies: transactions are rolled back, reservations stay.
LEMMA CrashInv == ASSUME Inv, Crash PROVE Inv'
<1>0. TypeOK BY DEF Inv
<1>1. /\ tx' = [e \in Events |-> "idle"] /\ plan' = [e \in Events |-> "free"]
      /\ UNCHANGED <<now, polar, standing, feed, recorded, overtaken, row, profile>>
      /\ faults' \in 0 .. MaxFaults
  BY <1>0, EntitlementAssumption, SMT DEF Crash, TypeOK
<1>2. ASSUME NEW q \in Requests
      PROVE  /\ req'[q] \in [at : RequestSteps, row : Rows \cup {NoRow}]
             /\ req'[q].row = req[q].row
             /\ req'[q].at \in {"new", "admitted"} <=> req[q].at \in {"new", "admitted"}
  <2>1. req[q] \in [at : RequestSteps, row : Rows \cup {NoRow}] BY <1>0 DEF TypeOK
  <2>2. CASE req[q].at \in Holding
    <3> DEFINE lost == [req[q] EXCEPT !.at = "lost"]
    <3> HIDE DEF lost
    <3>a. req[q].at # "admitted" BY <2>2, SMT DEF Holding
    <3>b. req' = [p \in Requests |-> CASE req[p].at \in Holding -> [req[p] EXCEPT !.at = "lost"]
                                       [] req[p].at = "admitted" -> AtStart
                                       [] OTHER -> req[p]]
      BY DEF Crash
    <3>c. req'[q] = CASE req[q].at \in Holding -> lost
                      [] req[q].at = "admitted" -> AtStart
                      [] OTHER -> req[q]
      BY <3>b DEF lost
    <3>d. req'[q] = lost BY <2>2, <3>a, <3>c
    <3>1. req'[q] = [req[q] EXCEPT !.at = "lost"] BY <3>d DEF lost
    <3>2. "lost" \in RequestSteps /\ "lost" \notin {"new", "admitted"} BY SMT DEF RequestSteps
    <3>3. req'[q].at = "lost" /\ req'[q].row = req[q].row
          /\ req'[q] \in [at : RequestSteps, row : Rows \cup {NoRow}]
      BY <2>1, <3>1, <3>2
    <3> QED BY <2>2, <3>2, <3>3, SMT DEF Holding
  <2>3. CASE req[q].at = "admitted"
    <3>1. req'[q] = AtStart BY <2>3, SMT DEF Crash, Holding
    <3>2. req[q].row = NoRow BY <2>3 DEF Inv, Holds
    <3> QED BY <2>3, <3>1, <3>2, SMT DEF AtStart, RequestSteps
  <2>4. CASE req[q].at \notin Holding /\ req[q].at # "admitted"
    <3>1. req'[q] = req[q] BY <2>4 DEF Crash
    <3> QED BY <2>1, <3>1
  <2> QED BY <2>2, <2>3, <2>4
<1>3. req' = [q \in Requests |-> req'[q]] BY DEF Crash
<1>4. TypeOK'
  <2>1. req' \in [Requests -> [at : RequestSteps, row : Rows \cup {NoRow}]] BY <1>2, <1>3
  <2>2. tx' \in [Events -> TxSteps] /\ plan' \in [Events -> Plans]
    BY <1>1 DEF TxSteps, Plans
  <2> QED BY <1>0, <1>1, <2>1, <2>2 DEF TypeOK
<1>5. TxMatches' /\ NoStaleActivation'
  BY <1>1, SMT DEF TxMatches, NoStaleActivation, PastCheck
<1>6. FeedFinal' /\ RowsBounded' BY <1>1 DEF Inv, FeedFinal, RowsBounded
<1>7. RevokedStaysOff' BY <1>1 DEF Inv, RevokedStaysOff, RevocationRecorded, SubOf
<1>8. Holds' BY <1>1, <1>2 DEF Inv, Holds
<1>9. NotOversold'
  <2>1. \A s \in Subs : Paid(s)' = Paid(s) BY <1>1 DEF Paid, SubOf
  <2> QED BY <1>1, <1>2, <2>1, SameCounts DEF Inv
<1> QED BY <1>4, <1>5, <1>6, <1>7, <1>8, <1>9 DEF Inv

-----------------------------------------------------------------------------
\* Every step keeps the invariant.
LEMMA NextInv == Inv /\ [Next]_vars => Inv'
<1> SUFFICES ASSUME Inv, [Next]_vars PROVE Inv' OBVIOUS
<1>1. ASSUME NEW e \in 1 .. Len(feed), Begin(e) \/ WebhookStep(e) \/ Abort(e) PROVE Inv'
  BY <1>1, TxStepInv, CommitInv, FillInv DEF WebhookStep
<1>2. ASSUME NEW q \in Requests, RequestStep(q) PROVE Inv'
  BY <1>2, RequestStepInv, OutputMoves DEF RequestStep
<1>3. CASE UNCHANGED vars
  <2> USE <1>3 DEF vars, billingVars
  <2>1. TypeOK' BY DEF Inv, TypeOK
  <2>2. TxMatches' /\ NoStaleActivation'
    BY DEF Inv, TxMatches, NoStaleActivation, RevocationRecorded, SubOf
  <2> QED BY <2>1, <2>2, RowsKept DEF Inv
<1> QED BY <1>1, <1>2, <1>3, TickInv, CrashInv, EmitInv, OwnerGrantInv, SetStandingInv DEF Next

\* The invariant holds in every behaviour.
THEOREM Invariance == Spec => []Inv
BY InitInv, NextInv, PTL DEF Spec

\* No row is ever in debt, and only events that were emitted are recorded.
THEOREM EntitlementsTypeCorrect == Spec => []TypeOK
<1>1. Inv => TypeOK BY DEF Inv
<1> QED BY Invariance, <1>1, PTL

\* Webhooks, renewals, reservations, refunds and crashes never deliver, hold and
\* leave more outputs of a row than the recorded payments bought.
THEOREM OutputsArePaidFor == Spec => []NotOversold
<1>1. Inv => NotOversold BY DEF Inv
<1> QED BY Invariance, <1>1, PTL

\* reservePremiumOutput and its refund keep a row within one package.
THEOREM RefundsAreBounded == Spec => []WithinPackage
<1>1. Inv => WithinPackage
  <2> SUFFICES ASSUME Inv, NEW r \in Rows PROVE row[r].remaining <= Outputs
    BY DEF WithinPackage
  <2>1. row[r].remaining \in Nat /\ row[r].total \in Nat
    BY SMT DEF Inv, TypeOK, Row
  <2> QED BY <2>1, EntitlementAssumption, SMT DEF Inv, RowsBounded
<1> QED BY Invariance, <1>1, PTL

\* PolarWebhook keeps a revoked subscription off, unless the activation was past
\* its check when the revocation committed.
THEOREM RevocationsHold == Spec => []RevokedStaysOff
<1>1. Inv => RevokedStaysOff BY DEF Inv
<1> QED BY Invariance, <1>1, PTL
=============================================================================
