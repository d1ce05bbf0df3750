---------------------------- MODULE Entitlements ----------------------------
(***************************************************************************)
(* Paid access of one customer: the subscriptions a payment provider sells *)
(* him (Polar), the signed webhooks that report on them                    *)
(* (handlers/polar_billing.go), the entitlement rows they fill             *)
(* (handlers/payments.go), and the requests that spend their outputs       *)
(* (handlers/plan_access.go, handlers/credits_reservation.go).             *)
(*                                                                         *)
(* A webhook is one transaction at READ COMMITTED.  Its reads are steps of *)
(* their own; its writes become visible together, at the commit, and only  *)
(* a revocation keeps a row locked between its write and its commit.       *)
(***************************************************************************)
EXTENDS Naturals, Sequences, FiniteSets

CONSTANTS Subs,          \* Polar subscriptions, each with its own row
          Grants,        \* packages the owner grants by hand, each with its own row
          Requests,      \* requests to the routes that spend an output
          InnerChecked,  \* those whose handler calls requirePremiumOutput itself
          NoRow,
          Outputs,       \* outputs of the package
          Periods,       \* bound on the billing periods, for model checking only
          MaxEvents,     \* bound on the provider's events
          MaxFaults      \* bound on crashes and failing statements

Rows == Subs \cup Grants
Events == 1 .. MaxEvents
Never == Periods + 2     \* expires_at is NULL

ASSUME EntitlementAssumption ==
  /\ NoRow \notin Rows /\ Subs \cap Grants = {}
  /\ InnerChecked \subseteq Requests /\ IsFiniteSet(Requests)
  /\ Outputs \in Nat \ {0} /\ Periods \in Nat /\ MaxEvents \in Nat /\ MaxFaults \in Nat

VARIABLES
  now,        \* the billing period it is
  polar,      \* external: each subscription at the provider, until when it is paid,
              \* and whether its metadata binds it to the customer and to the plan
  standing,   \* app_user_profiles.status of the customer the metadata names
  feed,       \* external: the events the provider has emitted, oldest first
  recorded,   \* billing_provider_events: the events whose transaction committed
  tx,         \* where the transaction of each event is
  plan,       \* the profile plan a revocation has computed
  row,        \* entitlements
  profile,    \* app_user_profiles.plan_id
  req,        \* each request, and the row it has reserved an output of
  overtaken,  \* history: subscriptions revoked while an activation was past its check
  faults

billingVars == <<recorded, tx, plan, overtaken>>
vars == <<now, polar, standing, feed, billingVars, row, profile, req, faults>>

-----------------------------------------------------------------------------
EventTypes == {"active", "cycle", "past_due", "revoked"}
Bindings == {"complete", "missing", "mismatched"}
Standings == {"active", "disabled"}   \* banned and removed read alike
\* live: the subscription in the payload is active.
Event == [type : EventTypes, sub : Subs, end : Nat, live : BOOLEAN]
TxSteps == {"idle", "ledger", "bound", "clear", "found", "absent", "revoking"}
Plans == {"free", "professional"}
Row == [status : {"none", "active", "inactive"}, remaining : Nat, total : Nat, expires : Nat]
Holding == {"reserved", "working", "refunding"}
RequestSteps == {"new", "admitted", "delivered", "lost"} \cup Holding

NewRow == [status |-> "none", remaining |-> 0, total |-> 0, expires |-> 0]
FilledRow(end) == [status |-> "active", remaining |-> Outputs, total |-> Outputs, expires |-> end]
AtStart == [at |-> "new", row |-> NoRow]

\* The customer has signed up: his profile exists, with the free row, which
\* holds no outputs and never expires.
Init ==
  /\ now = 0
  /\ \E b \in [Subs -> Bindings] :
       polar = [s \in Subs |-> [state |-> "none", until |-> 0, binding |-> b[s]]]
  /\ standing = "active"
  /\ feed = <<>>
  /\ recorded = {} /\ overtaken = {}
  /\ tx = [e \in Events |-> "idle"] /\ plan = [e \in Events |-> "free"]
  /\ row = [r \in Rows |-> NewRow]
  /\ profile = "free"
  /\ req = [q \in Requests |-> AtStart]
  /\ faults = 0

Tick ==
  /\ now < Periods
  /\ now' = now + 1
  /\ UNCHANGED <<polar, standing, feed, billingVars, row, profile, req, faults>>

-----------------------------------------------------------------------------
(***************************************************************************)
(* The provider (external).  A subscription becomes active once paid, and  *)
(* again when a missed payment is made up for; every period paid for is an *)
(* order with billing_reason subscription_cycle; revocation is final.  The *)
(* payload need not say that the subscription is active.                   *)
(***************************************************************************)
Follows(type, s) ==
  CASE type = "active" -> polar[s].state \in {"none", "past_due"}
    [] type = "cycle" -> polar[s].state = "active" /\ now >= polar[s].until
    [] type = "past_due" -> polar[s].state = "active"
    [] type = "revoked" -> polar[s].state \in {"active", "past_due"}

Emit(type, s, live) ==
  LET end == IF type \in {"active", "cycle"} THEN now + 1 ELSE polar[s].until IN
  /\ Len(feed) < MaxEvents
  /\ Follows(type, s)
  /\ live => type \in {"active", "cycle"}
  /\ polar' = [polar EXCEPT ![s] = [state |-> IF type = "cycle" THEN "active" ELSE type,
                                    until |-> end, binding |-> polar[s].binding]]
  /\ feed' = Append(feed, [type |-> type, sub |-> s, end |-> end, live |-> live])
  /\ UNCHANGED <<now, standing, billingVars, row, profile, req, faults>>

-----------------------------------------------------------------------------
(***************************************************************************)
(* PolarWebhook.  An event is delivered until it is answered with 200, and *)
(* perhaps again after that; different events are served concurrently.     *)
(***************************************************************************)
Emitted(e) == e <= Len(feed)
SubOf(e) == feed[e].sub

\* The row is written by a revocation that has not committed.
Locked(r) == \E e \in 1 .. Len(feed) : tx[e] = "revoking" /\ SubOf(e) = r

\* A mutant of Unseen: the conflict on the identity is not looked at.
Unseen_Always(e) == TRUE

\* The INSERT of the event's identity was a new one.
Unseen(e) == e \notin recorded

\* An event of a product that is not the plan of the metadata is refused before
\* any transaction, whatever its type.
Begin(e) ==
  /\ tx[e] = "idle" /\ Unseen(e)
  /\ polar[SubOf(e)].binding # "mismatched"
  /\ tx' = [tx EXCEPT ![e] = "ledger"]
  /\ UNCHANGED <<now, polar, standing, feed, recorded, plan, overtaken, row, profile, req, faults>>

\* The transaction commits, with what it has written.
Commit(e) ==
  /\ recorded' = recorded \cup {e}
  /\ tx' = [tx EXCEPT ![e] = "idle"] /\ plan' = [plan EXCEPT ![e] = "free"]
  /\ UNCHANGED <<now, polar, standing, feed, req, faults>>

\* The transaction is rolled back and the delivery answered with an error.
Rollback(e) ==
  /\ tx' = [tx EXCEPT ![e] = "idle"] /\ plan' = [plan EXCEPT ![e] = "free"]
  /\ UNCHANGED <<now, polar, standing, feed, recorded, overtaken, row, profile, req>>

\* requiresSubscriptionBinding
NeedsBinding(e) == feed[e].type # "past_due"

\* subscription_binding_missing, or subscription_customer_binding_mismatch: the
\* customer's profile is not active.
BindingRefused(e) ==
  /\ tx[e] = "ledger" /\ NeedsBinding(e)
  /\ polar[SubOf(e)].binding # "complete" \/ standing # "active"
  /\ Rollback(e)
  /\ UNCHANGED faults

Bind(e) ==
  /\ tx[e] = "ledger" /\ NeedsBinding(e)
  /\ polar[SubOf(e)].binding = "complete" /\ standing = "active"
  /\ tx' = [tx EXCEPT ![e] = "bound"]
  /\ UNCHANGED <<now, polar, standing, feed, recorded, plan, overtaken, row, profile, req, faults>>

Bound(e, type) == tx[e] = "bound" /\ feed[e].type = type

\* subscription_not_active, renewal_subscription_not_active
InactiveRefused(e) ==
  /\ Bound(e, "active") \/ Bound(e, "cycle")
  /\ ~feed[e].live
  /\ Rollback(e)
  /\ UNCHANGED faults

\* A mutant of NewerRevocation: an activation is applied whenever it comes.
NewerRevocation_Ignored(e) == FALSE

NewerRevocation(e) ==
  \E f \in recorded : feed[f].type = "revoked" /\ SubOf(f) = SubOf(e) /\ f >= e

\* A mutant of Suppress: the handler returns without the commit.
Suppress_Uncommitted(e) ==
  /\ Bound(e, "active") /\ feed[e].live /\ NewerRevocation(e)
  /\ Rollback(e)
  /\ UNCHANGED faults

Suppress(e) ==
  /\ Bound(e, "active") /\ feed[e].live /\ NewerRevocation(e)
  /\ Commit(e)
  /\ UNCHANGED <<overtaken, row, profile>>

PassCheck(e) ==
  /\ Bound(e, "active") /\ feed[e].live /\ ~NewerRevocation(e)
  /\ tx' = [tx EXCEPT ![e] = "clear"]
  /\ UNCHANGED <<now, polar, standing, feed, recorded, plan, overtaken, row, profile, req, faults>>

\* activatePackageEntitlementDetailedTx: the row of the subscription, if any.
Lookup(e) ==
  /\ tx[e] = "clear"
  /\ tx' = [tx EXCEPT ![e] = IF row[SubOf(e)].status = "none" THEN "absent" ELSE "found"]
  /\ UNCHANGED <<now, polar, standing, feed, recorded, plan, overtaken, row, profile, req, faults>>

\* GREATEST of the old numbers and the package's, which bounds both.
Reactivate(e) ==
  /\ tx[e] = "found" /\ ~Locked(SubOf(e))
  /\ row' = [row EXCEPT ![SubOf(e)] = FilledRow(feed[e].end)]
  /\ Commit(e)
  /\ UNCHANGED <<overtaken, profile>>

InsertRow(e) ==
  /\ tx[e] = "absent" /\ row[SubOf(e)].status = "none"
  /\ row' = [row EXCEPT ![SubOf(e)] = FilledRow(feed[e].end)]
  /\ profile' = "professional"
  /\ Commit(e)
  /\ UNCHANGED overtaken

\* The unique index on the subscription's identity refuses a second row.
InsertRefused(e) ==
  /\ tx[e] = "absent" /\ row[SubOf(e)].status # "none"
  /\ Rollback(e)
  /\ UNCHANGED faults

\* refreshPackageEntitlementPeriodTx, for an active row only.
Refresh(e) ==
  /\ Bound(e, "cycle") /\ feed[e].live /\ ~Locked(SubOf(e))
  /\ row[SubOf(e)].status = "active"
  /\ row' = [row EXCEPT ![SubOf(e)] = FilledRow(feed[e].end)]
  /\ Commit(e)
  /\ UNCHANGED <<overtaken, profile>>

RefreshRefused(e) ==
  /\ Bound(e, "cycle") /\ feed[e].live /\ ~Locked(SubOf(e))
  /\ row[SubOf(e)].status # "active"
  /\ Rollback(e)
  /\ UNCHANGED faults

Usable(r) == row[r].status = "active" /\ row[r].expires > now

\* Activations of s that have passed their check and not committed.
Activating(s) ==
  \E e \in 1 .. Len(feed) : tx[e] \in {"clear", "found", "absent"} /\ SubOf(e) = s

\* revokePackageEntitlementDetailedTx writes the row, then reads the plan of
\* the most recently updated of the others.  updated_at is the start of the
\* transaction that wrote last, so it can be any of them, the free row too.
RevokeRow(e) ==
  /\ Bound(e, "revoked") /\ row[SubOf(e)].status = "active" /\ ~Locked(SubOf(e))
  /\ tx' = [tx EXCEPT ![e] = "revoking"]
  /\ \E p \in {"free"} \cup {"professional" : r \in {r \in Rows \ {SubOf(e)} : Usable(r)}} :
       plan' = [plan EXCEPT ![e] = p]
  /\ UNCHANGED <<now, polar, standing, feed, recorded, overtaken, row, profile, req, faults>>

Overtake(e) ==
  overtaken' = IF Activating(SubOf(e)) THEN overtaken \cup {SubOf(e)} ELSE overtaken

CommitRevoke(e) ==
  /\ tx[e] = "revoking"
  /\ row' = [row EXCEPT ![SubOf(e)].status = "inactive",
                        ![SubOf(e)].expires = IF @ < now THEN @ ELSE now]
  /\ profile' = plan[e]
  /\ Overtake(e) /\ Commit(e)

RevokeNothing(e) ==
  /\ Bound(e, "revoked") /\ row[SubOf(e)].status # "active"
  /\ Overtake(e) /\ Commit(e)
  /\ UNCHANGED <<row, profile>>

\* Events that are only recorded.
RecordOnly(e) ==
  /\ tx[e] = "ledger" /\ ~NeedsBinding(e)
  /\ Commit(e)
  /\ UNCHANGED <<overtaken, row, profile>>

\* A statement or the commit fails.
Abort(e) ==
  /\ tx[e] # "idle" /\ faults < MaxFaults
  /\ Rollback(e)
  /\ faults' = faults + 1

\* ownerChangePackage: a new payment identity, no date of expiry.
OwnerGrant(g) ==
  /\ row[g].status = "none"
  /\ row' = [row EXCEPT ![g] = FilledRow(Never)]
  /\ profile' = "professional"
  /\ UNCHANGED <<now, polar, standing, feed, billingVars, req, faults>>

\* OwnerBanUser, OwnerRemoveUser, ownerSetUserStatus: a ban, and its end.
SetStanding(status) ==
  /\ standing' = status /\ standing # status
  /\ UNCHANGED <<now, polar, feed, billingVars, row, profile, req, faults>>

-----------------------------------------------------------------------------
(***************************************************************************)
(* A request: RequirePlanTier, EnforcePlanOutput, the handler, the refund. *)
(***************************************************************************)
Move(q, at, r) == req' = [req EXCEPT ![q] = [at |-> at, row |-> r]]

\* A request that is not admitted, and one that finds no outputs, is answered
\* and may be made again.
Admit(q) ==
  /\ req[q].at = "new" /\ \E r \in Rows : Usable(r)
  /\ Move(q, "admitted", NoRow)
  /\ UNCHANGED <<now, polar, standing, feed, billingVars, row, profile, faults>>

\* A mutant of Spendable: outputs_remaining is not looked at.
Spendable_Any == {r \in Rows : Usable(r)}

Spendable == {r \in Rows : Usable(r) /\ row[r].remaining > 0}
Fullest == {r \in Spendable : \A s \in Spendable : row[s].remaining <= row[r].remaining}

\* reservePremiumOutput, one statement on the row with the most outputs.
Reserve(q) ==
  /\ req[q].at = "admitted"
  /\ \E r \in Fullest :
       /\ ~Locked(r)
       /\ row' = [row EXCEPT ![r].remaining = @ - 1]
       /\ Move(q, IF q \in InnerChecked THEN "reserved" ELSE "working", r)
  /\ UNCHANGED <<now, polar, standing, feed, billingVars, profile, faults>>

\* No row qualifies, or the one it waits for will not once it is unlocked.
Exhausted(q) ==
  /\ req[q].at = "admitted"
  /\ Spendable = {} \/ \E r \in Fullest : Locked(r)
  /\ Move(q, "new", NoRow)
  /\ UNCHANGED <<now, polar, standing, feed, billingVars, row, profile, faults>>

\* requirePremiumOutput asks the usable row updated last for one more output.
Preflight(q) ==
  /\ req[q].at = "reserved"
  /\ \/ \E r \in Rows : Usable(r) /\ row[r].remaining > 0 /\ Move(q, "working", req[q].row)
     \/ \E r \in Rows : Usable(r) /\ row[r].remaining = 0 /\ Move(q, "refunding", req[q].row)
     \/ (\A r \in Rows : ~Usable(r)) /\ Move(q, "refunding", req[q].row)
  /\ UNCHANGED <<now, polar, standing, feed, billingVars, row, profile, faults>>

\* shouldConsumeQuota on the answer; a panic is a refund too.
Respond(q, charged) ==
  /\ req[q].at = "working"
  /\ Move(q, IF charged THEN "delivered" ELSE "refunding", req[q].row)
  /\ UNCHANGED <<now, polar, standing, feed, billingVars, row, profile, faults>>

\* A mutant of Refunded: without the bound.
Refunded_Unbounded(r) == row[r].remaining + 1

\* LEAST(outputs_remaining + 1, outputs_total)
Refunded(r) == IF row[r].remaining < row[r].total THEN row[r].remaining + 1 ELSE row[r].total

Refund(q) ==
  /\ req[q].at = "refunding" /\ ~Locked(req[q].row)
  /\ row' = [row EXCEPT ![req[q].row].remaining = Refunded(req[q].row)]
  /\ Move(q, "new", NoRow)
  /\ UNCHANGED <<now, polar, standing, feed, billingVars, profile, faults>>

\* The error of the refund is dropped.
RefundFails(q) ==
  /\ req[q].at = "refunding" /\ faults < MaxFaults
  /\ Move(q, "lost", req[q].row)
  /\ faults' = faults + 1
  /\ UNCHANGED <<now, polar, standing, feed, billingVars, row, profile>>

\* The process dies: transactions are rolled back, reservations are committed.
Crash ==
  /\ faults < MaxFaults
  /\ \/ \E e \in Events : tx[e] # "idle"
     \/ \E q \in Requests : req[q].at \in Holding
  /\ tx' = [e \in Events |-> "idle"] /\ plan' = [e \in Events |-> "free"]
  /\ req' = [q \in Requests |-> CASE req[q].at \in Holding -> [req[q] EXCEPT !.at = "lost"]
                                  [] req[q].at = "admitted" -> AtStart
                                  [] OTHER -> req[q]]
  /\ faults' = faults + 1
  /\ UNCHANGED <<now, polar, standing, feed, recorded, overtaken, row, profile>>

-----------------------------------------------------------------------------
WebhookStep(e) ==
  \/ BindingRefused(e) \/ Bind(e) \/ InactiveRefused(e)
  \/ Suppress(e) \/ PassCheck(e) \/ Lookup(e) \/ Reactivate(e) \/ InsertRow(e) \/ InsertRefused(e)
  \/ Refresh(e) \/ RefreshRefused(e) \/ RevokeRow(e) \/ CommitRevoke(e) \/ RevokeNothing(e)
  \/ RecordOnly(e)

RequestStep(q) ==
  \/ Admit(q) \/ Reserve(q) \/ Exhausted(q) \/ Preflight(q) \/ Refund(q) \/ RefundFails(q)
  \/ \E charged \in BOOLEAN : Respond(q, charged)

Next ==
  \/ Tick \/ Crash
  \/ \E type \in EventTypes, s \in Subs, live \in BOOLEAN : Emit(type, s, live)
  \/ \E e \in 1 .. Len(feed) : Begin(e) \/ WebhookStep(e) \/ Abort(e)
  \/ \E g \in Grants : OwnerGrant(g)
  \/ \E status \in Standings : SetStanding(status)
  \/ \E q \in Requests : RequestStep(q)

Spec == Init /\ [][Next]_vars

\* The provider delivers until it is answered, and a handler ends.
FairSpec ==
  /\ Spec
  /\ \A e \in Events : WF_vars(Emitted(e) /\ Begin(e)) /\ WF_vars(Emitted(e) /\ WebhookStep(e))

-----------------------------------------------------------------------------
\* What the variables range over: no row is ever in debt, and only events that
\* were emitted are recorded.
TypeOK ==
  /\ now \in 0 .. Periods
  /\ polar \in [Subs -> [state : {"none", "active", "past_due", "revoked"},
                         until : 0 .. Periods + 1, binding : Bindings]]
  /\ standing \in Standings
  /\ feed \in Seq(Event) /\ Len(feed) <= MaxEvents
  /\ recorded \subseteq 1 .. Len(feed) /\ overtaken \subseteq Subs
  /\ tx \in [Events -> TxSteps] /\ plan \in [Events -> Plans]
  /\ row \in [Rows -> Row]
  /\ profile \in Plans
  /\ req \in [Requests -> [at : RequestSteps, row : Rows \cup {NoRow}]]
  /\ faults \in 0 .. MaxFaults

\* Requests that have had an output of the row, or hold one.
Charged(r) == {q \in Requests : req[q].row = r}

\* Recorded events that filled the row of a subscription.
Paid(s) == {e \in recorded : SubOf(e) = s /\ feed[e].type \in {"active", "cycle"}}

\* Whatever webhooks, renewals, requests, refunds and crashes overlap, the
\* outputs of a row delivered, reserved and left are never more than the
\* recorded payments bought (a package each), or than the one package of a grant.
NotOversold ==
  /\ \A s \in Subs : Cardinality(Charged(s)) + row[s].remaining <= Outputs * Cardinality(Paid(s))
  /\ \A g \in Grants : Cardinality(Charged(g)) + row[g].remaining <= Outputs

\* A refund that arrives after the period was renewed adds nothing: a row never
\* holds more than one package.
WithinPackage == \A r \in Rows : row[r].remaining <= Outputs

RevocationRecorded(s) == \E e \in recorded : feed[e].type = "revoked" /\ SubOf(e) = s

\* Events in any order, repeated or delayed: once a revocation is recorded, no
\* activation turns the row on again, except one that was past its check when
\* the revocation committed.
RevokedStaysOff ==
  \A s \in Subs : RevocationRecorded(s) /\ s \notin overtaken => row[s].status # "active"

\* An older subscription.active never re-enables access after a newer or equal
\* recorded revocation (PolarWebhook).
RevocationFinal == \A s \in Subs : RevocationRecorded(s) => row[s].status # "active"

\* The handler refuses the event whenever it is delivered: the metadata does not
\* bind it to a customer and plan, the payload says the subscription is not
\* active, or it renews a subscription that is revoked or was never accepted.
Unacceptable(e) ==
  \/ polar[SubOf(e)].binding = "mismatched"
  \/ polar[SubOf(e)].binding = "missing" /\ NeedsBinding(e)
  \/ feed[e].type \in {"active", "cycle"} /\ ~feed[e].live
  \/ /\ feed[e].type = "cycle"
     /\ \/ polar[SubOf(e)].state = "revoked"
        \/ \A f \in 1 .. Len(feed) :
             SubOf(f) = SubOf(e) /\ feed[f].type = "active" => ~feed[f].live

\* Every event the provider emits is eventually recorded, however often it is
\* answered with an error first, unless the handler refuses it for good; the
\* revocation of a customer who is banned waits until the ban is lifted.
EventsSettle ==
  <>[](standing = "active") =>
    \A e \in Events : Emitted(e) ~> e \in recorded \/ (Emitted(e) /\ Unacceptable(e))

\* A request that has reserved an output of a row that is still usable is not
\* turned away before its handler has done its work (EnforcePlanOutput owns the
\* output, the handler's own check comes after it).
ReservationHonoured ==
  [][\A q \in Requests :
       req[q].at = "reserved" /\ Usable(req[q].row) => req'[q].at # "refunding"]_vars
=============================================================================
