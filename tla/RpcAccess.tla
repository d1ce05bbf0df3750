----------------------------- MODULE RpcAccess -----------------------------
(***************************************************************************)
(* How the API process reaches its Solana RPC providers.  A token scan     *)
(* (web3/token_service.go) asks the cache (web3/cache.go); scans of one    *)
(* token that miss share one load (singleflight/singleflight.go); the load *)
(* makes several calls, each of which walks the providers whose circuit is *)
(* not open (web3/rpc_manager.go) and waits for a slot of the provider's   *)
(* host at the governor (web3/solana_rpc_governor.go).  The services'      *)
(* transport (services/solana_rpc_failover.go) meets the scans there.      *)
(*                                                                         *)
(* Times are kept as what remains of them.  Reading the clock and taking   *)
(* the mutex it is compared under are one step: they are nanoseconds       *)
(* apart, and the intervals are tens of milliseconds or more.              *)
(***************************************************************************)
EXTENDS Naturals, FiniteSets

CONSTANTS Scans,         \* calls of ScanToken
          Surfaces,      \* requests of the services' transport
          Keys, KeyOf,   \* cache keys, and the key of each scan
          NoScan,
          Providers,
          Priority,      \* the place of each provider in the order they are tried
          SurfaceList,   \* primary and fallback of the transport
          HostOf,        \* the host of each provider
          MaxFailures,   \* failures in a row that open a circuit
          OpenTime,      \* how long it stays open
          Interval,      \* the pace of the governor
          Pressures,     \* cooldowns that answers of status 429 ask for
          TTL,           \* lifetime of a cached result
          LoadCalls,     \* calls one load makes
          Impatient,     \* callers whose context may end before their timeout
          MaxPanics      \* bound on the loads that panic, for model checking only

Callers == Scans \cup Surfaces
Hosts == {HostOf[p] : p \in Providers}

ASSUME RpcAssumption ==
  /\ NoScan \notin Scans /\ Scans \cap Surfaces = {}
  /\ KeyOf \in [Scans -> Keys]
  /\ Priority \in [Providers -> Nat] /\ SurfaceList \subseteq Providers
  /\ {MaxFailures, OpenTime, Interval, TTL, LoadCalls} \subseteq Nat \ {0}
  /\ Pressures \subseteq Nat \ {0} /\ MaxPanics \in Nat /\ Impatient \subseteq Callers

VARIABLES
  life,      \* life[k]: remaining lifetime of the entry of k, 0 when there is none
  flight,    \* flight[k]: the scan whose call the group holds for k
  joined,    \* joined[s]: the scan whose call s waits for
  answer,    \* answer[s]: what the call of s returned
  at,        \* where each caller is
  todo,      \* todo[c]: the providers its current call has still to try
  left,      \* left[s]: the calls its load has still to make
  cancelled, \* callers whose context is done
  circuit, failures, openFor,  \* the circuit breaker of each provider
  nextIn, coolIn,              \* the governor's state of each host
  panicked,  \* keys whose load panicked
  since,     \* history: time since the last slot of each host, up to Interval
  promised,  \* history: what remains of the longest cooldown published
  hasty      \* history: hosts that gave a slot too early

cacheVars == <<life, flight, joined, answer>>
circuitVars == <<circuit, failures, openFor>>
governorVars == <<nextIn, coolIn>>
historyVars == <<since, promised, hasty>>
vars == <<cacheVars, at, todo, left, cancelled, circuitVars, governorVars,
          panicked, historyVars>>

-----------------------------------------------------------------------------
Places == {"start", "do", "wait", "again", "list", "next", "slot", "send",
           "record", "store", "finish", "dead", "done"}

Init ==
  /\ life = [k \in Keys |-> 0]
  /\ flight = [k \in Keys |-> NoScan]
  /\ joined = [s \in Scans |-> NoScan]
  /\ answer = [s \in Scans |-> "none"]
  /\ at = [c \in Callers |-> IF c \in Scans THEN "start" ELSE "next"]
  /\ todo = [c \in Callers |-> IF c \in Scans THEN {} ELSE SurfaceList]
  /\ left = [s \in Scans |-> 0]
  /\ cancelled = {} /\ panicked = {}
  /\ circuit = [p \in Providers |-> "closed"]
  /\ failures = [p \in Providers |-> 0] /\ openFor = [p \in Providers |-> 0]
  /\ nextIn = [h \in Hosts |-> 0] /\ coolIn = [h \in Hosts |-> 0]
  /\ since = [h \in Hosts |-> Interval] /\ promised = [h \in Hosts |-> 0]
  /\ hasty = {}

Larger(a, b) == IF a > b THEN a ELSE b
Go(c, place) == at' = [at EXCEPT ![c] = place]
Return(s, a) == answer' = [answer EXCEPT ![s] = a]

-----------------------------------------------------------------------------
(***************************************************************************)
(* SmartCache.GetOrLoad and Group.Do.  The call of a group is named by the *)
(* scan that made it, its leader.                                          *)
(***************************************************************************)
Fresh(k) == life[k] > 0

Hit(s) ==
  /\ at[s] = "start" /\ Fresh(KeyOf[s])
  /\ Go(s, "done") /\ Return(s, "ok")
  /\ UNCHANGED <<life, flight, joined, todo, left, cancelled, circuitVars, governorVars,
                 panicked, historyVars>>

Miss(s) ==
  /\ at[s] = "start" /\ ~Fresh(KeyOf[s])
  /\ Go(s, "do")
  /\ UNCHANGED <<cacheVars, todo, left, cancelled, circuitVars, governorVars,
                 panicked, historyVars>>

\* Do under its mutex: wait for the call of the key, or become its leader.
InFlight(k) == flight[k] # NoScan

Join(s) ==
  /\ at[s] = "do" /\ InFlight(KeyOf[s])
  /\ joined' = [joined EXCEPT ![s] = flight[KeyOf[s]]]
  /\ Go(s, "wait")
  /\ UNCHANGED <<life, flight, answer, todo, left, cancelled, circuitVars, governorVars,
                 panicked, historyVars>>

Lead(s) ==
  /\ at[s] = "do" /\ ~InFlight(KeyOf[s])
  /\ flight' = [flight EXCEPT ![KeyOf[s]] = s]
  /\ Go(s, "again")
  /\ UNCHANGED <<life, joined, answer, todo, left, cancelled, circuitVars, governorVars,
                 panicked, historyVars>>

\* A mutant of StillMissing: the leader trusts its first lookup.
StillMissing_Assumed(s) == TRUE

\* The leader looks into the cache once more before it loads.
StillMissing(s) == ~Fresh(KeyOf[s])

Recheck(s) ==
  /\ at[s] = "again"
  /\ IF StillMissing(s)
     THEN Go(s, "list") /\ left' = [left EXCEPT ![s] = LoadCalls] /\ UNCHANGED answer
     ELSE Go(s, "finish") /\ Return(s, "ok") /\ UNCHANGED left
  /\ UNCHANGED <<life, flight, joined, todo, cancelled, circuitVars, governorVars,
                 panicked, historyVars>>

Store(s) ==
  /\ at[s] = "store"
  /\ life' = [life EXCEPT ![KeyOf[s]] = TTL]
  /\ Go(s, "finish") /\ Return(s, "ok")
  /\ UNCHANGED <<flight, joined, todo, left, cancelled, circuitVars, governorVars,
                 panicked, historyVars>>

\* What is done with the answers panics: finish is never reached, and the
\* server recovers the goroutine.
Panic(s) ==
  /\ at[s] = "store" /\ Cardinality(panicked) < MaxPanics
  /\ panicked' = panicked \cup {KeyOf[s]}
  /\ Go(s, "dead")
  /\ UNCHANGED <<cacheVars, todo, left, cancelled, circuitVars, governorVars, historyVars>>

Finish(s) ==
  /\ at[s] = "finish"
  /\ flight' = [flight EXCEPT ![KeyOf[s]] = IF @ = s THEN NoScan ELSE @]
  /\ Go(s, "done")
  /\ UNCHANGED <<life, joined, answer, todo, left, cancelled, circuitVars, governorVars,
                 panicked, historyVars>>

\* A mutant of Closed: the channel is closed after a success only.
Closed_OnSuccess(s) == at[s] = "done" /\ answer[s] = "ok"

\* The channel of the call is closed; its waiters have no way out before.
Closed(s) == at[s] = "done"

Woken(s) ==
  /\ at[s] = "wait" /\ Closed(joined[s])
  /\ Go(s, "done") /\ Return(s, answer[joined[s]])
  /\ UNCHANGED <<life, flight, joined, todo, left, cancelled, circuitVars, governorVars,
                 panicked, historyVars>>

-----------------------------------------------------------------------------
(***************************************************************************)
(* RPCManager.Call and the transport's RoundTrip: the list of providers is *)
(* made once, then they are tried in turn.                                 *)
(***************************************************************************)
\* It is the turn of provider p in the call of c.
Turn(c, p) == \A q \in todo[c] : Priority[p] <= Priority[q]
NextProvider(c, p) == todo' = [todo EXCEPT ![c] = @ \ {p}] /\ Go(c, "next")

Open(p) == circuit[p] = "open" /\ openFor[p] > 0

\* availableProviders: every caller that comes after the cooldown is let in.
ListProviders(s) ==
  /\ at[s] = "list"
  /\ todo' = [todo EXCEPT ![s] = {p \in Providers : ~Open(p)}]
  /\ circuit' = [p \in Providers |-> IF circuit[p] = "open" /\ ~Open(p)
                                     THEN "half_open" ELSE circuit[p]]
  /\ Go(s, "next")
  /\ UNCHANGED <<cacheVars, left, cancelled, failures, openFor, governorVars,
                 panicked, historyVars>>

\* SolanaRPCProviderCooldown: a host under pressure is passed over.
SkipCooling(c, p) ==
  /\ at[c] = "next" /\ Turn(c, p) /\ coolIn[HostOf[p]] > 0
  /\ NextProvider(c, p)
  /\ UNCHANGED <<cacheVars, left, cancelled, circuitVars, governorVars, panicked, historyVars>>

\* It forgets the state of an idle host, which is as good as new.
AskForSlot(c, p) ==
  /\ at[c] = "next" /\ Turn(c, p) /\ coolIn[HostOf[p]] = 0
  /\ Go(c, "slot")
  /\ UNCHANGED <<cacheVars, todo, left, cancelled, circuitVars, governorVars,
                 panicked, historyVars>>

RunOut(c) ==
  /\ at[c] = "next" /\ todo[c] = {}
  /\ IF c \in Scans THEN Go(c, "finish") /\ Return(c, "error")
                    ELSE Go(c, "done") /\ UNCHANGED answer
  /\ UNCHANGED <<life, flight, joined, todo, left, cancelled, circuitVars, governorVars,
                 panicked, historyVars>>

-----------------------------------------------------------------------------
(***************************************************************************)
(* The governor: one pacing clock and one cooldown per host.               *)
(***************************************************************************)
ReadyIn(h) == Larger(nextIn[h], coolIn[h])

TakeSlot(c, p) ==
  LET h == HostOf[p] IN
  /\ at[c] = "slot" /\ Turn(c, p) /\ ReadyIn(h) = 0
  /\ nextIn' = [nextIn EXCEPT ![h] = Interval]
  /\ hasty' = IF since[h] < Interval \/ promised[h] > 0 THEN hasty \cup {h} ELSE hasty
  /\ since' = [since EXCEPT ![h] = 0]
  /\ Go(c, "send")
  /\ UNCHANGED <<cacheVars, todo, left, cancelled, circuitVars, coolIn, panicked, promised>>

\* The context ends the wait: the manager gives the call up, while the
\* transport takes it for a failure and turns to its fallback.
GiveUpSlot(c, p) ==
  /\ at[c] = "slot" /\ Turn(c, p) /\ ReadyIn(HostOf[p]) > 0 /\ c \in cancelled
  /\ IF c \in Scans THEN Go(c, "finish") /\ Return(c, "error") /\ UNCHANGED todo
                    ELSE NextProvider(c, p) /\ UNCHANGED answer
  /\ UNCHANGED <<life, flight, joined, left, cancelled, circuitVars, governorVars,
                 panicked, historyVars>>

\* A mutant of Later: the newest answer decides.
Later_Newest(old, delay) == delay

\* A cooldown is only ever prolonged.
Later(old, delay) == Larger(old, delay)

\* Status 429: DeferSolanaRPCProvider.
Throttled(c, p, delay) ==
  LET h == HostOf[p] IN
  /\ at[c] = "send" /\ Turn(c, p) /\ c \notin cancelled
  /\ coolIn' = [coolIn EXCEPT ![h] = Later(@, delay)]
  /\ nextIn' = [nextIn EXCEPT ![h] = Later(@, delay)]
  /\ promised' = [promised EXCEPT ![h] = Larger(@, delay)]
  /\ IF c \in Scans THEN Go(c, "record") /\ UNCHANGED todo ELSE NextProvider(c, p)
  /\ UNCHANGED <<cacheVars, left, cancelled, circuitVars, panicked, since, hasty>>

\* The transport returns every answer that another provider would not better.
Respond(c, p) ==
  /\ c \in Surfaces /\ at[c] = "send" /\ Turn(c, p) /\ c \notin cancelled
  /\ Go(c, "done")
  /\ UNCHANGED <<cacheVars, todo, left, cancelled, circuitVars, governorVars,
                 panicked, historyVars>>

\* A mutant of CountAfter: a success does not clear the count.
CountAfter_Sticky(p, ok) == IF ok THEN failures[p] ELSE failures[p] + 1

CountAfter(p, ok) == IF ok THEN 0 ELSE failures[p] + 1

\* recordFailure, and on to the next provider.
RecordFailure(s, p) ==
  LET trip == CountAfter(p, FALSE) >= MaxFailures \/ circuit[p] = "half_open" IN
  /\ failures' = [failures EXCEPT ![p] = CountAfter(p, FALSE)]
  /\ circuit' = [circuit EXCEPT ![p] = IF trip THEN "open" ELSE @]
  /\ openFor' = [openFor EXCEPT ![p] = IF trip THEN OpenTime ELSE @]
  /\ NextProvider(s, p)
  /\ UNCHANGED <<cacheVars, left, cancelled, governorVars, panicked, historyVars>>

\* After the cooldown is published.
RecordThrottled(s, p) == at[s] = "record" /\ Turn(s, p) /\ RecordFailure(s, p)

\* An error, a timeout, or the caller's own context: what nobody sees before it
\* is recorded.  The transport keeps no circuits.
Fail(c, p) ==
  /\ at[c] = "send" /\ Turn(c, p)
  /\ \/ c \in Scans /\ RecordFailure(c, p)
     \/ /\ c \in Surfaces /\ NextProvider(c, p)
        /\ UNCHANGED <<cacheVars, left, cancelled, circuitVars, governorVars,
                       panicked, historyVars>>

\* A mutant of LastCall: one call too many.
LastCall_OneMore(s) == left[s] = 0

LastCall(s) == left[s] = 1

\* recordSuccess, and the next call of the load.
Succeed(s, p) ==
  /\ at[s] = "send" /\ Turn(s, p) /\ s \notin cancelled
  /\ failures' = [failures EXCEPT ![p] = CountAfter(p, TRUE)]
  /\ circuit' = [circuit EXCEPT ![p] = "closed"]
  /\ openFor' = [openFor EXCEPT ![p] = 0]
  /\ left' = [left EXCEPT ![s] = @ - 1]
  /\ Go(s, IF LastCall(s) THEN "store" ELSE "list")
  /\ UNCHANGED <<cacheVars, todo, cancelled, governorVars, panicked, historyVars>>

\* The context of a caller ends.  Only the two steps that look at it are asked:
\* a context that has ended before makes no difference until then.
Cancel(c) ==
  /\ c \in Impatient \ cancelled /\ at[c] \in {"slot", "send"}
  /\ cancelled' = cancelled \cup {c}
  /\ UNCHANGED <<cacheVars, at, todo, left, circuitVars, governorVars, panicked, historyVars>>

Less(timer) == [x \in DOMAIN timer |-> IF timer[x] > 0 THEN timer[x] - 1 ELSE 0]

Tick ==
  /\ \E timer \in {life, openFor, nextIn, coolIn} : \E x \in DOMAIN timer : timer[x] > 0
  /\ life' = Less(life) /\ openFor' = Less(openFor)
  /\ nextIn' = Less(nextIn) /\ coolIn' = Less(coolIn) /\ promised' = Less(promised)
  /\ since' = [h \in Hosts |-> IF since[h] < Interval THEN since[h] + 1 ELSE Interval]
  /\ UNCHANGED <<flight, joined, answer, at, todo, left, cancelled, circuit, failures,
                 panicked, hasty>>

\* The steps with the provider whose turn it is; scans record how it went.
ProviderStep(c, p) ==
  \/ SkipCooling(c, p) \/ AskForSlot(c, p) \/ TakeSlot(c, p) \/ GiveUpSlot(c, p)
  \/ Fail(c, p) \/ Respond(c, p)
  \/ \E delay \in Pressures : Throttled(c, p, delay)
  \/ c \in Scans /\ (RecordThrottled(c, p) \/ Succeed(c, p))

ScanStep(s) ==
  \/ Hit(s) \/ Miss(s) \/ Join(s) \/ Lead(s) \/ Recheck(s) \/ Store(s)
  \/ Finish(s) \/ Woken(s) \/ ListProviders(s)

Step(c) ==
  \/ \E p \in todo[c] : ProviderStep(c, p)
  \/ RunOut(c)
  \/ c \in Scans /\ ScanStep(c)

Next ==
  \/ \E c \in Callers : Step(c) \/ Cancel(c)
  \/ \E s \in Scans : Panic(s)
  \/ Tick

Spec == Init /\ [][Next]_vars

\* Goroutines run, timers fire, and the clients' timeouts end every request.
FairSpec == Spec /\ WF_vars(Tick) /\ \A c \in Callers : WF_vars(Step(c))

-----------------------------------------------------------------------------
\* What the variables range over: leaders hold only their own key, waiters
\* follow a leader, and no counter leaves its range.
TypeOK ==
  /\ life \in [Keys -> 0 .. TTL]
  /\ flight \in [Keys -> Scans \cup {NoScan}]
  /\ joined \in [Scans -> Scans \cup {NoScan}]
  /\ answer \in [Scans -> {"none", "ok", "error"}]
  /\ at \in [Callers -> Places]
  /\ todo \in [Callers -> SUBSET Providers]
  /\ left \in [Scans -> 0 .. LoadCalls]
  /\ cancelled \subseteq Callers /\ panicked \subseteq Keys
  /\ circuit \in [Providers -> {"closed", "open", "half_open"}]
  /\ failures \in [Providers -> Nat] /\ openFor \in [Providers -> 0 .. OpenTime]
  /\ nextIn \in [Hosts -> Nat] /\ coolIn \in [Hosts -> Nat]
  /\ since \in [Hosts -> 0 .. Interval] /\ promised \in [Hosts -> Nat]
  /\ hasty \subseteq Hosts

\* GetOrLoad: of the scans of one token at most one is loading, and none loads
\* a result that the cache still holds, however the lookups, the flights and
\* the expiry of the entry interleave.
LoadedOnce ==
  \A s \in Scans : at[s] \in {"list", "next", "slot", "send", "record", "store"} =>
    /\ ~Fresh(KeyOf[s])
    /\ \A r \in Scans \ {s} : KeyOf[r] = KeyOf[s] =>
         at[r] \in {"start", "do", "wait", "dead", "done"}

\* WaitForSolanaRPCProviderSlot and DeferSolanaRPCProvider: whichever part of
\* the process asks, a host gives its slots an interval apart, and none before
\* the longest cooldown any part has learnt of is over.
NoEarlySlot == hasty = {}

\* recordFailure and recordSuccess: a circuit is closed only while fewer than
\* MaxFailures calls have failed since the last success, whatever the order in
\* which calls that overlap are recorded, and one that is not closed has failed.
CircuitCounts ==
  \A p \in Providers :
    /\ circuit[p] = "closed" => failures[p] < MaxFailures /\ openFor[p] = 0
    /\ circuit[p] # "closed" => failures[p] > 0

\* Every scan is answered, cancelled or not, with every provider under
\* pressure or open, unless a load of its token has panicked: then the call
\* stays in the group and whoever comes to wait for it waits for ever.
ScansAnswered ==
  <>(\A s \in Scans : at[s] = "done" \/ KeyOf[s] \in panicked)
=============================================================================
