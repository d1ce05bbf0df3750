-------------------------- MODULE RpcAccessProofs --------------------------
(***************************************************************************)
(* Proofs about RpcAccess for any callers, keys, providers and times.  The *)
(* invariant has three parts that share nothing but the types: what a scan *)
(* holds in the cache and in the group (Flights), what the governor's      *)
(* clocks promise (Paced), and what the circuits count (CircuitCounts).    *)
(***************************************************************************)
EXTENDS RpcAccess, TLAPS

Calling == {"list", "next", "slot", "send", "record"}
Loading == Calling \cup {"store"}
Leading == Loading \cup {"again", "finish", "dead"}

\* A leader's call is the one the group holds, a load is of a key the cache
\* does not hold, a load has a call to make, and a waiter waits for a scan.
Flights ==
  \A s \in Scans :
    /\ at[s] \in Leading => flight[KeyOf[s]] = s
    /\ at[s] \in Loading => life[KeyOf[s]] = 0
    /\ at[s] \in Calling => left[s] > 0
    /\ at[s] = "wait" => joined[s] \in Scans

\* The clocks of a host cover what was promised of it.
Paced ==
  /\ \A h \in Hosts : promised[h] <= coolIn[h] /\ since[h] + nextIn[h] >= Interval
  /\ hasty = {}

Inv == TypeOK /\ Flights /\ Paced /\ CircuitCounts

\* At the start nothing is cached, in flight, open or cooling.
LEMMA InitInv == Init => Inv
<1> SUFFICES ASSUME Init PROVE Inv OBVIOUS
<1> USE RpcAssumption DEF Init
<1>1. TypeOK BY SMT DEF TypeOK, Callers, Places
<1>2. Flights BY SMT DEF Flights, Calling, Loading, Leading, Callers
<1>3. Paced BY SMT DEF Paced
<1>4. CircuitCounts BY SMT DEF CircuitCounts
<1> QED BY <1>1, <1>2, <1>3, <1>4 DEF Inv

-----------------------------------------------------------------------------
(***************************************************************************)
(* The cache and the group.                                                *)
(***************************************************************************)
\* Lookups, joining and waking change the scan that makes them only.
LEMMA LookupInv ==
  ASSUME Inv, NEW s \in Scans, Hit(s) \/ Miss(s) \/ Join(s) \/ Woken(s)
  PROVE  Inv'
<1> USE RpcAssumption DEF Inv, cacheVars, circuitVars, governorVars, historyVars
<1>1. CASE Hit(s)
  <2> USE <1>1 DEF Hit, Go, Return
  <2>1. TypeOK' BY SMT DEF TypeOK, Callers, Places
  <2>2. Flights' BY SMT DEF Flights, Calling, Loading, Leading, TypeOK, Callers
  <2>3. Paced' /\ CircuitCounts' BY SMT DEF Paced, CircuitCounts
  <2> QED BY <2>1, <2>2, <2>3
<1>2. CASE Miss(s)
  <2> USE <1>2 DEF Miss, Go
  <2>1. TypeOK' BY SMT DEF TypeOK, Callers, Places
  <2>2. Flights' BY SMT DEF Flights, Calling, Loading, Leading, TypeOK, Callers
  <2>3. Paced' /\ CircuitCounts' BY SMT DEF Paced, CircuitCounts
  <2> QED BY <2>1, <2>2, <2>3
<1>3. CASE Join(s)
  <2> USE <1>3 DEF Join, InFlight, Go
  <2>1. TypeOK' BY SMT DEF TypeOK, Callers, Places
  <2>2. Flights' BY SMT DEF Flights, Calling, Loading, Leading, TypeOK, Callers
  <2>3. Paced' /\ CircuitCounts' BY SMT DEF Paced, CircuitCounts
  <2> QED BY <2>1, <2>2, <2>3
<1>4. CASE Woken(s)
  <2> USE <1>4 DEF Woken, Go, Return
  <2>1. TypeOK' BY SMT DEF TypeOK, Flights, Callers, Places
  <2>2. Flights' BY SMT DEF Flights, Calling, Loading, Leading, TypeOK, Callers
  <2>3. Paced' /\ CircuitCounts' BY SMT DEF Paced, CircuitCounts
  <2> QED BY <2>1, <2>2, <2>3
<1> QED BY <1>1, <1>2, <1>3, <1>4

\* The leader's own steps: nobody else leads a call of its key.
LEMMA LeaderInv ==
  ASSUME Inv, NEW s \in Scans, Lead(s) \/ Recheck(s) \/ Store(s) \/ Panic(s) \/ Finish(s)
  PROVE  Inv'
<1> USE RpcAssumption DEF Inv, cacheVars, circuitVars, governorVars, historyVars
<1>1. CASE Lead(s)
  <2> USE <1>1 DEF Lead, InFlight, Go
  <2>1. TypeOK' BY SMT DEF TypeOK, Callers, Places
  <2>2. Flights' BY SMT DEF Flights, Calling, Loading, Leading, TypeOK, Callers
  <2>3. Paced' /\ CircuitCounts' BY SMT DEF Paced, CircuitCounts
  <2> QED BY <2>1, <2>2, <2>3
<1>2. CASE Recheck(s)
  <2> USE <1>2 DEF Recheck, StillMissing, Fresh, Go, Return
  <2>1. TypeOK' BY SMT DEF TypeOK, Callers, Places
  <2>2. Flights' BY SMT DEF Flights, Calling, Loading, Leading, TypeOK, Callers
  <2>3. Paced' /\ CircuitCounts' BY SMT DEF Paced, CircuitCounts
  <2> QED BY <2>1, <2>2, <2>3
<1>3. CASE Store(s)
  <2> USE <1>3 DEF Store, Go, Return
  <2>1. TypeOK' BY SMT DEF TypeOK, Callers, Places
  <2>2. Flights' BY SMT DEF Flights, Calling, Loading, Leading, TypeOK, Callers
  <2>3. Paced' /\ CircuitCounts' BY SMT DEF Paced, CircuitCounts
  <2> QED BY <2>1, <2>2, <2>3
<1>4. CASE Panic(s)
  <2> USE <1>4 DEF Panic, Go
  <2>1. TypeOK' BY SMT DEF TypeOK, Callers, Places
  <2>2. Flights' BY SMT DEF Flights, Calling, Loading, Leading, TypeOK, Callers
  <2>3. Paced' /\ CircuitCounts' BY SMT DEF Paced, CircuitCounts
  <2> QED BY <2>1, <2>2, <2>3
<1>5. CASE Finish(s)
  <2> USE <1>5 DEF Finish, Go
  <2>1. TypeOK' BY SMT DEF TypeOK, Callers, Places
  <2>2. Flights' BY SMT DEF Flights, Calling, Loading, Leading, TypeOK, Callers
  <2>3. Paced' /\ CircuitCounts' BY SMT DEF Paced, CircuitCounts
  <2> QED BY <2>1, <2>2, <2>3
<1> QED BY <1>1, <1>2, <1>3, <1>4, <1>5

-----------------------------------------------------------------------------
(***************************************************************************)
(* The manager and the transport.                                          *)
(***************************************************************************)
\* The host of a provider is one of the governor's.
LEMMA HostType == \A p \in Providers : HostOf[p] \in Hosts
BY DEF Hosts

\* The list is made: a circuit whose cooldown is over becomes half open.
LEMMA ListProvidersInv ==
  ASSUME Inv, NEW s \in Scans, ListProviders(s)
  PROVE  Inv'
<1> USE RpcAssumption DEF Inv, ListProviders, Go, cacheVars, governorVars, historyVars
<1>1. TypeOK' BY SMT DEF TypeOK, Callers, Places
<1>2. Flights' BY SMT DEF Flights, Calling, Loading, Leading, TypeOK, Callers
<1>3. Paced' BY SMT DEF Paced
<1>4. CircuitCounts' BY SMT DEF CircuitCounts, TypeOK
<1> QED BY <1>1, <1>2, <1>3, <1>4

\* A caller moves along its list.
LEMMA MoveInv ==
  ASSUME Inv, NEW c \in Callers, NEW p \in Providers,
         SkipCooling(c, p) \/ AskForSlot(c, p) \/ GiveUpSlot(c, p) \/ Respond(c, p)
  PROVE  Inv'
<1> USE RpcAssumption DEF Inv, cacheVars, circuitVars, governorVars, historyVars
<1>1. CASE SkipCooling(c, p)
  <2> USE <1>1 DEF SkipCooling, NextProvider, Go
  <2>1. TypeOK' BY SMT DEF TypeOK, Callers, Places
  <2>2. Flights' BY SMT DEF Flights, Calling, Loading, Leading, TypeOK, Callers
  <2>3. Paced' /\ CircuitCounts' BY SMT DEF Paced, CircuitCounts
  <2> QED BY <2>1, <2>2, <2>3
<1>2. CASE AskForSlot(c, p)
  <2> USE <1>2 DEF AskForSlot, Go
  <2>1. TypeOK' BY SMT DEF TypeOK, Callers, Places
  <2>2. Flights' BY SMT DEF Flights, Calling, Loading, Leading, TypeOK, Callers
  <2>3. Paced' /\ CircuitCounts' BY SMT DEF Paced, CircuitCounts
  <2> QED BY <2>1, <2>2, <2>3
<1>3. CASE GiveUpSlot(c, p)
  <2> USE <1>3 DEF GiveUpSlot, NextProvider, Go, Return
  <2>1. TypeOK' BY SMT DEF TypeOK, Callers, Places
  <2>2. Flights' BY SMT DEF Flights, Calling, Loading, Leading, TypeOK, Callers
  <2>3. Paced' /\ CircuitCounts' BY SMT DEF Paced, CircuitCounts
  <2> QED BY <2>1, <2>2, <2>3
<1>4. CASE Respond(c, p)
  <2> USE <1>4 DEF Respond, Go
  <2>1. TypeOK' BY SMT DEF TypeOK, Callers, Places
  <2>2. Flights' BY SMT DEF Flights, Calling, Loading, Leading, TypeOK, Callers
  <2>3. Paced' /\ CircuitCounts' BY SMT DEF Paced, CircuitCounts
  <2> QED BY <2>1, <2>2, <2>3
<1> QED BY <1>1, <1>2, <1>3, <1>4

\* A caller comes to the end of its list, or its context ends.
LEMMA EndInv ==
  ASSUME Inv, NEW c \in Callers, RunOut(c) \/ Cancel(c)
  PROVE  Inv'
<1> USE RpcAssumption DEF Inv, cacheVars, circuitVars, governorVars, historyVars
<1>1. CASE RunOut(c)
  <2> USE <1>1 DEF RunOut, Go, Return
  <2>1. TypeOK' BY SMT DEF TypeOK, Callers, Places
  <2>2. Flights' BY SMT DEF Flights, Calling, Loading, Leading, TypeOK, Callers
  <2>3. Paced' /\ CircuitCounts' BY SMT DEF Paced, CircuitCounts
  <2> QED BY <2>1, <2>2, <2>3
<1>2. CASE Cancel(c)
  <2> USE <1>2 DEF Cancel
  <2>1. TypeOK' BY SMT DEF TypeOK, Callers, Places
  <2>2. Flights' BY SMT DEF Flights, Calling, Loading, Leading, TypeOK, Callers
  <2>3. Paced' /\ CircuitCounts' BY SMT DEF Paced, CircuitCounts
  <2> QED BY <2>1, <2>2, <2>3
<1> QED BY <1>1, <1>2

\* A failure counts, and trips the circuit before the limit is passed closed.
LEMMA RecordFailureInv ==
  ASSUME Inv, NEW s \in Scans, NEW p \in Providers, at[s] \in Calling, RecordFailure(s, p)
  PROVE  Inv'
<1> USE RpcAssumption
    DEF Inv, RecordFailure, CountAfter, NextProvider, Go, cacheVars, governorVars, historyVars
<1>1. TypeOK' BY SMT DEF TypeOK, Callers, Places
<1>2. Flights' BY SMT DEF Flights, Calling, Loading, Leading, TypeOK, Callers
<1>3. Paced' BY SMT DEF Paced
<1>4. CircuitCounts' BY SMT DEF CircuitCounts, TypeOK
<1> QED BY <1>1, <1>2, <1>3, <1>4

\* Whatever becomes of a request, it is recorded as a failure or passed over.
LEMMA FailInv ==
  ASSUME Inv, NEW c \in Callers, NEW p \in Providers,
         Fail(c, p) \/ (c \in Scans /\ RecordThrottled(c, p))
  PROVE  Inv'
<1>1. CASE c \in Scans
  <2>1. at[c] \in Calling /\ RecordFailure(c, p)
    BY <1>1, RpcAssumption DEF Fail, RecordThrottled, Calling
  <2> QED BY <1>1, <2>1, RecordFailureInv
<1>2. CASE c \notin Scans
  <2> USE <1>2, RpcAssumption
      DEF Inv, Fail, NextProvider, Go, cacheVars, circuitVars, governorVars, historyVars
  <2>1. TypeOK' BY SMT DEF TypeOK, Callers, Places
  <2>2. Flights' BY SMT DEF Flights, Calling, Loading, Leading, TypeOK, Callers
  <2>3. Paced' /\ CircuitCounts' BY SMT DEF Paced, CircuitCounts
  <2> QED BY <2>1, <2>2, <2>3
<1> QED BY <1>1, <1>2

\* A success closes the circuit, and the load goes on to its next call or its end.
LEMMA SucceedInv ==
  ASSUME Inv, NEW s \in Scans, NEW p \in Providers, Succeed(s, p)
  PROVE  Inv'
<1> USE RpcAssumption
    DEF Inv, Succeed, CountAfter, LastCall, Go, cacheVars, governorVars, historyVars
<1>0. left[s] \in 1 .. LoadCalls
  BY SMT DEF Flights, Calling, TypeOK
<1>1. TypeOK' BY <1>0, SMT DEF TypeOK, Callers, Places
<1>2. Flights' BY <1>0, SMT DEF Flights, Calling, Loading, Leading, TypeOK, Callers
<1>3. Paced' BY SMT DEF Paced
<1>4. CircuitCounts' BY SMT DEF CircuitCounts, TypeOK
<1> QED BY <1>1, <1>2, <1>3, <1>4

-----------------------------------------------------------------------------
(***************************************************************************)
(* The governor.                                                           *)
(***************************************************************************)
\* A slot is given when both clocks have run down, and so has what they cover.
LEMMA TakeSlotInv ==
  ASSUME Inv, NEW c \in Callers, NEW p \in Providers, TakeSlot(c, p)
  PROVE  Inv'
<1> USE RpcAssumption DEF Inv, TakeSlot, Go, cacheVars, circuitVars
<1> DEFINE h == HostOf[p]
<1>0. /\ h \in Hosts /\ nextIn[h] = 0 /\ coolIn[h] = 0
      /\ since[h] >= Interval /\ ~(promised[h] > 0)
  <2>1. h \in Hosts BY HostType
  <2>2. nextIn[h] = 0 /\ coolIn[h] = 0
    BY <2>1, SMT DEF ReadyIn, Larger, TypeOK
  <2> QED BY <2>1, <2>2, SMT DEF Paced, TypeOK
<1>1. hasty' = {} BY <1>0, SMT DEF Paced, TypeOK
<1>2. TypeOK' BY <1>0, <1>1, SMT DEF TypeOK, Callers, Places
<1>3. Flights' BY SMT DEF Flights, Calling, Loading, Leading, TypeOK, Callers
<1>4. Paced' BY <1>0, <1>1, SMT DEF Paced, TypeOK
<1>5. CircuitCounts' BY SMT DEF CircuitCounts
<1> QED BY <1>2, <1>3, <1>4, <1>5

\* A cooldown is published: both clocks only ever move out.
LEMMA ThrottledInv ==
  ASSUME Inv, NEW c \in Callers, NEW p \in Providers, NEW delay \in Pressures,
         Throttled(c, p, delay)
  PROVE  Inv'
<1> USE RpcAssumption DEF Inv, Throttled, Later, Larger, NextProvider, Go, cacheVars, circuitVars
<1>0. HostOf[p] \in Hosts /\ delay \in Nat BY HostType
<1>1. TypeOK'
  <2>1. coolIn' \in [Hosts -> Nat] /\ nextIn' \in [Hosts -> Nat] /\ promised' \in [Hosts -> Nat]
    BY <1>0, SMT DEF TypeOK
  <2>2. at' \in [Callers -> Places] /\ todo' \in [Callers -> SUBSET Providers]
    BY SMT DEF TypeOK, Places
  <2> QED BY <2>1, <2>2 DEF TypeOK
<1>2. Flights' BY SMT DEF Flights, Calling, Loading, Leading, TypeOK, Callers
<1>3. Paced' BY <1>0, SMT DEF Paced, TypeOK
<1>4. CircuitCounts' BY SMT DEF CircuitCounts
<1> QED BY <1>1, <1>2, <1>3, <1>4

\* Time passes for the clocks, the promises and the entries alike.
LEMMA TickInv == ASSUME Inv, Tick PROVE Inv'
<1> USE RpcAssumption DEF Inv, Tick, Less
<1>1. TypeOK' BY SMT DEF TypeOK
<1>2. Flights' BY SMT DEF Flights, Calling, Loading, TypeOK
<1>3. Paced' BY SMT DEF Paced, TypeOK
<1>4. CircuitCounts' BY SMT DEF CircuitCounts, TypeOK
<1> QED BY <1>1, <1>2, <1>3, <1>4

-----------------------------------------------------------------------------
\* Every step keeps the invariant.
LEMMA NextInv == Inv /\ [Next]_vars => Inv'
<1> SUFFICES ASSUME Inv, [Next]_vars PROVE Inv' OBVIOUS
<1>1. ASSUME NEW c \in Callers, NEW p \in todo[c], ProviderStep(c, p) PROVE Inv'
  <2>1. p \in Providers BY DEF Inv, TypeOK
  <2> QED BY <1>1, <2>1, MoveInv, FailInv, SucceedInv, TakeSlotInv, ThrottledInv DEF ProviderStep
<1>2. ASSUME NEW s \in Scans, ScanStep(s) \/ Panic(s) PROVE Inv'
  BY <1>2, LookupInv, LeaderInv, ListProvidersInv DEF ScanStep
<1>3. ASSUME NEW c \in Callers, RunOut(c) \/ Cancel(c) PROVE Inv'
  BY <1>3, EndInv
<1>4. CASE UNCHANGED vars
  BY <1>4, SMT DEF vars, cacheVars, circuitVars, governorVars, historyVars, Inv, TypeOK,
    Flights, Paced, CircuitCounts
<1> QED BY <1>1, <1>2, <1>3, <1>4, TickInv DEF Next, Step

\* The invariant holds in every behaviour.
THEOREM Invariance == Spec => []Inv
BY InitInv, NextInv, PTL DEF Spec

\* GetOrLoad, Call and the governor keep their state in its types: a load never
\* makes more calls than it has, and a waiter always follows a scan.
THEOREM RpcTypeCorrect == Spec => []TypeOK
<1>1. Inv => TypeOK BY DEF Inv
<1> QED BY Invariance, <1>1, PTL

\* SmartCache.GetOrLoad loads a token once at a time, and never one it holds,
\* for any number of scans, tokens and providers.
THEOREM LoadsAreShared == Spec => []LoadedOnce
<1>1. Inv => LoadedOnce
  BY RpcAssumption, SMT DEF Inv, Flights, LoadedOnce, Fresh, Calling, Loading, Leading,
    TypeOK, Places, Callers
<1> QED BY Invariance, <1>1, PTL

\* The governor spaces the slots of a host and honours the longest cooldown,
\* for any number of callers, providers and hosts, and any delays.
THEOREM SlotsAreSpaced == Spec => []NoEarlySlot
<1>1. Inv => NoEarlySlot BY DEF Inv, Paced, NoEarlySlot
<1> QED BY Invariance, <1>1, PTL

\* recordFailure and recordSuccess keep circuits and counts together, in
\* whatever order overlapping calls are recorded.
THEOREM CircuitsAreCounted == Spec => []CircuitCounts
<1>1. Inv => CircuitCounts BY DEF Inv
<1> QED BY Invariance, <1>1, PTL
=============================================================================
