------------------------- MODULE ToolDiscovery_proofs -------------------------
(***************************************************************************)
(* Proofs about ToolDiscovery for every set of callers and capabilities    *)
(* and every gap and time to live.                                         *)
(***************************************************************************)
EXTENDS ToolDiscovery, TLAPS

\* Whoever is past the lock has it, still finds nothing in the cache, and sleeps
\* at least as long as the throttle asks for.
Due(c) ==
  /\ caller[c].at \in {"asleep", "searching"} =>
       Holds(c) /\ fresh[caller[c].key] = 0 /\ gap <= caller[c].sleep
  /\ caller[c].at = "searching" => caller[c].sleep = 0

IInv == TypeOK /\ \A c \in Callers : Due(c)

-----------------------------------------------------------------------------

\* The type of a call after it moved.
LEMMA MovesType ==
  ASSUME TypeOK,
         NEW c \in Callers, NEW at \in {"idle", "lock", "asleep", "searching"},
         NEW k \in Keys, NEW n \in 0 .. MinGap, Moves(c, at, k, n)
  PROVE  /\ caller' \in [Callers -> Caller]
         /\ caller'[c].at = at /\ caller'[c].key = k /\ caller'[c].sleep = n
         /\ \A d \in Callers \ {c} : caller'[d] = caller[d]
<1>1. [at |-> at, key |-> k, sleep |-> n] \in Caller
  BY DEF Caller
<1>2. QED  BY <1>1 DEF TypeOK, Moves

LEMMA KeyAndSleep ==
  ASSUME TypeOK, NEW c \in Callers
  PROVE  /\ caller[c].key \in Keys /\ caller[c].sleep \in 0 .. MinGap
         /\ caller[c].at \in {"idle", "lock", "asleep", "searching"}
         /\ gap \in Nat /\ gap \in 0 .. MinGap /\ MinGap \in Nat /\ 0 \in 0 .. MinGap
  BY DiscoveryAssumption DEF TypeOK, Caller

LEMMA InitIsOK == Init => IInv
  BY DiscoveryAssumption DEF Init, IInv, TypeOK, Caller, Due

\* The holder of the lock goes on to sleep or to search.
LEMMA ProceedsKeepsIInv ==
  ASSUME IInv, NEW c \in Callers, NEW k \in Keys, Proceeds(c, k), ~Cached(k),
         queue' \in Seq(Callers), queue' # <<>>, Head(queue') = c,
         \A d \in Callers \ {c} : ~Holds(d), UNCHANGED <<fresh, gap>>
  PROVE  IInv'
<1>1. gap \in 0 .. MinGap /\ gap \in Nat /\ MinGap \in Nat /\ 0 \in 0 .. MinGap
  BY KeyAndSleep DEF IInv
<1>2. fresh[k] = 0
  BY DiscoveryAssumption DEF Cached, IInv, TypeOK
<1>3. /\ caller' \in [Callers -> Caller]
      /\ caller'[c].at \in {"asleep", "searching"} /\ caller'[c].key = k
      /\ caller'[c].sleep = gap
      /\ caller'[c].at = "searching" => gap = 0
      /\ \A d \in Callers \ {c} : caller'[d] = caller[d]
  <2>1. CASE gap > 0 /\ Moves(c, "asleep", k, gap)
    BY <2>1, <1>1, MovesType DEF IInv
  <2>2. CASE gap = 0 /\ Moves(c, "searching", k, 0)
    BY <2>2, <1>1, MovesType DEF IInv
  <2>3. QED  BY <2>1, <2>2 DEF Proceeds
<1>4. TypeOK'
  BY <1>3 DEF IInv, TypeOK
<1>5. Due(c)'
  BY <1>1, <1>2, <1>3 DEF Due, Holds
<1>6. ASSUME NEW d \in Callers \ {c}  PROVE Due(d)'
  BY <1>3 DEF IInv, Due
<1>7. QED  BY <1>4, <1>5, <1>6 DEF IInv

\* A call gives the lock back and is idle again.
LEMMA LeavesKeepsIInv ==
  ASSUME IInv, NEW c \in Callers, NEW k \in Keys, Holds(c), Moves(c, "idle", k, 0),
         queue' = Tail(queue), fresh' \in [Keys -> 0 .. Ttl], gap' \in 0 .. MinGap
  PROVE  IInv'
<1>1. 0 \in 0 .. MinGap
  BY KeyAndSleep DEF IInv
<1>2. /\ caller' \in [Callers -> Caller] /\ caller'[c].at = "idle"
      /\ \A d \in Callers \ {c} : caller'[d] = caller[d]
  BY <1>1, MovesType DEF IInv
<1>3. queue' \in Seq(Callers)
  BY DEF IInv, TypeOK, Holds
<1>4. ASSUME NEW d \in Callers \ {c}
      PROVE  caller[d].at \notin {"asleep", "searching"}
  BY DEF IInv, Due, Holds
<1>5. ASSUME NEW d \in Callers  PROVE Due(d)'
  BY <1>2, <1>4 DEF Due
<1>6. QED  BY <1>2, <1>3, <1>5 DEF IInv, TypeOK

LEMMA StepKeepsIInv == IInv /\ [Next]_vars => IInv'
<1> SUFFICES ASSUME IInv, [Next]_vars  PROVE IInv'
  OBVIOUS
<1>1. ASSUME NEW c \in Callers, NEW k \in Keys, Arrives(c, k)  PROVE IInv'
  <2>1. CASE Waits(c, k)
    <3>1. 0 \in 0 .. MinGap
      BY KeyAndSleep DEF IInv
    <3>2. /\ caller' \in [Callers -> Caller] /\ caller'[c].at = "lock"
          /\ \A d \in Callers \ {c} : caller'[d] = caller[d]
      BY <2>1, <3>1, MovesType DEF IInv, Waits
    <3>3. /\ queue' \in Seq(Callers) /\ queue' # <<>> /\ Head(queue') = Head(queue)
      BY <2>1 DEF Waits, IInv, TypeOK
    <3>4. UNCHANGED <<fresh, gap>>
      BY <1>1 DEF Arrives
    <3>5. ASSUME NEW d \in Callers  PROVE Due(d)'
      BY <3>2, <3>3, <3>4 DEF IInv, Due, Holds
    <3>6. QED  BY <3>2, <3>3, <3>4, <3>5 DEF IInv, TypeOK
  <2>2. CASE queue = <<>> /\ queue' = <<c>> /\ Proceeds(c, k)
    BY <1>1, <2>2, ProceedsKeepsIInv DEF Arrives, Holds
  <2>3. QED  BY <1>1, <2>1, <2>2 DEF Arrives
<1>2. ASSUME NEW c \in Callers, Acquires(c)  PROVE IInv'
  <2> DEFINE k == caller[c].key
  <2>1. k \in Keys
    BY KeyAndSleep DEF IInv
  <2>2. fresh \in [Keys -> 0 .. Ttl] /\ gap \in 0 .. MinGap /\ queue \in Seq(Callers)
    BY DEF IInv, TypeOK
  <2>3. CASE Cached(k) /\ Moves(c, "idle", k, 0) /\ queue' = Tail(queue)
    BY <1>2, <2>1, <2>2, <2>3, LeavesKeepsIInv DEF Acquires
  <2>4. CASE ~Cached(k) /\ Proceeds(c, k) /\ UNCHANGED queue
    BY <1>2, <2>1, <2>2, <2>4, ProceedsKeepsIInv DEF Acquires, Holds
  <2>5. QED  BY <1>2, <2>3, <2>4 DEF Acquires
<1>3. ASSUME NEW c \in Callers, Wakes(c)  PROVE IInv'
  <2>1. caller[c].key \in Keys /\ 0 \in 0 .. MinGap
    BY KeyAndSleep DEF IInv
  <2>2. /\ caller' \in [Callers -> Caller] /\ caller'[c].key = caller[c].key
        /\ caller'[c].sleep = 0
        /\ \A d \in Callers \ {c} : caller'[d] = caller[d]
    BY <1>3, <2>1, MovesType DEF IInv, Wakes
  <2>3. ASSUME NEW d \in Callers  PROVE Due(d)'
    BY <1>3, <2>2 DEF IInv, Due, Holds, Wakes
  <2>4. QED  BY <1>3, <2>2, <2>3 DEF IInv, TypeOK, Wakes
<1>4. ASSUME NEW c \in Callers, SearchReturns(c)  PROVE IInv'
  <2>1. caller[c].key \in Keys
    BY KeyAndSleep DEF IInv
  <2>2. fresh' \in [Keys -> 0 .. Ttl] /\ gap' \in 0 .. MinGap
    <3>1. Ttl \in 0 .. Ttl /\ MinGap \in 0 .. MinGap
      BY DiscoveryAssumption
    <3>2. gap' = MinGap /\ fresh' = [fresh EXCEPT ![caller[c].key] = Ttl]
      BY <1>4 DEF SearchReturns
    <3>3. QED  BY <3>1, <3>2 DEF IInv, TypeOK
  <2>3. Holds(c)
    BY <1>4 DEF SearchReturns, IInv, Due
  <2>4. QED  BY <1>4, <2>1, <2>2, <2>3, LeavesKeepsIInv DEF SearchReturns
<1>5. ASSUME NEW c \in Callers, SearchRaises(c)  PROVE IInv'
  <2>1. caller[c].key \in Keys
    BY KeyAndSleep DEF IInv
  <2>2. fresh' \in [Keys -> 0 .. Ttl] /\ gap' \in 0 .. MinGap
    BY <1>5 DEF SearchRaises, IInv, TypeOK
  <2>3. Holds(c)
    BY <1>5 DEF SearchRaises, IInv, Due
  <2>4. QED  BY <1>5, <2>1, <2>2, <2>3, LeavesKeepsIInv DEF SearchRaises
<1>6. CASE ClearCache
  <2>1. TypeOK'
    BY <1>6, DiscoveryAssumption DEF ClearCache, IInv, TypeOK
  <2>2. ASSUME NEW d \in Callers  PROVE Due(d)'
    BY <1>6, KeyAndSleep DEF ClearCache, IInv, Due, Holds
  <2>3. QED  BY <2>1, <2>2 DEF IInv
<1>7. CASE Tick
  <2>1. \A n \in Nat : Less(n) \in Nat /\ Less(n) <= n
    BY DEF Less
  <2>2. ASSUME NEW d \in Callers
        PROVE  /\ caller'[d].at = caller[d].at /\ caller'[d].key = caller[d].key
               /\ caller'[d].sleep = Less(caller[d].sleep) /\ caller'[d] \in Caller
    <3>1. caller'[d] = [caller[d] EXCEPT !.sleep = Less(@)]
      BY <1>7 DEF Tick
    <3>2. caller[d] \in Caller
      BY DEF IInv, TypeOK
    <3>3. Less(caller[d].sleep) \in 0 .. MinGap
      BY <2>1, KeyAndSleep DEF IInv, Less
    <3>4. QED  BY <3>1, <3>2, <3>3 DEF Caller
  <2>3. fresh' \in [Keys -> 0 .. Ttl] /\ gap' \in 0 .. MinGap
    <3>1. \A n \in 0 .. Ttl : Less(n) \in 0 .. Ttl
      BY DiscoveryAssumption DEF Less
    <3>2. \A n \in 0 .. MinGap : Less(n) \in 0 .. MinGap
      BY DiscoveryAssumption DEF Less
    <3>3. QED  BY <1>7, <3>1, <3>2 DEF Tick, IInv, TypeOK
  <2>4. TypeOK'
    <3>1. caller' = [d \in Callers |-> caller'[d]]
      BY <1>7 DEF Tick
    <3>2. caller' \in [Callers -> Caller]
      BY <2>2, <3>1
    <3>3. QED  BY <1>7, <2>3, <3>2 DEF Tick, IInv, TypeOK
  <2>5. ASSUME NEW d \in Callers  PROVE Due(d)'
    <3>1. /\ caller[d].sleep \in Nat /\ gap \in Nat /\ caller[d].key \in Keys
          /\ fresh[caller[d].key] \in Nat
      BY KeyAndSleep, DiscoveryAssumption DEF IInv, TypeOK
    <3>2. /\ fresh'[caller[d].key] = Less(fresh[caller[d].key]) /\ gap' = Less(gap)
          /\ queue' = queue
      BY <1>7, <3>1 DEF Tick
    <3>3. gap <= caller[d].sleep => Less(gap) <= Less(caller[d].sleep)
      BY <3>1 DEF Less
    <3>4. Less(0) = 0
      BY DEF Less
    <3>5. QED  BY <2>2, <3>1, <3>2, <3>3, <3>4 DEF IInv, Due, Holds
  <2>6. QED  BY <2>4, <2>5 DEF IInv
<1>8. CASE UNCHANGED vars
  BY <1>8 DEF vars, IInv, TypeOK, Due, Holds
<1>9. QED  BY <1>1, <1>2, <1>3, <1>4, <1>5, <1>6, <1>7, <1>8 DEF Next, Discover

-----------------------------------------------------------------------------

\* In every reachable state whoever is past the lock has it, finds nothing in
\* the cache and waits out the throttle.
THEOREM InvariantHolds == Spec => []IInv
  BY InitIsOK, StepKeepsIInv, PTL DEF Spec

\* The provider is searched by one call at a time, for what the cache does not
\* have, and when the throttle allows it.
THEOREM OnlyDueSearches == Spec => []SearchesAreDue
<1>1. IInv => SearchesAreDue
  <2> SUFFICES ASSUME IInv  PROVE SearchesAreDue
    OBVIOUS
  <2>1. ASSUME NEW c \in Callers, caller[c].at = "searching"
        PROVE  ~Cached(caller[c].key) /\ gap = 0
    BY <2>1, KeyAndSleep DEF IInv, Due, Cached
  <2>2. ASSUME NEW c \in Callers, NEW d \in Callers, caller[c].at = "searching",
               caller[d].at \in {"asleep", "searching"}
        PROVE  c = d
    BY <2>2 DEF IInv, Due, Holds
  <2>3. QED  BY <2>1, <2>2 DEF SearchesAreDue
<1>2. QED  BY <1>1, InvariantHolds, PTL
=============================================================================
