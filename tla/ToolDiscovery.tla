----------------------------- MODULE ToolDiscovery -----------------------------
(***************************************************************************)
(* ToolDiscoveryService.discover, called by many requests at once: the     *)
(* cache, the lock around the provider and the throttle of its calls.      *)
(*                                                                         *)
(* asyncio.Lock serves in the order of arrival: queue holds everybody at   *)
(* it, and its head has it.  Times are what is left of them, in ticks, and *)
(* stop at 0.  A call that finds its answer in the cache is no action.     *)
(***************************************************************************)
EXTENDS Naturals, Sequences

CONSTANTS
  Callers,   \* requests to POST /tools/discover
  Keys,      \* normalized capabilities
  MinGap,    \* min_seconds_between_provider_calls
  Ttl        \* cache_ttl_seconds

ASSUME DiscoveryAssumption == MinGap \in Nat /\ Ttl \in Nat \ {0}

VARIABLES
  queue,    \* _lock: its holder and those who wait for it
  fresh,    \* _cache: what is left of each entry's time to live
  gap,      \* _min_wait_seconds
  caller    \* where each call is

vars == <<queue, fresh, gap, caller>>

\* A call is at "lock" until the lock is its own, then it may have to sleep.
Caller ==
  [at    : {"idle", "lock", "asleep", "searching"},
   key   : Keys,
   sleep : 0 .. MinGap]

TypeOK ==
  /\ queue \in Seq(Callers)
  /\ fresh \in [Keys -> 0 .. Ttl]
  /\ gap \in 0 .. MinGap
  /\ caller \in [Callers -> Caller]

\* _last_provider_call_at is 0.0, and time.monotonic() may be little more.
Init ==
  /\ queue = <<>>
  /\ fresh = [k \in Keys |-> 0]
  /\ gap \in 0 .. MinGap
  /\ \E k \in Keys : caller = [c \in Callers |-> [at |-> "idle", key |-> k, sleep |-> 0]]

Cached(k) == fresh[k] > 0

Moves(c, at, k, sleep) == caller' = [caller EXCEPT ![c] = [at |-> at, key |-> k, sleep |-> sleep]]

Holds(c) == queue # <<>> /\ Head(queue) = c

-----------------------------------------------------------------------------

Waits(c, k) ==
  /\ queue # <<>>
  /\ Moves(c, "lock", k, 0)
  /\ queue' = Append(queue, c)

\* With the lock its own: the wait, if one is due, and then the search.
Proceeds(c, k) ==
  \/ gap > 0 /\ Moves(c, "asleep", k, gap)
  \/ gap = 0 /\ Moves(c, "searching", k, 0)

\* A free lock is taken without giving way to others.
Arrives(c, k) ==
  /\ caller[c].at = "idle" /\ ~Cached(k)
  /\ \/ Waits(c, k)
     \/ queue = <<>> /\ queue' = <<c>> /\ Proceeds(c, k)
  /\ UNCHANGED <<fresh, gap>>

\* The lock without a second look at the cache.
AcquiresBlindly(c) ==
  /\ caller[c].at = "lock" /\ Holds(c)
  /\ Proceeds(c, caller[c].key) /\ UNCHANGED queue
  /\ UNCHANGED <<fresh, gap>>

\* Another call may just have found what this one looks for.
Acquires(c) ==
  /\ caller[c].at = "lock" /\ Holds(c)
  /\ LET k == caller[c].key
     IN \/ Cached(k) /\ Moves(c, "idle", k, 0) /\ queue' = Tail(queue)
        \/ ~Cached(k) /\ Proceeds(c, k) /\ UNCHANGED queue
  /\ UNCHANGED <<fresh, gap>>

Wakes(c) ==
  /\ caller[c].at = "asleep" /\ caller[c].sleep = 0
  /\ Moves(c, "searching", caller[c].key, 0)
  /\ UNCHANGED <<queue, fresh, gap>>

SearchReturns(c) ==
  /\ caller[c].at = "searching"
  /\ gap' = MinGap
  /\ fresh' = [fresh EXCEPT ![caller[c].key] = Ttl]
  /\ queue' = Tail(queue)
  /\ Moves(c, "idle", caller[c].key, 0)

\* A failure that leaves the lock taken.
SearchRaisesLocked(c) ==
  /\ caller[c].at = "searching"
  /\ Moves(c, "idle", caller[c].key, 0)
  /\ UNCHANGED <<queue, fresh, gap>>

\* A failed search is neither cached nor counted by the throttle.
SearchRaises(c) ==
  /\ caller[c].at = "searching"
  /\ queue' = Tail(queue)
  /\ Moves(c, "idle", caller[c].key, 0)
  /\ UNCHANGED <<fresh, gap>>

ClearCache ==
  /\ fresh' = [k \in Keys |-> 0]
  /\ UNCHANGED <<queue, gap, caller>>

Less(n) == IF n = 0 THEN 0 ELSE n - 1

\* A second passes, for all alike.
Tick ==
  /\ gap' = Less(gap)
  /\ fresh' = [k \in Keys |-> Less(fresh[k])]
  /\ caller' = [c \in Callers |-> [caller[c] EXCEPT !.sleep = Less(@)]]
  /\ UNCHANGED queue

Discover(c) ==
  \/ Acquires(c) \/ Wakes(c) \/ SearchReturns(c) \/ SearchRaises(c)

Next ==
  \/ \E c \in Callers : Discover(c) \/ \E k \in Keys : Arrives(c, k)
  \/ ClearCache \/ Tick

\* Time passes, searches end one way or the other, and the event loop runs what
\* is ready.
Fairness == WF_vars(Tick) /\ \A c \in Callers : WF_vars(Discover(c))

Spec == Init /\ [][Next]_vars /\ Fairness

-----------------------------------------------------------------------------

\* "can't turn this into uncontrolled crawling": whatever number of calls arrive
\* and expire in between, the provider is searched by one call at a time, for
\* what the cache does not have, and only when MinGap has passed since the last
\* search that succeeded.
SearchesAreDue ==
  /\ \A c \in Callers :
       caller[c].at = "searching" => ~Cached(caller[c].key) /\ gap = 0
  /\ \A c, d \in Callers :
       caller[c].at = "searching" /\ caller[d].at \in {"asleep", "searching"} => c = d

\* Every call is answered, those that wait for the lock and for the throttle too.
CallsReturn == \A c \in Callers : caller[c].at # "idle" ~> caller[c].at = "idle"
=============================================================================
