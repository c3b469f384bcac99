---------------------------- MODULE LowMemoryPool ----------------------------
(***************************************************************************)
(* LowMemoryPool.cpp: reserves of memory that operator new gives up one by *)
(* one when it runs out, by way of the new handler, and the callbacks that *)
(* run meanwhile - with allocations, pools and resets of their own.        *)
(* Nobody else installs a new handler.                                     *)
(***************************************************************************)
EXTENDS Integers, Sequences, SequencesExt, FiniteSets, FiniteSetsExt

CONSTANTS
    Pools,          \* the numbers by which pools are told apart, without 0
    Sizes,          \* of reserves and of what the program allocates
    Memory,         \* how much memory there is
    MaxCalls        \* bound: calls inside each other

ASSUME PoolAssumption ==
    /\ IsFiniteSet(Pools) /\ Pools # {} /\ Pools \subseteq Nat \ {0}
    /\ Sizes \subseteq Nat \ {0}

VARIABLES
    s_pools,        \* the pool made last, or 0
    pools,          \* what is known of each pool
    handler,        \* the new handler: "none" or "trigger"
    calls,          \* allocations and callbacks that run, the innermost last
    free, held      \* memory nobody has, and what the program has

poolVars == <<s_pools, pools, handler, calls, free, held>>

PoolInit ==
    /\ s_pools = 0 /\ handler = "none" /\ calls = <<>> /\ free = Memory /\ held = 0
    /\ pools = [p \in Pools |-> [life |-> "none", m_next |-> 0, m_size |-> 0, m_old |-> "none", m_last |-> FALSE]]

Inner == calls[Len(calls)]
Waits == calls # <<>> /\ Inner.n > 0
InCallback == calls # <<>> /\ Inner.n = 0
Fits == Inner.n <= free
Runs == ~Waits /\ Len(calls) < MaxCalls

\* operator new runs on behalf of the program or of the constructor of pool p,
\* which has read s_pools by then; n = 0 marks a callback of pool p.
Call(n, p) == calls' = Append(calls, [n |-> n, pool |-> p])

Allocate(n) == Runs /\ Call(n, 0) /\ UNCHANGED <<s_pools, pools, handler, free, held>>

Free(n) ==
    /\ Runs /\ n <= held /\ held' = held - n /\ free' = free + n
    /\ UNCHANGED <<s_pools, pools, handler, calls>>

\* The numbers for a new pool: above those in use, so that they are in the order
\* in which the pools were made, and not that of one whose callback still runs.
Fresh ==
    {p \in Pools : /\ \A i \in 1..Len(calls) : calls[i].pool # p
                  /\ \A q \in Pools : pools[q].life \in {"made", "alive"} => q < p}

\* The member initializers read s_pools before they call operator new.
add(p, n, last) ==
    /\ Runs /\ p \in Fresh /\ (\A q \in Fresh : p <= q) /\ Call(n, p)
    /\ pools' = [pools EXCEPT ![p] = [life |-> "made", m_next |-> s_pools, m_size |-> n, m_old |-> "none", m_last |-> last]]
    /\ UNCHANGED <<s_pools, handler, free, held>>

\* A mutant of Served: the pool forgets the handler it replaces.
ServedForgets ==
    /\ Waits /\ Fits /\ free' = free - Inner.n /\ calls' = Front(calls)
    /\ IF Inner.pool = 0 THEN held' = held + Inner.n /\ UNCHANGED <<s_pools, pools, handler>>
       ELSE /\ pools' = [pools EXCEPT ![Inner.pool].life = "alive"]
            /\ handler' = "trigger" /\ s_pools' = Inner.pool /\ UNCHANGED held

\* There is room: the program, or the rest of the constructor, goes on.
Served ==
    /\ Waits /\ Fits /\ free' = free - Inner.n /\ calls' = Front(calls)
    /\ IF Inner.pool = 0 THEN held' = held + Inner.n /\ UNCHANGED <<s_pools, pools, handler>>
       ELSE /\ pools' = [pools EXCEPT ![Inner.pool].life = "alive", ![Inner.pool].m_old = handler]
            /\ handler' = "trigger" /\ s_pools' = Inner.pool /\ UNCHANGED held

\* A constructor that cannot be served takes its pool with it.
Deserted == IF Inner.pool = 0 THEN pools ELSE [pools EXCEPT ![Inner.pool].life = "deleted"]

BadAlloc ==
    /\ Waits /\ ~Fits /\ handler = "none" /\ calls' = Front(calls) /\ pools' = Deserted
    /\ UNCHANGED <<s_pools, handler, free, held>>

-----------------------------------------------------------------------------
Unlinked(p) == pools[p].m_next

\* trigger () and pop (): the reserve goes back before the callback runs.
trigger ==
    /\ Waits /\ ~Fits /\ handler = "trigger" /\ s_pools # 0
    /\ s_pools' = Unlinked(s_pools) /\ free' = free + pools[s_pools].m_size
    /\ handler' = pools[s_pools].m_old
    /\ pools' = [pools EXCEPT ![s_pools].life = "released"] /\ Call(0, s_pools)
    /\ UNCHANGED held

GivesUp(last) == last /\ s_pools = 0

\* The rest of pop (), and operator new tries again unless trigger () throws.
CallbackReturns ==
    /\ InCallback
    /\ LET below == calls[Len(calls) - 1]
           deleted == [pools EXCEPT ![Inner.pool].life = "deleted"]
       IN  IF GivesUp(pools[Inner.pool].m_last)
           THEN /\ calls' = Front(Front(calls))
                /\ pools' = IF below.pool = 0 THEN deleted ELSE [deleted EXCEPT ![below.pool].life = "deleted"]
           ELSE calls' = Front(calls) /\ pools' = deleted
    /\ UNCHANGED <<s_pools, handler, free, held>>

\* A callback that throws goes past the end of pop ().
CallbackThrows ==
    /\ InCallback /\ calls' = Front(Front(calls))
    /\ LET below == calls[Len(calls) - 1]
       IN  pools' = IF below.pool = 0 THEN [pools EXCEPT ![Inner.pool].life = "leaked"]
                    ELSE [pools EXCEPT ![Inner.pool].life = "leaked", ![below.pool].life = "deleted"]
    /\ UNCHANGED <<s_pools, handler, free, held>>

\* The pools from s_pools on: the least set that has it and the next of each.
FollowsNext(S) == {s_pools} \cup {pools[p].m_next : p \in S} \subseteq S \cup {0}
Chained == {p \in Pools : \A S \in SUBSET Pools : FollowsNext(S) => p \in S}

reset ==
    /\ Runs /\ s_pools # 0 /\ s_pools' = 0
    /\ free' = free + MapThenSumSet(LAMBDA p : pools[p].m_size, Chained)
    /\ handler' = pools[CHOOSE p \in Chained : pools[p].m_next = 0].m_old
    /\ pools' = [p \in Pools |-> IF p \in Chained THEN [pools[p] EXCEPT !.life = "deleted"] ELSE pools[p]]
    /\ UNCHANGED <<calls, held>>

\* While the constructor of a pool waited for memory the pool it is to lead to
\* was given up: m_next points at memory that is gone.  What a program does with
\* it is not followed.
Dangling == \E p \in Pools : pools[p].life = "made" /\ pools[p].m_next # s_pools

\* An allocation fails: there is no handler, or trigger () throws.
Fails == BadAlloc \/ (CallbackReturns /\ Len(calls') < Len(calls) - 1)
Allocation == Served \/ BadAlloc \/ trigger

PoolNext ==
    /\ ~Dangling
    /\ \/ Allocation \/ CallbackReturns \/ CallbackThrows \/ reset
       \/ \E n \in Sizes : Allocate(n) \/ Free(n)
       \/ \E p \in Pools, n \in Sizes, last \in BOOLEAN : add(p, n, last)
=============================================================================
