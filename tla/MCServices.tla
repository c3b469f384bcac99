----------------------------- MODULE MCServices -----------------------------
(***************************************************************************)
(* Services of a program that never run at the same time as each other     *)
(* here: signal handlers, reserves of memory, identifiers from the clock,  *)
(* addresses that datagrams are read from and written to.                  *)
(***************************************************************************)
EXTENDS Signal, LowMemoryPool, UUID, SocketAddress

VARIABLE service

vars == <<service, signalVars, poolVars, uuidVars, addressVars>>

\* Two peers of one family and one whose address is longer.
PeerAddresses == {<<2, 7>>, <<2, 8>>, <<10, 7, 7>>}

Init ==
    /\ service \in {"signal", "pool", "uuid", "address"}
    /\ SignalInit /\ PoolInit /\ UUIDInit /\ AddressInit
    /\ service # "uuid" => time = 2
    /\ service # "signal" => s_quitHook

Signalling == service = "signal" /\ SignalNext /\ UNCHANGED <<service, poolVars, uuidVars, addressVars>>
Pooling == service = "pool" /\ PoolNext /\ UNCHANGED <<service, signalVars, uuidVars, addressVars>>
Naming == service = "uuid" /\ UUIDNext /\ UNCHANGED <<service, signalVars, poolVars, addressVars>>
Addressing == service = "address" /\ AddressNext /\ UNCHANGED <<service, signalVars, poolVars, uuidVars>>

Next == Signalling \/ Pooling \/ Naming \/ Addressing

\* A handler that runs goes on and a signal that may be delivered is; the
\* callbacks of pools return.
Spec ==
    /\ Init /\ [][Next]_vars
    /\ WF_vars(Handler /\ Signalling) /\ \A sig \in Signals : WF_vars(Deliver(sig) /\ Signalling)
    /\ WF_vars(Allocation /\ Pooling) /\ SF_vars(CallbackReturns /\ Pooling)

-----------------------------------------------------------------------------
\* fatalLevel () is the number of fatal handlers that run, so that a hook can
\* tell how deep it is in trouble - as long as no hook declines to end a
\* crashed program (Signal.cpp fatal, fatalLevel).
LevelIsDepth ==
    ended = "no" => s_inFatal = Cardinality({i \in DOMAIN frames :
                                    frames[i].h = "fatal" /\ frames[i].pc \in {"decide", "hook", "quit", "leave"}})

\* When a quit hook has let the program go and the handlers are through, the
\* signal that ends it is on its way, whatever came in between (Signal.cpp
\* quit, which leaves the end to a signal its caller may still block).
OnceQuitAlwaysQuit ==
    leaving /\ ended = "no" /\ frames = <<>> => \E sig \in Deliverable : disposition[sig] = "default"

\* The handlers of signals nest, and what they began is gone through with
\* (Signal.cpp:841, quit, fatal).
HandlersNest == LevelIsDepth /\ OnceQuitAlwaysQuit

\* Handlers end, with the program or back in it, once no more signals come
\* (Signal.cpp quit, fatal).
HandlersEnd == (frames # <<>>) ~> (frames = <<>> \/ ended # "no")

\* The pools that can be given up are those that were made and not given up:
\* none is lost and none is used after it is gone (LowMemoryPool.cpp pop,
\* reset, constructor).
ChainWhole == Chained = {p \in Pools : pools[p].life = "alive"}

\* trigger () is the new handler as long as there is a pool, and the handler
\* before it comes back with the last (LowMemoryPool.cpp:19, 52, 104).
HandlersUnwind ==
    /\ handler = IF s_pools = 0 THEN "none" ELSE "trigger"
    /\ \A p \in Chained : pools[p].m_old = IF pools[p].m_next = 0 THEN "none" ELSE "trigger"

\* An allocation fails only when every reserve was given up for it, also that of
\* a new pool (LowMemoryPool.cpp trigger, pop).
FailsOnlyWithoutPools == [][Fails => s_pools = 0]_vars

\* The reserves of memory are a chain of just the pools that are there, under
\* one new handler, whatever allocations, resets and new pools are inside each
\* other - up to the moment when a pool is given up for the memory of the next
\* one, which the constructor does not notice: it has read s_pools before
\* (LowMemoryPool.cpp:15, pop, reset, constructor, destructor).
PoolsUnwind == ~Dangling => ChainWhole /\ HandlersUnwind

\* At some time pools are no longer added.
NoMorePools == <>[][\A p \in Pools : pools'[p].life = "made" => pools[p].life = "made"]_vars

\* Each callback finds its pool given up, so an allocation comes to an end, with
\* memory or without, however callbacks allocate and take pools away, and
\* however often pools are made again - unless that never stops: with callbacks
\* that always add one of the size given up operator new calls trigger () for ever
\* (LowMemoryPool.cpp:40, trigger, pop).
AllocationsEnd == NoMorePools => ((calls # <<>>) ~> (calls = <<>> \/ Dangling))

\* Neither a signal handler nor an allocation goes on for ever (Signal.cpp fatal,
\* LowMemoryPool.cpp trigger).
CallsEnd == HandlersEnd /\ AllocationsEnd

\* No identifier is given twice from one reading of the clock, nor from readings
\* further apart than the adjustments reach, nor before and after the clock was
\* set back.  From readings that are closer the same one may come twice
\* (UUID.cpp generateTime).
IdentifiersDiffer ==
    [][generateTime =>
          /\ given' # given
          /\ \A old \in given, new \in given' \ given :
                old.stamp = new.stamp /\ old.seq = new.seq =>
                    /\ old.time < new.time
                    /\ (new.time - old.time) * Step < (MAX_ADJUSTMENT + 1) * Unit]_vars

\* What is given out is given out when it may be: no identifier twice, and no
\* failure of an allocation before the last reserve (UUID.cpp:314,
\* LowMemoryPool.cpp trigger).
GivenAsPromised == IdentifiersDiffer /\ FailsOnlyWithoutPools
=============================================================================
