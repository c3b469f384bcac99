---------------------------- MODULE ReadyDelivery ----------------------------
(***************************************************************************)
(* What IOSelector promises a client that keeps its rules, without any     *)
(* descriptor, fd_set, index or counter: a set of attached channels with   *)
(* their masks, and for each what the last wait reported and nobody        *)
(* received yet.  Each report is delivered exactly once, to the channel it *)
(* was made for, and a loop ends when none is left.                        *)
(***************************************************************************)
CONSTANTS Channels, Kinds

VARIABLES
    attached,   \* the channels being listened to
    interest,   \* the mask of each attached channel, {} for the others
    pending,    \* what was reported and not delivered
    phase,      \* who runs: the client, a loop, or a handler
    event       \* the last delivery

vars == <<attached, interest, pending, phase, event>>

Nothing == [c \in Channels |-> {}]

Init ==
    /\ attached = {}
    /\ interest = Nothing
    /\ pending = Nothing
    /\ phase = "client"
    /\ event = [source |-> "none", events |-> {}]

ClientRuns == phase \in {"client", "handler"}

Attach(c, mask) ==
    /\ ClientRuns
    /\ c \notin attached
    /\ attached' = attached \cup {c}
    /\ interest' = [interest EXCEPT ![c] = mask]
    /\ UNCHANGED <<pending, phase, event>>

Forget(c) ==
    /\ c \in attached
    /\ attached' = attached \ {c}
    /\ interest' = [interest EXCEPT ![c] = {}]
    /\ pending' = [pending EXCEPT ![c] = {}]

Detach(c) == ClientRuns /\ Forget(c) /\ UNCHANGED <<phase, event>>

SetMask(c, mask) ==
    /\ ClientRuns
    /\ c \in attached
    /\ interest' = [interest EXCEPT ![c] = mask]
    /\ UNCHANGED <<attached, pending, phase, event>>

Clear ==
    /\ ClientRuns
    /\ attached' = {}
    /\ interest' = Nothing
    /\ pending' = Nothing
    /\ UNCHANGED <<phase, event>>

\* A wait forgets what the one before it reported.  A loop is entered only
\* with something to deliver.
Wait ==
    /\ phase = "client"
    /\ pending' \in [Channels -> SUBSET Kinds]
    /\ \A c \in Channels : pending'[c] \subseteq interest[c]
    /\ \/ phase' = "client"
       \/ phase' = "loop" /\ pending' # Nothing
    /\ UNCHANGED <<attached, interest, event>>

\* What is delivered is what was reported, less what the client has since
\* lost interest in.
Deliver(c) ==
    /\ phase \in {"client", "loop"}
    /\ pending[c] # {}
    /\ event' = [source |-> c, events |-> pending[c] \cap interest[c]]
    /\ pending' = [pending EXCEPT ![c] = {}]
    /\ phase' \in {"handler", "detach"}
    /\ UNCHANGED <<attached, interest>>

\* The source of the delivery is removed for the client, by dispatch after
\* the handler asked for it and by pump before the handler runs.
DetachSource ==
    /\ phase = "detach"
    /\ Forget(event.source)
    /\ phase' \in {"loop", "handler"}
    /\ UNCHANGED event

HandlerReturns ==
    /\ phase = "handler"
    /\ phase' \in {"client", "loop", "detach"}
    /\ UNCHANGED <<attached, interest, pending, event>>

LoopEnds ==
    /\ phase = "loop"
    /\ pending = Nothing
    /\ phase' = "client"
    /\ UNCHANGED <<attached, interest, pending, event>>

Next ==
    \/ \E c \in Channels : Detach(c) \/ Deliver(c)
    \/ \E c \in Channels, mask \in SUBSET Kinds : Attach(c, mask) \/ SetMask(c, mask)
    \/ Clear \/ Wait \/ DetachSource \/ HandlerReturns \/ LoopEnds

Spec == Init /\ [][Next]_vars
=============================================================================
