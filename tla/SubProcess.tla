----------------------------- MODULE SubProcess -----------------------------
(***************************************************************************)
(* A parent that runs children through SubProcess and PipeCmd, with the    *)
(* descriptor tables, pipes and process table of the kernel: who holds     *)
(* which end of which pipe, who has been reaped, whom a signal reaches.    *)
(*                                                                         *)
(* A child that reads a pipe runs until that is at its end: until nobody   *)
(* anywhere holds its write end.  What the children write fits into the    *)
(* buffers of the pipes.  A call of the library is one step, except that   *)
(* wait () returns in a step of its own; nothing the children do in        *)
(* between concerns the parent's tables.                                   *)
(***************************************************************************)
EXTENDS Integers, FiniteSets, Sequences, FiniteSetsExt

CONSTANTS
    Objects,        \* the SubProcess objects of the client
    MaxProcs,       \* children forked in all
    MaxPipes,       \* pipes made in all
    Rules           \* the rules the client keeps: of "detach after failure", "terminate the running",
                    \* "close once", "no fork while writing", "detach before run", "close before wait",
                    \* "last with pipe", "live ends"

VARIABLES
    fds,            \* the parent's descriptors
    chan,           \* pipe |-> the numbers its two channels hold
    npipes, proc,   \* the pipes made; the children, in the order of their forks
    obj,            \* object |-> [sub, status, pipe, started]
    cmd,            \* object |-> the number the channel of a PipeCmd holds
    pc,             \* the object whose wait () has not returned, or Idle
    failed,         \* an ASSERT has failed
    strays          \* what the calls did to others: "kill", "reap", "close"

vars == <<fds, chan, npipes, proc, obj, cmd, pc, failed, strays>>

Pipes   == 1..MaxPipes
Pids    == 1..MaxProcs
LastFd  == 2 + 2 * MaxPipes
Numbers == 0..LastFd
Invalid == -1
NoNumbers == [source |-> Invalid, sink |-> Invalid]
NoPipe  == 0
Idle    == "idle"
Free    == <<0, "free">>
Tty     == <<0, "tty">>
End(p, e) == <<p, e>>

NoStatus == -1

Fresh == [sub |-> 0, status |-> NoStatus, pipe |-> NoPipe, started |-> FALSE]

Init ==
    /\ fds = [n \in Numbers |-> IF n <= 2 THEN Tty ELSE Free]
    /\ chan = [p \in Pipes |-> NoNumbers]
    /\ npipes = 0 /\ proc = <<>>
    /\ obj = [o \in Objects |-> Fresh] /\ cmd = [o \in Objects |-> Invalid]
    /\ pc = Idle /\ failed = FALSE /\ strays = {}

-----------------------------------------------------------------------------
(* The kernel. *)

Lowest(table) == Min({n \in DOMAIN table : table[n] = Free})
Closed(table, n) == IF n \in DOMAIN table THEN [table EXCEPT ![n] = Free] ELSE table
Dup(table, from, to) == [table EXCEPT ![to] = table[from]]

Alive == {k \in DOMAIN proc : proc[k].state = "running"}
Writers(p) == (IF \E n \in Numbers : fds[n] = End(p, "w") THEN {0} ELSE {})
              \cup {k \in Alive : \E n \in Numbers : proc[k].fds[n] = End(p, "w")}

\* A child may come to its end: there is nothing left it could read.
AtEnd(k) == LET in == proc[k].fds[0] IN in[2] = "r" => Writers(in[1]) = {}

\* What is left of a child; its descriptors are closed.
Zombie(code) == [state |-> "zombie", code |-> code, ends |-> <<Tty, Tty>>, fds |-> [n \in Numbers |-> Free]]

Exit(k) ==
    /\ k \in Alive /\ AtEnd(k)
    /\ proc' = [proc EXCEPT ![k] = Zombie(0)]
    /\ UNCHANGED <<fds, chan, npipes, obj, cmd, pc, failed, strays>>

-----------------------------------------------------------------------------
(* Pipe *)

\* pipe () takes the two lowest descriptors that are free.
PipeOpens(table, p) ==
    LET r  == Lowest(table)
        t1 == [table EXCEPT ![r] = End(p, "r")]
        w  == Lowest(t1)
    IN  [table |-> [t1 EXCEPT ![w] = End(p, "w")], source |-> r, sink |-> w]

-----------------------------------------------------------------------------
(* SubProcess: "in", "out" and "cleanup" are the numbers the channels hold, *)
(* Invalid for none.                                                        *)

Or(n, default) == IF n = Invalid THEN default ELSE n

\* A mutant of ChildTable: the clean-up is left out.
ChildTableKeepsOther(table, in, out, cleanup) == Dup(Dup(table, Or(in, 0), 0), Or(out, 1), 1)

\* The child's table; a channel that holds a number that is not open ends it.
ChildTable(table, in, out, cleanup) ==
    LET i == Or(in, 0)
        o == Or(out, 1)
        d == Dup(Dup(table, i, 0), o, 1)
        a == IF i # 0 THEN Closed(d, i) ELSE d
        b == IF o # 1 THEN Closed(a, o) ELSE a
    IN  Closed(b, cleanup)

ParentTable(table, in, out, flags) ==
    LET a == IF in # Invalid /\ "NoCloseInput" \notin flags THEN Closed(table, in) ELSE table
    IN  IF out # Invalid /\ "NoCloseOutput" \notin flags THEN Closed(a, out) ELSE a

\* A descriptor the parent closes that is not an end of the pipe it was to close.
Hit(table, n, e) == n # Invalid /\ table[n] # Free /\ table[n] # e

\* fork () and what both sides do then; "ends" are the ends the client means.
sysrun(o, table, in, out, cleanup, flags, ends, mine) ==
    LET opened == table[Or(in, 0)] # Free /\ table[Or(out, 1)] # Free
        child  == IF opened THEN [state |-> "running", code |-> 0, ends |-> ends,
                                  fds |-> ChildTable(table, in, out, cleanup)]
                  ELSE Zombie(255)
    IN  /\ proc' = Append(proc, child)
        /\ fds' = ParentTable(table, in, out, flags)
        /\ obj' = [obj EXCEPT ![o] = [sub |-> Len(proc) + 1, status |-> NoStatus, pipe |-> mine, started |-> TRUE]]
        /\ strays' = strays \cup
              (IF \/ Hit(table, in, ends[1]) /\ "NoCloseInput" \notin flags
                  \/ Hit(table, out, ends[2]) /\ "NoCloseOutput" \notin flags THEN {"close"} ELSE {})

\* fork () fails: the object is left with the answer of fork ().
ForkFails(o, table, mine) ==
    /\ fds' = table
    /\ obj' = [obj EXCEPT ![o] = [sub |-> -1, status |-> NoStatus, pipe |-> mine, started |-> TRUE]]
    /\ UNCHANGED <<proc, strays>>

\* The object a run () starts from: one that still has a child detaches first.
Detached(o) == obj[o].sub # 0 \/ ~obj[o].started

dorun(o, in, out, cleanup, flags, ends) ==
    LET made  == out = Invalid /\ ("Read" \in flags \/ "Last" \notin flags)
        new   == PipeOpens(fds, npipes + 1)
        table == IF made THEN new.table ELSE fds
        o1    == IF made THEN new.sink ELSE out
        c1    == IF made THEN new.source ELSE cleanup
        e1    == IF made THEN <<ends[1], End(npipes + 1, "w")>> ELSE ends
        mine  == IF made THEN npipes + 1 ELSE NoPipe
    IN  /\ Len(proc) < MaxProcs /\ (made => npipes < MaxPipes)
        /\ IF Detached(o)
           THEN /\ npipes' = IF made THEN npipes + 1 ELSE npipes
                /\ chan' = [p \in Pipes |-> IF p = mine THEN [source |-> new.source, sink |-> new.sink]
                                            ELSE IF p = obj[o].pipe THEN NoNumbers ELSE chan[p]]
                /\ \/ sysrun(o, table, in, o1, c1, flags, e1, mine)
                   \/ ForkFails(o, table, mine)
                /\ UNCHANGED failed
           ELSE failed' = TRUE /\ UNCHANGED <<npipes, chan, fds, proc, obj, strays>>
        /\ UNCHANGED <<cmd, pc>>

Rule(r, holds) == r \in Rules => holds

\* What the parent holds open to write to a child that reads it.
Held == {p \in Pipes : \E n \in Numbers : fds[n] = End(p, "w")}

Source(p) == chan[p].source
Sink(p) == chan[p].sink
Live(p, e) == LET n == IF e = "r" THEN Source(p) ELSE Sink(p) IN n # Invalid /\ fds[n] = End(p, e)

MayFork(o, p) ==
    /\ pc = Idle /\ ~failed
    /\ Rule("detach before run", obj[o].sub # 0 \/ ~obj[o].started)
    /\ Rule("no fork while writing", Held \subseteq {p})

\* run (argz, flags): no redirection but, without Last, of the output.
Run(o, flags) ==
    /\ MayFork(o, NoPipe) /\ cmd[o] = Invalid
    /\ dorun(o, Invalid, Invalid, Invalid, flags, <<Tty, Tty>>)

\* run (argz, flags, pipe): the child writes to the pipe or reads from it.
RunPipe(o, p, flags) ==
    /\ MayFork(o, p) /\ cmd[o] = Invalid /\ p <= npipes
    /\ Rule("live ends", IF "Read" \in flags THEN Live(p, "w") ELSE Live(p, "r"))
    /\ Rule("last with pipe", "Last" \in flags)
    /\ IF "Read" \in flags
       THEN dorun(o, Invalid, Sink(p), Source(p), flags \cup {"NoCloseInput"}, <<Tty, End(p, "w")>>)
       ELSE dorun(o, Source(p), Invalid, Sink(p), flags, <<End(p, "r"), Tty>>)

\* run (argz, flags, other): the child reads what another one writes.
RunSub(o, other, flags) ==
    LET p == obj[other].pipe IN
    /\ MayFork(o, NoPipe) /\ cmd[o] = Invalid /\ other # o /\ p # NoPipe
    /\ Rule("live ends", Live(p, "r"))
    /\ dorun(o, Source(p), Invalid, Invalid, flags, <<End(p, "r"), Tty>>)

\* The client makes a Pipe of its own, and closes a channel of one.
NewPipe ==
    /\ pc = Idle /\ ~failed /\ npipes < MaxPipes
    /\ LET new == PipeOpens(fds, npipes + 1)
       IN  /\ fds' = new.table
           /\ chan' = [chan EXCEPT ![npipes + 1] = [source |-> new.source, sink |-> new.sink]]
    /\ npipes' = npipes + 1
    /\ UNCHANGED <<proc, obj, cmd, pc, failed, strays>>

\* IOChannel::close (): the number is forgotten.
CloseChannel(p, e) ==
    LET n == IF e = "r" THEN Source(p) ELSE Sink(p) IN
    /\ pc = Idle /\ ~failed /\ n # Invalid
    /\ Rule("close once", fds[n] = End(p, e))
    /\ strays' = IF Hit(fds, n, End(p, e)) THEN strays \cup {"close"} ELSE strays
    /\ fds' = Closed(fds, n)
    /\ chan' = IF e = "r" THEN [chan EXCEPT ![p].source = Invalid] ELSE [chan EXCEPT ![p].sink = Invalid]
    /\ UNCHANGED <<npipes, proc, obj, cmd, pc, failed>>

-----------------------------------------------------------------------------
(* The end of a child *)

Zombies == {k \in DOMAIN proc : proc[k].state = "zombie"}
Reaped(k) == [proc EXCEPT ![k] = [Zombie(0) EXCEPT !.state = "reaped"]]

\* done (): after a fork () that failed it asks for any child.
Done(o) ==
    /\ pc = Idle /\ ~failed /\ obj[o].sub # 0
    /\ Rule("detach after failure", obj[o].sub # -1)
    /\ IF obj[o].sub = -1
       THEN /\ \E k \in Zombies : proc' = Reaped(k)
            /\ strays' = strays \cup {"reap"} /\ UNCHANGED obj
       ELSE /\ obj[o].sub \in Zombies
            /\ proc' = Reaped(obj[o].sub)
            /\ obj' = [obj EXCEPT ![o].sub = 0, ![o].status = proc[obj[o].sub].code]
            /\ UNCHANGED strays
    /\ UNCHANGED <<fds, chan, npipes, cmd, pc, failed>>

\* Whether nothing the child waits for is in the hands of the parent.
Fed(o) == obj[o].sub \in DOMAIN proc =>
              LET in == proc[obj[o].sub].fds[0] IN in[2] = "r" => in[1] \notin Held

Wait(o) ==
    /\ pc = Idle /\ ~failed /\ obj[o].sub # 0
    /\ Rule("detach after failure", obj[o].sub # -1)
    /\ Rule("close before wait", Fed(o))
    /\ pc' = o
    /\ UNCHANGED <<fds, chan, npipes, proc, obj, cmd, failed, strays>>

WaitReturns ==
    /\ pc # Idle /\ ~failed
    /\ \E k \in Zombies :
           IF obj[pc].sub = -1
           THEN /\ proc' = Reaped(k) /\ failed' = TRUE
                /\ strays' = strays \cup {"reap"} /\ UNCHANGED obj
           ELSE /\ k = obj[pc].sub
                /\ proc' = Reaped(k)
                /\ obj' = [obj EXCEPT ![pc].sub = 0, ![pc].status = proc[k].code]
                /\ UNCHANGED <<failed, strays>>
    /\ pc' = Idle
    /\ UNCHANGED <<fds, chan, npipes, cmd>>

\* terminate (): process 0 is the group of the parent, -1 everybody.
Terminate(o) ==
    LET k == obj[o].sub IN
    /\ pc = Idle /\ ~failed
    /\ Rule("terminate the running", k > 0)
    /\ IF k \in Alive \cup Zombies
       THEN /\ proc' = IF k \in Alive THEN [proc EXCEPT ![k] = Zombie(15)] ELSE proc
            /\ UNCHANGED strays
       ELSE strays' = strays \cup {"kill"} /\ UNCHANGED proc
    /\ UNCHANGED <<fds, chan, npipes, obj, cmd, pc, failed>>

\* detach (): the child is left alone, the pipe made for it is dropped with its
\* channels, which does not close the end that the parent has of it.
Detach(o) ==
    /\ pc = Idle /\ ~failed /\ obj[o].started /\ cmd[o] = Invalid
    /\ obj' = [obj EXCEPT ![o] = Fresh]
    /\ chan' = IF obj[o].pipe = NoPipe THEN chan
               ELSE [chan EXCEPT ![obj[o].pipe] = NoNumbers]
    /\ UNCHANGED <<fds, npipes, proc, cmd, pc, failed, strays>>

-----------------------------------------------------------------------------
(* PipeCmd: a SubProcess and a Pipe of its own; the channel it is takes the *)
(* number of the parent's end.  Nobody else gets at the two channels.        *)

CmdOpen(o, mode) ==
    LET new == PipeOpens(fds, npipes + 1) p == npipes + 1 IN
    /\ MayFork(o, NoPipe) /\ cmd[o] = Invalid /\ ~obj[o].started
    /\ npipes < MaxPipes /\ Len(proc) < MaxProcs
    /\ npipes' = p
    /\ IF mode = "Read"
       THEN /\ sysrun(o, new.table, Invalid, new.sink, new.source, {"NoCloseInput"}, <<Tty, End(p, "w")>>, NoPipe)
            /\ cmd' = [cmd EXCEPT ![o] = new.source]
       ELSE /\ sysrun(o, new.table, new.source, Invalid, new.sink, {}, <<End(p, "r"), Tty>>, NoPipe)
            /\ cmd' = [cmd EXCEPT ![o] = new.sink]
    /\ UNCHANGED <<chan, pc, failed>>

CmdClose(o) ==
    /\ pc = Idle /\ ~failed /\ cmd[o] # Invalid
    /\ fds' = Closed(fds, cmd[o]) /\ cmd' = [cmd EXCEPT ![o] = Invalid]
    /\ UNCHANGED <<chan, npipes, proc, obj, pc, failed, strays>>

-----------------------------------------------------------------------------
Next ==
    \/ \E k \in Pids : Exit(k)
    \/ NewPipe \/ WaitReturns
    \/ \E p \in Pipes, e \in {"r", "w"} : CloseChannel(p, e)
    \/ \E o \in Objects :
          \/ Done(o) \/ Wait(o) \/ Terminate(o) \/ Detach(o) \/ CmdClose(o)
          \/ \E mode \in {"Read", "Write"} : CmdOpen(o, mode)
          \/ \E flags \in SUBSET {"Last"} :
                \/ Run(o, flags)
                \/ \E other \in Objects : RunSub(o, other, flags)
                \/ \E p \in Pipes, mode \in {"Read", "Write"} : RunPipe(o, p, flags \cup {mode})

TypeOK ==
    /\ fds \in [Numbers -> {Free, Tty} \cup {End(p, e) : p \in Pipes, e \in {"r", "w"}}]
    /\ npipes \in 0..MaxPipes /\ Len(proc) <= MaxProcs
    /\ \A p \in Pipes : {Source(p), Sink(p)} \subseteq Numbers \cup {Invalid}
    /\ \A o \in Objects : obj[o].sub \in {-1, 0} \cup DOMAIN proc /\ obj[o].pipe \in 0..npipes
    /\ pc \in Objects \cup {Idle} /\ strays \subseteq {"kill", "reap", "close"}

\* A child has the ends it was to have as its standard input and output
\* (UnixSubProcess.cpp sysrun, SubProcess.cpp run and dorun).
Connected == \A k \in Alive : <<proc[k].fds[0], proc[k].fds[1]>> = proc[k].ends

\* A child does not hold the other ends of the pipes it reads and writes, for
\* then its input would never end (the clean-up channel of sysrun).
OtherEndsDropped ==
    \A k \in Alive, n \in Numbers :
        /\ proc[k].ends[1][2] = "r" => proc[k].fds[n] # End(proc[k].ends[1][1], "w")
        /\ proc[k].ends[2][2] = "w" => proc[k].fds[n] # End(proc[k].ends[2][1], "r")

\* No call closes a descriptor that is something else by now, reaps the child
\* of somebody else or sends a signal to others than the child.
NobodyElseIsHit == strays = {}

\* A PipeCmd closes an end that is still there and that no Pipe and no other
\* PipeCmd has a channel to.
CommandsOwn ==
    \A o \in Objects : cmd[o] # Invalid =>
        /\ \E p \in 1..npipes, e \in {"r", "w"} : fds[cmd[o]] = End(p, e) /\ chan[p] = NoNumbers
        /\ \A q \in Objects : cmd[q] = cmd[o] => q = o

\* No ASSERT of SubProcess fails (dorun wants an object as good as new).
NoAssertFails == ~failed

\* wait () returns: whoever the child waits for has closed what it reads.
WaitEnds == pc # Idle ~> pc = Idle

\* A child that can end ends, and wait () returns once its child has.
Fairness == WF_vars(WaitReturns) /\ \A k \in Pids : WF_vars(Exit(k))

Spec == Init /\ [][Next]_vars /\ Fairness
=============================================================================
