------------------------------- MODULE Signal -------------------------------
(***************************************************************************)
(* Signal.cpp: the handlers of fatal and of quitting signals, nested in    *)
(* each other and in the hooks of the application.  The kernel's part is   *)
(* the delivery: a handler starts with its own signal blocked, its end     *)
(* puts the mask back.                                                     *)
(***************************************************************************)
EXTENDS Integers, Sequences, SequencesExt, FiniteSets

CONSTANTS
    Fatals,         \* signals a running program raises by what it does
    Quits,          \* SIGHUP, SIGTERM and SIGQUIT
    MaxLevel,       \* how deep fatal () goes: 4 in the code
    MaxEvents,      \* bound: signals sent and faults made
    HooksRefuse     \* TRUE: hooks may decline to end a crashed program

INT == "int"
Signals == Fatals \cup Quits \cup {INT}

ASSUME SignalAssumption ==
    /\ INT \notin Fatals \cup Quits /\ Fatals \cap Quits = {} /\ "no" \notin Signals
    /\ HooksRefuse \in BOOLEAN

Options == [AUTO_EXIT : BOOLEAN, ON_QUIT : BOOLEAN, ON_INT : BOOLEAN]

VARIABLES
    disposition,    \* what handle () set: "default", "ignore", "quit" or "fatal"
    blocked, pending,
    frames,         \* the handlers that run, the innermost last
    s_inFatal, s_crashed, s_quitHook, s_fatalOptions,
    ended,          \* the signal that ended the program, or "no"
    leaving,        \* quit () has let the program go
    events          \* signals sent and faults made so far

signalVars == <<disposition, blocked, pending, frames, s_inFatal, s_crashed, s_quitHook, s_fatalOptions, ended, leaving, events>>

Top == frames[Len(frames)]
At(pc) == ended = "no" /\ frames # <<>> /\ Top.pc = pc
Goto(pc) == frames' = [frames EXCEPT ![Len(frames)].pc = pc]
Deliverable == pending \ blocked

\* The application's own code runs: main () or a hook.
InMain == ended = "no" /\ frames = <<>> /\ Deliverable = {}
InCode == InMain \/ ((At("hook") \/ At("quit") \/ At("return")) /\ Deliverable = {})

SignalInit ==
    /\ disposition = [sig \in Signals |-> "default"] /\ blocked = {} /\ pending = {} /\ frames = <<>>
    /\ s_inFatal = 0 /\ s_crashed = FALSE /\ s_quitHook \in BOOLEAN
    /\ s_fatalOptions = [AUTO_EXIT |-> FALSE, ON_QUIT |-> FALSE, ON_INT |-> FALSE]
    /\ ended = "no" /\ leaving = FALSE /\ events = 0

handleQuit ==
    /\ InMain /\ s_quitHook' \in {h \in BOOLEAN : s_quitHook => h}
    /\ disposition' = [sig \in Signals |-> IF sig \in Quits THEN "quit" ELSE disposition[sig]]
    /\ UNCHANGED <<blocked, pending, frames, s_inFatal, s_crashed, s_fatalOptions, ended, leaving, events>>

\* A main return hook comes with every call without AUTO_EXIT, and the client
\* does not take ON_INT back, which would leave the handler where it is.
handleFatal ==
    /\ InMain /\ s_fatalOptions' \in {o \in Options : s_fatalOptions.ON_INT => o.ON_INT}
    /\ disposition' = [sig \in Signals |->
           IF sig \in Fatals \/ (sig \in Quits /\ s_fatalOptions'.ON_QUIT) \/ (sig = INT /\ s_fatalOptions'.ON_INT)
           THEN "fatal" ELSE disposition[sig]]
    /\ UNCHANGED <<blocked, pending, frames, s_inFatal, s_crashed, s_quitHook, ended, leaving, events>>

Happens == events < MaxEvents /\ events' = events + 1

\* Somebody sends a signal.
Send(sig) ==
    /\ ended = "no" /\ sig \notin pending \cup Fatals /\ pending' = pending \cup {sig} /\ Happens
    /\ UNCHANGED <<disposition, blocked, frames, s_inFatal, s_crashed, s_quitHook, s_fatalOptions, ended, leaving>>

Run(sig) ==
    /\ frames' = Append(frames, [sig |-> sig, mask |-> blocked, h |-> disposition[sig],
                                 pc |-> IF disposition[sig] = "fatal" THEN "enter" ELSE "quit"])
    /\ blocked' = blocked \cup {sig}
    /\ UNCHANGED ended

Deliver(sig) ==
    /\ ended = "no" /\ sig \in Deliverable /\ pending' = pending \ {sig}
    /\ CASE disposition[sig] = "default" -> ended' = sig /\ UNCHANGED <<frames, blocked>>
         [] disposition[sig] = "ignore" -> UNCHANGED <<frames, blocked, ended>>
         [] OTHER -> Run(sig)
    /\ UNCHANGED <<disposition, s_inFatal, s_crashed, s_quitHook, s_fatalOptions, leaving, events>>

\* The running code faults; a blocked fault is the end.
Fault(sig) ==
    /\ InCode /\ sig \in Fatals /\ Happens
    /\ IF sig \in blocked \/ disposition[sig] = "default"
       THEN ended' = sig /\ UNCHANGED <<frames, blocked>> ELSE Run(sig)
    /\ UNCHANGED <<disposition, pending, s_inFatal, s_crashed, s_quitHook, s_fatalOptions, leaving>>

-----------------------------------------------------------------------------
\* fatal (): its signal is unblocked first.
Unblock ==
    /\ At("enter") /\ blocked' = blocked \ {Top.sig} /\ Goto("count")
    /\ UNCHANGED <<disposition, pending, s_inFatal, s_crashed, s_quitHook, s_fatalOptions, ended, leaving, events>>

IsFatal(sig) == sig # INT \/ s_fatalOptions.ON_INT

TooDeep(level) == level > MaxLevel

Count ==
    /\ At("count") /\ s_inFatal' = s_inFatal + 1
    /\ IF TooDeep(s_inFatal')
       THEN /\ disposition' = [disposition EXCEPT ![Top.sig] = "default"] /\ ended' = Top.sig
            /\ UNCHANGED <<s_crashed, frames>>
       ELSE /\ s_crashed' = (s_crashed \/ IsFatal(Top.sig)) /\ Goto("decide")
            /\ UNCHANGED <<disposition, ended>>
    /\ UNCHANGED <<blocked, pending, s_quitHook, s_fatalOptions, leaving, events>>

\* A mutant of Decide: the level stays when the main return hook is called.
DecideKeepsLevel ==
    /\ At("decide") /\ Goto(IF s_inFatal > 1 \/ s_fatalOptions.AUTO_EXIT THEN "hook" ELSE "return")
    /\ UNCHANGED <<disposition, blocked, pending, s_inFatal, s_crashed, s_quitHook, s_fatalOptions, ended, leaving, events>>

Decide ==
    /\ At("decide")
    /\ IF s_inFatal > 1 \/ s_fatalOptions.AUTO_EXIT
       THEN Goto("hook") /\ UNCHANGED s_inFatal
       ELSE Goto("return") /\ s_inFatal' = s_inFatal - 1
    /\ UNCHANGED <<disposition, blocked, pending, s_crashed, s_quitHook, s_fatalOptions, ended, leaving, events>>

\* The fatal hook, or fatalDump () for want of one.
Hook(answer) ==
    /\ At("hook") /\ (answer \/ HooksRefuse) /\ Goto(IF answer THEN "quit" ELSE "leave")
    /\ UNCHANGED <<disposition, blocked, pending, s_inFatal, s_crashed, s_quitHook, s_fatalOptions, ended, leaving, events>>

\* The main return hook jumps out of all handlers, back to main ().
Return ==
    /\ At("return") /\ frames' = <<>> /\ blocked' = {}
    /\ UNCHANGED <<disposition, pending, s_inFatal, s_crashed, s_quitHook, s_fatalOptions, ended, leaving, events>>

-----------------------------------------------------------------------------
\* A mutant of Reverted: the handler stays.
RevertedNever(sig) == disposition
Reverted(sig) == [disposition EXCEPT ![sig] = "default"]

\* quit (): a signal that is still blocked waits for the handler to end.
Quit(answer) ==
    /\ At("quit") /\ (answer \/ (s_quitHook /\ (HooksRefuse \/ ~s_crashed)))
    /\ leaving' = (leaving \/ answer)
    /\ IF answer
       THEN /\ disposition' = Reverted(Top.sig)
            /\ IF Top.sig \in blocked THEN pending' = pending \cup {Top.sig} /\ Goto("leave") /\ UNCHANGED ended
               ELSE IF disposition'[Top.sig] = "default" THEN ended' = Top.sig /\ UNCHANGED <<pending, frames>>
               ELSE pending' = pending \cup {Top.sig} /\ Goto("leave") /\ UNCHANGED ended
       ELSE Goto("leave") /\ UNCHANGED <<disposition, pending, ended>>
    /\ UNCHANGED <<blocked, s_inFatal, s_crashed, s_quitHook, s_fatalOptions, events>>

Leave ==
    /\ At("leave") /\ frames' = Front(frames) /\ blocked' = Top.mask
    /\ UNCHANGED <<disposition, pending, s_inFatal, s_crashed, s_quitHook, s_fatalOptions, ended, leaving, events>>

\* What a handler does once it runs.
Handler ==
    \/ Unblock \/ Count \/ Decide \/ Return \/ Leave
    \/ \E answer \in BOOLEAN : Hook(answer) \/ Quit(answer)

SignalNext ==
    \/ handleQuit \/ handleFatal \/ Handler
    \/ \E sig \in Signals : Send(sig) \/ Deliver(sig) \/ Fault(sig)
=============================================================================
