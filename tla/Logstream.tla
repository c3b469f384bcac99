----------------------------- MODULE Logstream ------------------------------
(***************************************************************************)
(* Logging.  The stream: what the environment says of the modes, which of  *)
(* what is sent is accepted, how it is gathered in the buffer and cut into *)
(* lines, and the header each line is given, with the mode and the state   *)
(* it was written in (Log.cpp); how the header looks is left out.  The     *)
(* sinks: the one to a file closes the file and opens it again by its name *)
(* every FLUSH_INTERVAL bytes, while somebody else moves files with that   *)
(* name away (LogFile.cpp); the one to a socket reads a host and a port    *)
(* (LogSocket.cpp).                                                        *)
(***************************************************************************)
EXTENDS Integers, FiniteSets, Sequences, SequencesExt, FiniteSetsExt

CONSTANTS
    Flags, Static,          \* the log modes (sequences of characters); those known from the start
    Environments,           \* the values LOG_MODES may have
    Pieces,                 \* the strings that are written; "\n" ends a line
    Levels,                 \* the levels of LOG ()
    SIZE,                   \* the size of the buffer
    MaxSent, MaxTold,       \* characters written in all; modes the client selects or unselects
    StreamRules,            \* the rules the client keeps: of "end the line", "select the others"
    MaxFiles,               \* files that come to bear the name of the log, in all
    FLUSH_INTERVAL,         \* characters between two openings of the log file
    Privileged              \* whether the process may open any file, whatever its mode says

VARIABLES
    env, flag, logger, log,
    told, wanted            \* what the client said of each mode; what it may expect to be written

streamVars == <<env, flag, logger, log, told, wanted>>

-----------------------------------------------------------------------------
(* What the environment says of a mode (checkMode): a scan of LOG_MODES.   *)

Separators == {",", ":", " "}
Digit      == {"0", "1", "2", "3"}
Unsaid     == [said |-> FALSE, selected |-> FALSE, level |-> -1]
NoLevel    == -1

\* The first position from i on with a character of "stops", or the end.
Stop(modes, i, stops) == Min({k \in i..Len(modes) + 1 : k > Len(modes) \/ modes[k] \in stops})

Value(digits) == FoldLeft(LAMBDA v, d : 10 * v + (CHOOSE n \in 0..3 : ToString(n) = d), 0, digits)

\* strncmp (mode.name, start, modes - start) == 0
Names(name, modes, start, end) == IsPrefix(SubSeq(modes, start, end - 1), name)

\* The level behind the name of a mode, which ends at i.
LevelAt(modes, i, default) ==
    IF i > Len(modes) \/ modes[i] # "/" THEN default
    ELSE LET end == Min({k \in i + 1..Len(modes) + 1 : k > Len(modes) \/ modes[k] \notin Digit})
         IN  IF end = i + 1 THEN NoLevel ELSE Value(SubSeq(modes, i + 1, end - 1))

\* "default" is the value of LOG_LEVEL, NoLevel when it is not set.
RECURSIVE Scan(_, _, _, _)
Scan(name, modes, i, default) ==
    IF i > Len(modes) THEN Unsaid
    ELSE IF modes[i] \in Separators THEN Scan(name, modes, i + 1, default)
    ELSE IF modes[i] \in {"-", "!"}
    THEN LET end == Stop(modes, i + 1, Separators)
         IN  IF Names(name, modes, i + 1, end) THEN [said |-> TRUE, selected |-> FALSE, level |-> NoLevel]
             ELSE Scan(name, modes, end, default)
    ELSE LET start == IF modes[i] = "+" THEN i + 1 ELSE i
             end   == Stop(modes, start, Separators \cup {"/"})
         IN  IF Names(name, modes, start, end)
             THEN [said |-> TRUE, selected |-> TRUE, level |-> LevelAt(modes, end, default)]
             ELSE Scan(name, modes, end, default)

checkMode(name, modes, default) == Scan(name, modes, 1, default)

-----------------------------------------------------------------------------
(* The stream: its flags and its state                                     *)

LFall   == <<"a", "l", "l">>
LFnever == <<"n", "e", "v", "e", "r">>
States  == {"Trace", "Error"}
Newline == "\n"

StreamInit ==
    /\ env \in Environments
    /\ flag = [f \in Flags |-> [selected |-> f \notin {LFall, LFnever}, level |-> NoLevel, known |-> f \in Static]]
    /\ logger = "none" /\ told = [f \in Flags |-> "nothing"] /\ wanted = TRUE
    /\ log = [mode |-> LFall, state |-> "Trace", selected |-> TRUE, enabled |-> TRUE,
              newline |-> TRUE, buffer |-> <<>>, out |-> <<>>, sent |-> <<>>]

-----------------------------------------------------------------------------
(* The buffer *)

Header(l)  == [header |-> TRUE, mode |-> l.mode, state |-> l.state, c |-> ""]
Char(l, c) == [header |-> FALSE, mode |-> l.mode, state |-> l.state, c |-> c]

emit(l, text) == [l EXCEPT !.out = @ \o text]
Emptied(l) == [emit(l, l.buffer) EXCEPT !.buffer = <<>>]

readjust(l) == [emit(l, <<Header(l)>>) EXCEPT !.newline = FALSE]
Begun(l) == IF l.newline THEN readjust(l) ELSE l

\* buf::overflow (): one character.
overflow(l, ch) ==
    LET a == [Begun(l) EXCEPT !.buffer = Append(@, ch)]
    IN  IF ch.c = Newline \/ Len(a.buffer) = SIZE THEN [Emptied(a) EXCEPT !.newline = ch.c = Newline]
        ELSE a

\* A mutant of Segment: what follows the buffer goes out ahead of it.
SegmentAhead(l, s) ==
    LET a == [Begun(l) EXCEPT !.newline = Last(s).c = Newline]
    IN  IF ~a.newline /\ Len(s) < SIZE - Len(a.buffer) THEN [a EXCEPT !.buffer = @ \o s] ELSE emit(a, s)

\* One round of buf::xsputn (): up to the end of a line or of the string.
Segment(l, s) ==
    LET ends == Last(s).c = Newline
        a == [Begun(l) EXCEPT !.newline = ends]
        n == IF a.buffer = <<>> THEN 0 ELSE Min({SIZE - Len(a.buffer), Len(s)})
        b == [a EXCEPT !.buffer = @ \o SubSeq(s, 1, n)]
        d == IF b.buffer # <<>> /\ (Len(b.buffer) = SIZE \/ ends) THEN Emptied(b) ELSE b
        rest == SubSeq(s, n + 1, Len(s))
    IN  IF ~ends /\ Len(rest) < SIZE - Len(d.buffer) THEN [d EXCEPT !.buffer = @ \o rest]
        ELSE emit(d, rest)

Cuts(s) == {0, Len(s)} \cup {i \in DOMAIN s : s[i].c = Newline}
xsputn(l, s) ==
    LET at == SetToSortSeq(Cuts(s), <)
    IN  FoldLeft(Segment, l, [k \in 1..Len(at) - 1 |-> SubSeq(s, at[k] + 1, at[k + 1])])

-----------------------------------------------------------------------------
(* The stream *)

Accepts(l) == l.enabled /\ l.selected

\* operator<<
Insert(l, text) ==
    LET s == [i \in DOMAIN text |-> Char(l, text[i])]
    IN  IF Accepts(l) THEN [xsputn(l, s) EXCEPT !.sent = @ \o s] ELSE l

\* put ()
PutChar(l, c) ==
    IF Accepts(l) THEN [overflow(l, Char(l, c)) EXCEPT !.sent = Append(@, Char(l, c))] ELSE l

EndLine(l) == IF l.newline THEN l ELSE Insert(l, <<Newline>>)

\* registerMode () and, for those known from the start, logger ().
Registered(f, mode) ==
    LET said == checkMode(mode, env, NoLevel)
    IN  [f EXCEPT ![mode] = [selected |-> IF said.said THEN said.selected ELSE @.selected,
                             level |-> IF said.said /\ said.selected THEN said.level ELSE @.level,
                             known |-> TRUE]]
registerMode(f, mode) == IF f[mode].known THEN f ELSE Registered(f, mode)
AllChecked(f) == FoldSet(LAMBDA m, g : Registered(g, m), f, Static \ {LFall, LFnever})

\* Whether output in a mode and at a level is selected.
Chosen(f, mode, level) ==
    IF f[mode].level >= 0 /\ level > f[mode].level THEN FALSE
    ELSE f[LFall].selected \/ (~f[LFnever].selected /\ mode # LFnever /\ f[mode].selected)

WithMode(l, f, mode, level) ==
    LET a == IF l.mode # mode THEN EndLine(l) ELSE l
    IN  [a EXCEPT !.mode = mode, !.selected = Chosen(f, mode, level)]

\* The state (of three) is changed first, the line is ended then.
WithState(l, state) == IF state = l.state THEN l ELSE EndLine([l EXCEPT !.state = state])

-----------------------------------------------------------------------------
Rule(r, holds) == r \in StreamRules => holds

\* What is wanted, told from what was said and not from the flags: the client has
\* the last word on a mode, the environment the first; "all" and "never" are
\* the client's alone, and "all" overrides "never".
On(mode) ==
    LET said == checkMode(mode, env, NoLevel) IN
    CASE told[mode] # "nothing" -> told[mode] = "select"
      [] told[mode] = "nothing" /\ mode \in {LFall, LFnever} -> FALSE
      [] OTHER -> said.said => said.selected
WithinLevel(mode, level) ==
    LET said == checkMode(mode, env, NoLevel) IN
    mode \in {LFall, LFnever} \/ ~said.selected \/ said.level < 0 \/ level <= said.level
Wanted(mode, level) ==
    WithinLevel(mode, level) /\ (On(LFall) \/ (~On(LFnever) /\ mode # LFnever /\ On(mode)))

\* "end the line": a line that has begun is not deselected before its end.
LineKept(l) == Rule("end the line", l.newline \/ Accepts(l))
Fits(l) == Len(l.sent) <= MaxSent
Tell(mode, word) ==
    /\ told' = [told EXCEPT ![mode] = word]
    /\ Cardinality({m \in Flags : told'[m] # "nothing"}) <= MaxTold

\* What is written is remembered up to the first LOG () on a new line.
Forgotten(l) == IF l.newline /\ l.buffer = <<>> THEN [l EXCEPT !.out = <<>>, !.sent = <<>>] ELSE l

\* LOG (level, what, mode): the mode, then the state; logger () the first time,
\* when the device may fail and leave the sink.
Log(mode, level, state) ==
    LET f == IF logger = "none" THEN registerMode(AllChecked(flag), mode) ELSE registerMode(flag, mode)
    IN  /\ logger' \in IF logger = "none" THEN {"device", "sink"} ELSE {logger}
        /\ flag' = f
        /\ log' = WithState(WithMode(Forgotten(log), f, mode, level), state)
        /\ wanted' = Wanted(mode, level)
        /\ Fits(log') /\ LineKept(log') /\ UNCHANGED <<env, told>>

Write(text) ==
    /\ logger # "none" /\ log' = Insert(log, text) /\ Fits(log')
    /\ UNCHANGED <<env, flag, logger, told, wanted>>

Put(c) ==
    /\ logger # "none" /\ log' = PutChar(log, c) /\ Fits(log')
    /\ UNCHANGED <<env, flag, logger, told, wanted>>

\* select () and unselect (): what the level says is not asked for.
Select(mode) ==
    /\ logger # "none" /\ Rule("select the others", mode # log.mode)
    /\ flag' = [registerMode(flag, mode) EXCEPT ![mode].selected = TRUE]
    /\ log' = IF mode = log.mode THEN [log EXCEPT !.selected = mode # LFnever] ELSE log
    /\ Tell(mode, "select") /\ UNCHANGED <<env, logger, wanted>>

Unselect(mode) ==
    /\ logger # "none" /\ Rule("select the others", mode # log.mode)
    /\ flag' = [registerMode(flag, mode) EXCEPT ![mode].selected = FALSE]
    /\ log' = IF mode = log.mode THEN [log EXCEPT !.selected = flag'[LFall].selected] ELSE log
    /\ Tell(mode, "unselect") /\ LineKept(log') /\ UNCHANGED <<env, logger, wanted>>

Enable(value) ==
    /\ logger # "none" /\ log.enabled # value
    /\ log' = [log EXCEPT !.enabled = value]
    /\ LineKept(log') /\ UNCHANGED <<env, flag, logger, told, wanted>>

StreamNext ==
    \/ \E mode \in Flags, level \in Levels, state \in States : Log(mode, level, state)
    \/ \E text \in Pieces : Write(text)
    \/ \E c \in {"x", Newline} : Put(c)
    \/ \E mode \in Flags : Select(mode) \/ Unselect(mode)
    \/ \E value \in BOOLEAN : Enable(value)

-----------------------------------------------------------------------------
StreamTypeOK ==
    /\ flag \in [Flags -> [selected : BOOLEAN, level : -1..3, known : BOOLEAN]]
    /\ log.mode \in Flags /\ log.state \in States /\ Len(log.buffer) < SIZE
    /\ logger \in {"none", "sink", "device"}

\* Whatever is accepted comes out, once and in its order, through the buffer
\* (Log.cpp buf::overflow and buf::xsputn).
NothingLost == SelectSeq(log.out, LAMBDA t : ~t.header) \o log.buffer = log.sent

\* Each line has a header of its own, and that tells the mode and the state in
\* which all of the line was written (readjust, mode, state).
HeaderOf(t, i) == t[Max({k \in 1..i : t[k].header})]
LinesTellTheirMode ==
    LET t == log.out \o log.buffer
        \* The newline that a change of the state forces is already of the new one.
        Same(h, c) == h.mode = c.mode /\ (h.state = c.state \/ c.c = Newline)
    IN  \A i \in DOMAIN t :
            /\ t[i].header <=> (i = 1 \/ t[i - 1].c = Newline)
            /\ ~t[i].header => Same(HeaderOf(t, i), t[i])

\* A mode that the client has selected or not stays so "no matter what environment
\* variables say", also one that is registered by that call or by a later LOG (),
\* and of the others what the environment says holds from their first use on: what is
\* accepted is what was wanted at the last LOG () (registerMode, mode, select,
\* unselect).  With the rule "select the others", for select () of the current mode
\* does not ask for its level.
SelectionsHold == logger # "none" => (log.selected <=> wanted)

-----------------------------------------------------------------------------
(* FileLog                                                                 *)

VARIABLES
    named, perm,        \* the file of that name, or NoFile; file |-> the mode it was made with
    m_fd, m_written,
    started, cleared,   \* initialise () has returned the log; it has emptied the file
    behind,             \* characters that went to the file opened last after it lost the name
    asserted            \* an ASSERT has failed

fileVars == <<named, perm, m_fd, m_written, started, cleared, behind, asserted>>

NoFile == 0
Files  == 1..MaxFiles
MaxEmit == 2                \* characters of one call, at most
Unmade == "none"

\* The access rights that are remembered for the next openings: never assigned.
m_umask == "0"

FileInit ==
    /\ named \in {NoFile, 1}
    /\ perm = [f \in Files |-> IF f = named THEN "0600" ELSE Unmade]
    /\ m_fd = -1 /\ m_written = 0 /\ started = FALSE /\ cleared = FALSE
    /\ behind = 0 /\ asserted = FALSE

-----------------------------------------------------------------------------
Made == Cardinality({f \in Files : perm[f] # Unmade})
Openable(f) == Privileged \/ perm[f] = "0600"

\* open (name, O_APPEND | O_CREAT, mode): the file is made if there is none.
OpenFile(mode) ==
    IF named = NoFile
    THEN /\ Made < MaxFiles /\ named' = Made + 1 /\ m_fd' = Made + 1
         /\ perm' = [perm EXCEPT ![Made + 1] = mode]
    ELSE /\ m_fd' = IF Openable(named) THEN named ELSE -1
         /\ UNCHANGED <<named, perm>>

\* The options behind the name, one after the other: "t", "a", "7" for octal
\* digits, "z" for any other; "hangs" for a loop that is never left.
Options(args) ==
    FoldLeft(LAMBDA seen, o :
        CASE seen \in {"hangs", "refused"} -> seen
          [] o = "t" -> "truncate" [] o = "a" -> "append"
          [] o = "7" -> "refused"  [] OTHER -> "hangs", "append", args)

\* initialise (): the file is emptied unless that was asked for.
Initialise(args) ==
    /\ ~started /\ Options(args) \in {"truncate", "append"}
    /\ OpenFile("0600")
    /\ started' = (m_fd' # -1)
    /\ cleared' = (m_fd' # -1 /\ Options(args) = "append")
    /\ UNCHANGED <<m_written, behind, asserted>>

Full(n) == m_written + n > FLUSH_INTERVAL

\* The characters are written to the file that is open, which is opened again by
\* its name behind them.  The count in "behind" starts again with the first
\* characters after an opening.
Emit(n) ==
    /\ started /\ ~asserted
    /\ IF m_fd = -1
       THEN asserted' = TRUE /\ UNCHANGED <<named, perm, m_fd, m_written, behind>>
       ELSE /\ IF Full(n) THEN OpenFile(m_umask) ELSE UNCHANGED <<named, perm, m_fd>>
            /\ m_written' = IF Full(n) THEN 0 ELSE m_written + n
            /\ behind' = (IF m_written = 0 THEN 0 ELSE behind) + (IF m_fd = named THEN 0 ELSE n)
            /\ UNCHANGED asserted
    /\ UNCHANGED <<started, cleared>>

\* Somebody else moves the file away, or puts a new one in its place.
Rotate ==
    /\ started /\ ~asserted /\ named # NoFile /\ Made < MaxFiles
    /\ named' = NoFile
    /\ UNCHANGED <<perm, m_fd, m_written, started, cleared, behind, asserted>>

Replace ==
    /\ started /\ ~asserted /\ named = NoFile /\ Made < MaxFiles
    /\ named' = Made + 1 /\ perm' = [perm EXCEPT ![Made + 1] = "0600"]
    /\ UNCHANGED <<m_fd, m_written, started, cleared, behind, asserted>>

FileNext ==
    \/ \E args \in {<<>>, <<"t">>, <<"a", "t">>, <<"7">>, <<"z">>} : Initialise(args)
    \/ \E n \in 1..MaxEmit : Emit(n)
    \/ Rotate \/ Replace

\* When the file has been moved away or replaced, no more than FLUSH_INTERVAL
\* characters go to the old one, and those of the call that goes beyond
\* (FileLog::emit).  With Privileged, for a file that cannot be opened again makes
\* the next call fail an assertion.
FollowsTheName == behind <= FLUSH_INTERVAL + MaxEmit /\ ~asserted

-----------------------------------------------------------------------------
(* SocketLog::initialise (): "host.port", either of which may be missing.  *)

DefaultHost == <<"localhost">>
DefaultPort == 7852
PortDigits  == {"1", "2"}
Failure     == [host |-> <<"assert">>, port |-> 0]
PortValue(d) == FoldLeft(LAMBDA v, c : 10 * v + (IF c = "1" THEN 1 ELSE 2), 0, d)

\* How much is in front of the digits at the end.
PortStart(args) == Min({i \in 0..Len(args) : \A k \in i + 1..Len(args) : args[k] \in PortDigits})

HostAndPort(args) ==
    IF args = <<>> THEN [host |-> DefaultHost, port |-> DefaultPort]
    ELSE LET start == PortStart(args)
             end   == IF start < Len(args) THEN start - 1 ELSE Len(args)
         IN  IF end <= 0 THEN Failure
             ELSE [host |-> SubSeq(args, 1, end),
                   port |-> IF start < Len(args) THEN PortValue(SubSeq(args, start + 1, Len(args))) ELSE DefaultPort]
=============================================================================
