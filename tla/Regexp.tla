------------------------------- MODULE Regexp -------------------------------
(***************************************************************************)
(* Searching with a compiled regular expression: Regexp.cpp on top of      *)
(* pcre_exec () and regexec (), and the markers RegexpMatch.cpp keeps.     *)
(*                                                                         *)
(* A string is a sequence of characters and a position counts from 0, as   *)
(* in the code.  A pattern is the finite set of words it matches, with     *)
(* "bol" telling whether it starts with "^"; what the libraries find is    *)
(* the leftmost match and there the longest word.  A pattern that failed   *)
(* to compile is not good.  "captures" is the number of subpatterns, each  *)
(* of which encloses the whole pattern here.                               *)
(*                                                                         *)
(* A call gives [first, sets, hangs]: the position it returns, one range   *)
(* for each match set it adds, and whether its loop goes on for ever.      *)
(***************************************************************************)
EXTENDS Integers, Sequences, SequencesExt

Piece(s, from, to) == SubSeq(s, from + 1, to)

\* std::string::substr and the assertions of RegexpMatch::matchString.
matchString(s, m) == IF m[1] = -1 THEN <<>> ELSE Piece(s, m[1], m[2])

\* A RegexpMatch: captures + 1 markers for every set added to it.
Markers(rx, sets) ==
    FlattenSeq([i \in DOMAIN sets |-> [k \in 1..rx.captures + 1 |-> sets[i]]])

matchStrings(s, markers) == [i \in DOMAIN markers |-> matchString(s, markers[i])]

addMatches(markers, more) == markers \o more

-----------------------------------------------------------------------------
\* The matches the libraries see at or after an offset, as [begin, end).
Matches(rx, s, limit, offset, anchored, notbol, noempty) ==
    {r \in (offset..limit) \X (offset..limit) :
        /\ r[1] <= r[2] /\ Piece(s, r[1], r[2]) \in rx.words
        /\ rx.bol => r[1] = 0 /\ ~notbol
        /\ anchored => r[1] = offset
        /\ noempty => r[1] < r[2]}

NoMatch == <<-1, -1>>

\* pcre_exec () and regexec (): leftmost, and there the longest.
Exec(rx, s, limit, offset, anchored, notbol, noempty) ==
    LET found == Matches(rx, s, limit, offset, anchored, notbol, noempty)
        begin == Min({r[1] : r \in found})
    IN  IF found = {} THEN NoMatch ELSE <<begin, Max({r[2] : r \in {q \in found : q[1] = begin}})>>

Nothing == [first |-> -1, sets |-> <<>>, hangs |-> FALSE]
Added(res, m) == [res EXCEPT !.first = IF @ = -1 THEN m[1] ELSE @, !.sets = Append(@, m)]

\* The loop both searches share: one match set a round, and with MatchAll on
\* from the end of the match, which for an empty match is where it stands.
\* "skips": regexec () cannot be told to reject an empty match, the loop does,
\* and then asks again at the same offset.
RECURSIVE Rounds(_, _, _, _, _, _)
Rounds(run, limit, offset, all, skips, res) ==
    LET m == run[offset] IN
    IF offset >= limit \/ m = NoMatch THEN res
    ELSE IF skips /\ m = <<offset, offset>> THEN [res EXCEPT !.hangs = TRUE]
    ELSE IF ~all THEN Added(res, m)
    ELSE IF m[1] = m[2] /\ m[2] < limit THEN [Added(res, m) EXCEPT !.hangs = TRUE]
    ELSE Rounds(run, limit, m[2], all, skips, Added(res, m))

\* MatchOffsetBOL shifts the subject: the positions then count from the offset.
PCRESearch(rx, s, offset, flags) ==
    LET shift   == "MatchOffsetBOL" \in flags
        subject == IF shift THEN Piece(s, offset, Len(s)) ELSE s
        notbol  == "MatchNotBOL" \in flags /\ ~shift
        run     == [o \in 0..Len(subject) |->
                       Exec(rx, subject, Len(subject), o, "MatchAnchored" \in flags, notbol, "MatchNoEmpty" \in flags)]
    IN  Rounds(run, Len(subject), IF shift THEN 0 ELSE offset, "MatchAll" \in flags, FALSE, Nothing)

\* The copy that is to end the subject at the limit takes the last character
\* away.  regexec () has no anchor and no offset: past the beginning "^" is
\* switched off.  A rejected empty match is looked for again where it was.
POSIXSearch(rx, s, offset, flags) ==
    LET shift   == "MatchOffsetBOL" \in flags
        subject == IF shift THEN Piece(s, offset, Len(s)) ELSE s
        limit   == Len(subject)
        seen    == Piece(subject, 0, limit - 1)
        run     == [o \in 0..limit |->
                       Exec(rx, seen, Len(seen), o, FALSE, o > 0 \/ ("MatchNotBOL" \in flags /\ ~shift), FALSE)]
    IN  Rounds(run, limit, IF shift THEN 0 ELSE offset, "MatchAll" \in flags,
               "MatchNoEmpty" \in flags, Nothing)

RepSearch(rx, s, offset, flags) ==
    IF rx.posix THEN POSIXSearch(rx, s, offset, flags) ELSE PCRESearch(rx, s, offset, flags)

-----------------------------------------------------------------------------
\* A negative offset counts from the end; one out of bounds is clamped.
FromStart(s, offset) ==
    LET o == IF offset < 0 THEN Max({offset + Len(s), 0}) ELSE offset IN Min({o, Len(s)})

doSearch(rx, s, offset, flags) ==
    IF ~rx.good THEN Nothing ELSE RepSearch(rx, s, FromStart(s, offset), flags)

search(rx, s, offset) == doSearch(rx, s, offset, {}).first

\* "return -1" of a function that returns bool is true.
doMatch(rx, s, offset, flags) ==
    LET o == FromStart(s, offset) IN
    \/ ~rx.good
    \/ RepSearch(rx, s, o, (flags \ {"MatchAll"}) \cup {"MatchAnchored"}).first = o

doExactMatch(rx, s) ==
    LET r == doSearch(rx, s, 0, {}) IN r.first = 0 /\ r.sets[1][2] = Len(s)

\* Backwards: the first offset, counting down, at which the pattern matches.
doRevSearch(rx, s, offset, flags) ==
    LET o    == Min({IF offset < 0 THEN offset + Len(s) ELSE offset, Len(s)})
        hits == {i \in 0..o : doMatch(rx, s, i, flags \ {"MatchContinue", "MatchAll"})}
    IN  IF ~rx.good \/ o < 0 \/ hits = {} THEN -1 ELSE Max(hits)

\* The characters that are special in a pattern, quoted.
escape(text, special) ==
    FlattenSeq([i \in DOMAIN text |-> IF text[i] \in special THEN <<"\\", text[i]>> ELSE <<text[i]>>])

\* A glob pattern is rewritten for PCRE.  After the start of a character class
\* comes a loop that copies up to the "]" but never moves on: only a class
\* that is over at once, or a "[" at the very end, is got past.
ClassBody(text, i) ==
    LET c == IF i < Len(text) THEN text[i + 1] ELSE "end" IN
    CASE c = "!" -> IF i + 2 <= Len(text) /\ text[i + 2] = "]" THEN i + 3 ELSE i + 2
      [] c \in {"^", "["} -> i + 2
      [] OTHER -> i + 1

GlobHangs(text) ==
    LET hangs[i \in 1..Len(text) + 1] ==
            IF i > Len(text) THEN FALSE
            ELSE IF text[i] # "[" THEN hangs[i + 1]
            ELSE LET j == ClassBody(text, i) IN j <= Len(text) /\ (text[j] # "]" \/ hangs[j])
    IN  hangs[1]
=============================================================================
