------------------------------- MODULE MCPure -------------------------------
(***************************************************************************)
(* Everything in the library that is a function of its arguments: the      *)
(* functions on texts for every string over a few small alphabets, the     *)
(* operations on names for every short name, and the ones that follow      *)
(* links for the names in a few file systems, words of bits, times and     *)
(* dates, identifiers and what the environment says of log modes.  A state *)
(* is one input, and the kind chosen at the start says which functions are *)
(* asked about it.  Beside it, the logging stream and the sink to a file.  *)
(***************************************************************************)
EXTENDS Regexp, StringOps, Filename

CONSTANTS
    Longest,                \* alphabet |-> the length of its longest string
    Flags, Static, Environments, LogPieces, Levels, SIZE, MaxSent, MaxTold, StreamRules,
    MaxFiles, FLUSH_INTERVAL, Privileged                                    \* Logstream

VARIABLES
    kind, s,
    fs,                     \* the file system the links are in
    env, flag, logger, log, told, wanted,
    named, perm, m_fd, m_written, started, cleared, behind, asserted,       \* Logstream
    said                    \* the items of LOG_MODES

streamVars == <<env, flag, logger, log, told, wanted>>
sinkVars == <<named, perm, m_fd, m_written, started, cleared, behind, asserted>>
logVars == <<streamVars, sinkVars, said>>
vars == <<kind, s, fs, logVars>>

Logs == INSTANCE Logstream WITH Pieces <- LogPieces

\* Two modes besides "all" and "never", of which one is registered by its first
\* use, and a buffer of two characters.
MCio     == <<"i">>
MCnet    == <<"n", "e">>
MCStatic == {<<"a", "l", "l">>, <<"n", "e", "v", "e", "r">>, MCio}
MCFlags  == MCStatic \cup {MCnet}
MCEnvironments == {<<"-", "i">>, <<"n", "/", "1">>}
MCPieces == {<<"x", "x", "x">>, <<"x", "\n", "x">>}
MCLevels == {0, 2}

Alphabet ==
    [fields |-> {"a", "A", ":"}, matches |-> {"a", "b"}, globs |-> {"[", "]", "\\", "!", "a"},
     command |-> {"a", " ", "'", "\"", "\\"}, format |-> {"%", "1", "2", "x"}]

TextLongest == [fields |-> 4, matches |-> 5, globs |-> 4, command |-> 4, format |-> 5]

TextInit == kind \in DOMAIN Alphabet /\ s = <<>>

AddCharacter(k) ==
    /\ kind = k /\ Len(s) < Longest[k]
    /\ \E c \in Alphabet[k] : s' = Append(s, c)
    /\ UNCHANGED kind

TextNext == \E k \in DOMAIN Alphabet : AddCharacter(k)

-----------------------------------------------------------------------------
\* Operators the rules below are stated with; none of them is in the code.
Positions(t, what) == {i \in 0..Len(t) : At(t, what, i, FALSE)}

\* The matches taken from the left, none inside or across another one.
Apart(t, what) ==
    LET from[i \in 0..Len(t) + 1] ==
            LET hits == {j \in Positions(t, what) : j >= i}
            IN  IF hits = {} THEN <<>> ELSE <<Min(hits)>> \o from[Min(hits) + Len(what)]
    IN  from[0]

\* Cut out the ranges that start at "at", put "with" there.
Substituted(t, at, len, with) ==
    FlattenSeq([k \in 1..Len(at) + 1 |->
        LET b == IF k = 1 THEN 0 ELSE at[k - 1] + len
            e == IF k > Len(at) THEN Len(t) ELSE at[k]
        IN  IF k = 1 THEN Piece(t, b, e) ELSE with \o Piece(t, b, e)])

Seps == {<<":">>, <<"a">>, <<":", "a">>, <<"a", "A">>}

\* A string split at a separator and joined with it again is the string, and no
\* field has the separator in it (StringOps.cpp splitpos, split, join).
SplitJoins ==
    kind = "fields" => \A sep \in Seps :
        LET f == split(s, sep, {}, 0, 0, 0)
        IN  join(f, sep) = s /\ \A i \in DOMAIN f : contains(f[i], sep, FALSE) = 0

\* What TrimEmpty and KeepTrailingEmpty leave of the fields: the ones that are
\* not empty and, if asked for, the empty ones behind the last of these; also
\* with KeepLeadingEmpty, as long as no empty field comes first.
TrimKeepsWhatIsAsked ==
    kind = "fields" => \A sep \in Seps, flags \in SUBSET {"KeepTrailingEmpty", "KeepLeadingEmpty"} :
        LET f    == split(s, sep, {}, 0, 0, 0)
            real == {i \in DOMAIN f : f[i] # <<>>}
            kept == {i \in DOMAIN f : i \in real \/ ("KeepTrailingEmpty" \in flags /\ real # {} /\ i > Max(real))}
        IN  ("KeepLeadingEmpty" \notin flags \/ f[1] # <<>>)
            => split(s, sep, {"TrimEmpty"} \cup flags, 0, 0, 0)
               = [k \in 1..Cardinality(kept) |-> f[CHOOSE i \in kept : Cardinality({j \in kept : j < i}) = k - 1]]

\* A limit on the number of fields is kept, the fields before the last are those
\* found without it, and the last begins where it does without it.  Where the last
\* one ends is not said: the code ends it at the next separator, its documentation
\* at the end of the string.
LimitCountsFields ==
    kind = "fields" => \A sep \in Seps, n \in 1..3 :
        LET f == split(s, sep, {}, n, 0, 0) all == split(s, sep, {}, 0, 0, 0)
        IN  /\ Len(f) = Min({n, Len(all)})
            /\ SubSeq(f, 1, Len(f) - 1) = SubSeq(all, 1, Len(f) - 1) /\ IsPrefix(all[Len(f)], f[Len(f)])

\* The searches agree: contains () counts the positions at which find () finds
\* something, find () the first of them from an offset on and, for a single
\* character, rfind () the last, with case or without, and grep () keeps the
\* strings that have one.  Nothing is said of rfind () for a text: a failed
\* assertion stops the program there, unless there is nothing to look for.
SearchesAgree ==
    kind = "fields" => \A what \in {<<"a">>, <<"A">>, <<":", "a">>}, caseless \in BOOLEAN :
        LET hits == {i \in 0..Len(s) - 1 : find(s, what, i, caseless) = i}
        IN  /\ contains(s, what, caseless) = Cardinality(hits)
            /\ (find(s, what, 0, caseless) = -1) = (hits = {})
            /\ hits # {} => /\ find(s, what, 0, caseless) = Min(hits)
                            /\ Len(what) = 1 => \A o \in 0..Len(s) - 1 :
                                   rfindChar(s, what[1], o, caseless) = Max({i \in hits : i <= o} \cup {-1})
            /\ \A o \in 1..Len(s) : /\ find(s, what, -o, caseless) = find(s, what, Len(s) - o, caseless)
                                   /\ rfind(s, <<>>, -o) = Len(s) - o
            /\ grep(<<s>>, what, caseless) = IF hits = {} THEN <<>> ELSE <<s>>

\* Every match is replaced, the replacements are not looked at again - unless a
\* match begins where the one before it ends, for then it is passed over.
ReplaceAllApart ==
    kind = "matches" => \A what \in {<<"a">>, <<"a", "b">>}, with \in {<<>>, <<"a">>, <<"b", "a", "b">>} :
        LET at == Apart(s, what)
        IN  (\A k \in 1..Len(at) - 1 : at[k + 1] > at[k] + Len(what))
            => replace(s, 0, what, with) = Substituted(s, at, Len(what), with)

Rx(words, bol, posix) == [words |-> words, bol |-> bol, posix |-> posix, captures |-> 1, good |-> TRUE]
Patterns == {Rx(w, FALSE, FALSE) : w \in {{<<"a">>}, {<<"a">>, <<"a", "a">>}, {<<"a", "b">>, <<"b">>}}}

\* All matches of a pattern that never matches nothing: found from the left,
\* apart, and no match is missed between two of them.
AllMatchesFound ==
    kind = "matches" => \A rx \in Patterns :
        LET r == doSearch(rx, s, 0, {"MatchAll"})
            m == r.sets
        IN  /\ ~r.hangs
            /\ \A k \in 1..Len(m) - 1 : m[k][2] <= m[k + 1][1]
            /\ \A w \in rx.words : \A i \in Positions(s, w) :
                   \E k \in DOMAIN m : m[k][1] < i + Len(w) /\ i < m[k][2]

\* Searching forwards and backwards and matching in one place agree, and the
\* regexp functions with the plain ones when the pattern is one word, those that
\* take a section where a plain one does not fail an assertion.
RegexpAgrees ==
    kind = "matches" => \A w \in {<<"a">>, <<"b", "a">>} :
        LET rx == Rx({w}, FALSE, FALSE)
        IN  /\ findRegexp(s, rx, 0) = find(s, w, 0, FALSE)
            /\ s # <<>> => rfindRegexp(s, rx, -1) = Max(Positions(s, w) \cup {-1})
            /\ containsRegexp(s, rx) = contains(s, w, FALSE)
            /\ \A i \in 0..Len(s) - 1 : doMatch(rx, s, i, {}) = (i \in Positions(s, w))
            /\ doExactMatch(rx, s) = (s = w)
            /\ splitRegexp(s, rx, {}, 0, 0, 0) = split(s, w, {}, 0, 0, 0)
            /\ grepRegexp(<<s>>, rx) = grep(<<s>>, w, FALSE)
            /\ \A n \in 1..2 : section(s, w, 0, -n, {}) # None => sectionRegexp(s, rx, 0, -n, {}) = section(s, w, 0, -n, {})

\* A replacement with the match in it - "\1" - that does not get shorter puts the
\* text around every match (StringOps.cpp replace, RegexpMatch.cpp).
ReplaceAroundMatches ==
    kind = "matches" => \A rx \in Patterns :
        LET m == doSearch(rx, s, 0, {"MatchAll"}).sets
        IN  replaceRegexp(s, 0, rx, <<"<", "\\", "1", ">">>)
            = FlattenSeq([k \in 1..Len(m) + 1 |->
                  LET b == IF k = 1 THEN 0 ELSE m[k - 1][2]
                      e == IF k > Len(m) THEN Len(s) ELSE m[k][1]
                  IN  Piece(s, b, e) \o (IF k > Len(m) THEN <<>>
                                          ELSE <<"<">> \o Piece(s, m[k][1], m[k][2]) \o <<">">>)])

\* A text made into a pattern means itself: read with backslashes taking the
\* special meaning off what follows, it is the text, and nothing in it is special.
EscapeIsLiteral ==
    LET special == {"[", "\\"}
        read[p \in Seq(Alphabet["globs"])] ==
            IF p = <<>> THEN <<>>
            ELSE IF p[1] \in special
                 THEN IF p[1] = "\\" /\ Len(p) > 1 THEN <<p[2]>> \o read[Tail(Tail(p))] ELSE None
            ELSE <<p[1]>> \o read[Tail(p)]
    IN  kind = "globs" => read[escape(s, special)] = s

\* A search path written out is the string it was made from, and a name is found
\* in the first directory that has it or left as it is.
PathsSurvive ==
    kind = "fields" =>
        LET dirs == SearchPathOf(s)
        IN  /\ PathText(dirs) = s
            /\ \A d \in {<<"a">>, <<"A", "A">>} :
                   LET e == expandSearched(dirs, <<"x">>, {<<d, <<"x">>>>})
                   IN  IF \E i \in DOMAIN dirs : dirs[i] = d THEN e = <<d, <<"x">>>> ELSE e = <<<<"x">>>>

\* An argument vector without empty arguments, quoted and taken apart again, is
\* the same vector: a child gets the arguments it was to get (Argz.cpp).
QuotingSurvives ==
    kind = "command" =>
        LET one == <<s>> two == <<s, <<"a">>>> parsed == build(s)
        IN  /\ s # <<>> => build(quote(one)) = one /\ build(quote(two)) = two
            /\ (\A i \in DOMAIN parsed : parsed[i] # <<>>) => build(quote(parsed)) = parsed

\* The digits of a number, read in a base that does not reach the missing
\* letter, are the number.
NumbersReadBack ==
    kind = "format" /\ s = <<>> => \A base \in {2, 10, 16, 23}, val \in 0..70 :
        val = FoldLeft(LAMBDA n, d : base * n + d, 0, format(val, base))

\* Which references a pattern has, read off the text.
References(t) ==
    {<<i, Min({j \in i + 1..Len(t) + 1 : j > Len(t) \/ t[j] \notin {"1", "2"}})>> :
        i \in {k \in 1..Len(t) - 1 : t[k] = "%" /\ t[k + 1] \in {"1", "2"}}}

\* In a pattern that does not end in a reference and has no two "%" together,
\* all references are replaced, in the order of their numbers, whatever the
\* replacements hold; the text between them stays.
FormatReplacesInOrder ==
    LET refs == References(s)
        Num(r) == LET n[j \in r[1]..r[2] - 1] == IF j = r[1] THEN 0 ELSE 10 * n[j - 1] + IF s[j] = "1" THEN 1 ELSE 2
                  IN  n[r[2] - 1]
        Turn(r) == Cardinality({q \in refs : Num(q) < Num(r) \/ (Num(q) = Num(r) /\ q[1] < r[1])})
        Text(k) == IF k = 0 THEN <<"x", "%", "1">> ELSE <<"x", "x", "x">>
        done == FoldLeft(LAMBDA f, k : arg(f, Text(k), 0), Format(s), [k \in 1..Cardinality(refs) |-> k - 1])
        from[i \in 1..Len(s) + 1] ==
            IF i > Len(s) THEN <<>>
            ELSE IF \E r \in refs : r[1] = i
                 THEN LET r == CHOOSE q \in refs : q[1] = i IN Text(Turn(r)) \o from[r[2]]
            ELSE <<s[i]>> \o from[i + 1]
    IN  kind = "format" /\ (\A r \in refs : r[2] <= Len(s)) /\ (\A i \in 1..Len(s) - 1 : s[i] = "%" => s[i + 1] # "%")
        => /\ done.value = from[1] /\ done.args = <<>>
           \* and the references the replacements brought in are found if asked for
           /\ (\A r \in References(done.value) : r[2] <= Len(done.value))
              => Len(rescan(done).args) = Cardinality(References(done.value))

\* A range of fields whose ends are counted from the end - the documentation has
\* the others counted from one, the code from zero - is these fields.  A section
\* that is not empty fails an assertion; nothing is said of it, and one that is
\* empty is returned (StringOps.cpp split, splitmax, section).
RangesAsAsked ==
    kind = "fields" => \A sep \in Seps :
        LET f == split(s, sep, {}, 0, 0, 0) IN
        \A last \in 1..Len(f) - 1 : \A first \in 0..last :
            LET fields == SubSeq(f, first + 1, last + 1) IN
            /\ split(s, sep, {}, 0, first - Len(f), last - Len(f)) = fields
            /\ join(fields, sep) = <<>> => section(s, sep, first - Len(f), last - Len(f), {}) = <<>>

\* The strings of all matches are words of the pattern, one for each subpattern of
\* each match, those of a second search behind those of the first; cut out with
\* the pattern, they leave what cutting out the plain word does, or an assertion
\* stops the program (RegexpMatch.cpp matchStrings, addMatches, StringOps.cpp
\* remove).
MatchesHandedOut ==
    kind = "matches" => \A rx \in Patterns :
        LET found == Markers(rx, doSearch(rx, s, 0, {"MatchAll"}).sets)
            again == matchStrings(s, addMatches(found, Markers(rx, doSearch(rx, s, 1, {}).sets)))
            cut   == removeRegexp(s, rx, 0)
        IN  /\ \A i \in DOMAIN again : again[i] \in rx.words /\ (i % 2 = 0 => again[i] = again[i - 1])
            /\ Len(again) <= Len(found) + 2 /\ IsPrefix(matchStrings(s, found), again)
            /\ cut # None /\ Cardinality(rx.words) = 1 =>
                   LET w == CHOOSE v \in rx.words : TRUE
                   IN  cut = Substituted(s, Apart(s, w), Len(w), <<>>)

\* A file name pattern in which no character class is begun, or only one that is
\* over at once, is compiled; that any other one is, as documented, is not said: the
\* loop that copies a class does not end (Regexp.cpp:704).
GlobsCompile ==
    kind = "globs" /\ (\A i \in 1..Len(s) - 1 : s[i] = "[" => s[i + 1] = "]") => ~GlobHangs(s)

-----------------------------------------------------------------------------
(* Names                                                                   *)

Pieces ==
    [clean |-> {<<"/">>, <<".">>, <<"a">>}, home |-> {<<"~">>, <<"/">>, <<"a">>},
     variables |-> {<<"a">>, <<"/">>, <<"$", "A">>, <<"$", "{", "A", "}">>, <<"$", "B">>, <<"$">>},
     versions |-> {<<"a">>, <<".">>, <<"~">>, <<"1">>}]

NamesLongest == [clean |-> 7, home |-> 5, variables |-> 4, versions |-> 6]

Dir == [kind |-> "dir", target |-> <<>>]
Link(t) == [kind |-> "link", target |-> t]

\* /a and /b are directories or links; /b/c and /a/d are there if those are
\* directories.
Targets == {<<"b">>, <<"a">>, <<"/", "b">>, <<"b", "/", "c">>, <<".", ".", "/", "b">>,
            <<".", ".", "/", "a", "/", "d">>, <<".", ".">>, <<"a", "/", ".", ".", "/", "b">>, <<"d">>, <<".", "/", "b", "/", ".">>}
Nodes == {Dir} \cup {Link(t) : t \in Targets}
FileSystems ==
    {f @@ (<<>> :> Dir) : f \in
        {(<<<<"a">>>> :> na) @@ (<<<<"b">>>> :> nb)
         @@ (IF nb = Dir THEN <<<<"b">>, <<"c">>>> :> nc ELSE <<>>)
         @@ (IF na = Dir THEN <<<<"a">>, <<"d">>>> :> Dir ELSE <<>>) :
         na \in Nodes, nb \in Nodes, nc \in Nodes}}

NamesInit ==
    \/ kind \in DOMAIN Pieces /\ s = <<>> /\ fs = <<>>
    \/ kind = "links" /\ s \in {<<"/">>, <<>>} /\ fs \in FileSystems

AddPiece(k) ==
    /\ kind = k /\ Len(s) < Longest[k]
    /\ \E c \in Pieces[k] : s' = IF k = "variables" THEN Append(s, c) ELSE s \o c
    /\ UNCHANGED <<kind, fs>>

\* A name one component longer.
Enter ==
    /\ kind = "links" /\ Len(s) < 5
    /\ \E c \in {"a", "b", "c", "d"} : s' = asDirectory(s) \o <<c>>
    /\ UNCHANGED <<kind, fs>>

NamesNext == Enter \/ \E k \in DOMAIN Pieces : AddPiece(k)

-----------------------------------------------------------------------------
Sys == [cwd |-> IF kind = "links" THEN <<"/">> ELSE <<"/", "c">>, fs |-> fs,
        env |-> (<<"A">> :> <<"x", "$", "A">>) @@ (<<"B">> :> <<"/", "y">>),
        home |-> [self |-> <<"/", "h">>, users |-> <<"a", "a">> :> <<"/", "u">>]]

Absolute(n) == IF isAbsolute(n) THEN n ELSE asDirectory(Sys.cwd) \o n

\* Where a name leads without links: the reference.
Resolved(n) ==
    FoldLeft(LAMBDA at, c : IF c = <<".">> THEN at
                            ELSE IF c = <<".", ".">> THEN SubSeq(at, 1, Len(at) - 1) ELSE Append(at, c),
             <<>>, Components(n))

\* A canonical name is absolute, leads where the name led, has no "." and has
\* ".." only at its beginning, and is left alone if made canonical again - as
\* long as the name has no empty component, which is taken for one that ".."
\* leaves (Filename.cpp expand, expandPrefix, expandClean).
ExpandKeepsMeaning ==
    kind = "clean" /\ s # <<>> /\ (\A i \in DOMAIN s : ~(IsSep(s, i) /\ IsSep(s, i + 1))) =>
        LET e == expand(s, <<>>, Sys)
        IN  /\ isAbsolute(e) /\ Resolved(e) = Resolved(Absolute(s))
            /\ \A i \in DOMAIN e : ~(OneDot(e, i) \/ (TwoDots(e, i) /\ i # 1))
            /\ Resolved(expand(e, <<>>, Sys)) = Resolved(e)

\* Taking a name apart and putting it together again gives the name: directory
\* and rest, stem and extension, the form of a directory and of a file.
PartsFit ==
    kind = "clean" =>
        /\ In(directory(s), nondirectory(s)) = s
        /\ LastDot(nondirectory(s)) > 0 /\ ~IsDots(nondirectory(s))
           => sansExtension(s) \o extension(s, TRUE) = s
        /\ nondirectory(s) # <<>> => asFile(asDirectory(s)) = s
        /\ s # <<>> => Resolved(asFile(s)) = Resolved(s) /\ isAbsolute(asFile(s)) = isAbsolute(s)

\* The name of an automatic save is in the directory of the file, and known as
\* such if it has none; a directory with a short name and the home directory are
\* abbreviated, one after the other (Filename.cpp autosaveName, isAutosaveName,
\* abbreviate).
SavedAndShort ==
    /\ kind = "clean" => /\ directory(autosaveName(s)) = directory(s)
                         /\ isAutosaveName(autosaveName(s)) = (directory(s) = <<>>)
    /\ kind = "home" =>
           LET short == abbreviate(s, <<<<<<"/", "a">>, Sys.home.self>>>>, Sys.home)
           IN  /\ short = IF IsPrefix(<<"/", "a">>, s) THEN <<"~">> \o From(s, 3) ELSE s
               /\ Len(s) = 2 /\ short # s => expand(short, <<>>, Sys) = Sys.home.self

\* "~" alone and "~user" of a user with a name of two letters become the home
\* directory, and the rest of the name stays.
UsersExpand ==
    LET stop == Min({i \in 2..Len(s) + 1 : Ends(s, i)})
        user == SubSeq(s, 2, stop - 1)
        homes == (<<>> :> Sys.home.self) @@ Sys.home.users
    IN  kind = "home" /\ s # <<>> /\ s[1] = "~" /\ user \in DOMAIN homes
        /\ (user = <<>> => Len(s) = 1)
        => Resolved(expand(s, <<>>, Sys)) = Resolved(homes[user] \o From(s, stop))

\* A variable is replaced by its value, a "$" in the value means nothing, a name
\* that is not in the environment is an error - but not in front of a "//",
\* which drops all that is before it, in the name and from a value alike.
VariablesReplaced ==
    LET drop == Max({i \in 1..Len(s) : s[i] = <<"/">> /\ (i = 1 \/ s[i - 1] = <<"/">>)} \cup {0})
        used == SubSeq(s, drop + 1, Len(s))
        Value(c) == IF c = <<"$", "B">> THEN Sys.env[<<"B">>]
                    ELSE IF c[1] = "$" THEN Sys.env[<<"A">>] ELSE c
        text == <<"/">> \o FlattenSeq([i \in DOMAIN used |-> Value(used[i])])
        last == Max({i \in 1..Len(text) - 1 : IsSep(text, i) /\ IsSep(text, i + 1)} \cup {0})
    IN  kind = "variables" /\ (\A i \in DOMAIN s : s[i] # <<"$">>)
        => substitute(<<"/">> \o FlattenSeq(s), Sys)
           = IF \E i \in 1..Len(used) - 1 : used[i] \in {<<"$", "A">>, <<"$", "B">>} /\ used[i + 1] = <<"a">>
             THEN NoSuchVar ELSE From(text, last + 1)

\* The name of a backup, plain or with version numbers, leads back to the name.
VersionsStripped ==
    kind = "versions" /\ s # <<>> =>
        /\ sansVersions(s \o <<".", "~", "1", "~">>) = s
        /\ sansVersions(s \o <<".", "~", "1", ".", "1", "1", "~">>) = s
        /\ ~IsDigit(s, Len(s)) => sansVersions(backupName(s)) = s
        /\ ~isBackupName(s) => sansVersions(s) = s

Entries == {<<"a">>, <<"a", "1">>, <<"a", "1", ".">>, <<"a", ".">>, <<"1">>}

\* A name is completed as far as all that begin with it agree, and no further.
CompletesToTheLongest ==
    kind = "versions" /\ Len(s) <= 2 => \A dir \in SUBSET Entries :
        LET r == complete(s, SetToSeq(dir))
            c == {e \in dir : IsPrefix(s, e)}
        IN  /\ r.found = (c # {}) /\ r.exact = (c = {s}) /\ IsPrefix(s, r.name)
            /\ \A e \in c : IsPrefix(r.name, e)
            /\ c # {} => \A ch \in {"a", "1", "."} : \E e \in c : ~IsPrefix(Append(r.name, ch), e)

Place(n) == Lookup(Sys, n)

\* The true name of what is there is the way to it without links; links in a
\* circle are an error.
TrueNameIsTrue ==
    kind = "links" /\ s # <<>> =>
        LET t == truename(s, Sys) IN
        /\ Place(s) = Looping => t = TooManyLinks
        /\ Place(s) \notin {Missing, Looping} => t \notin Outcomes /\ Components(t) = Place(s)

\* No link goes up other than from its own directory.
UpOnlyFirst ==
    \A p \in DOMAIN fs : LET t == Components(fs[p].target) IN
        /\ t # <<<<".", ".">>>>
        /\ \A i \in DOMAIN t : t[i] = <<".", ".">> => \A j \in 1..i : t[j] = <<".", ".">>

\* Chasing the links of a name ends at a name of the same file that is no link,
\* if no target has a ".." behind another name: that one is taken out of the
\* text, where the name before it may be a link.
ChasedIsTheSame ==
    kind = "links" /\ s # <<>> /\ Place(s) \notin {Missing, Looping} /\ UpOnlyFirst =>
        LET c == chaseLinks(s, Sys)
        IN  c \notin Outcomes /\ isSymlink(c, Sys) = <<>> /\ Place(c) = Place(s)

-----------------------------------------------------------------------------
Octets == INSTANCE Bits WITH Width <- 8, IntWidth <- 8
Nibbles == INSTANCE Bits WITH Width <- 4, IntWidth <- 8
Times == INSTANCE Time WITH Digits <- 3, Half <- 8
Spans == INSTANCE Time WITH Digits <- 1, Half <- 8

\* The values a number of the sequence s may have, by its place.
Digit == 0..9
Numbers ==
    [bits |-> [i \in 1..8 |-> {0, 1}], time |-> <<Digit, Digit, Digit>>,
     \* an identifier, the place of one other character and that character
     uuid |-> <<0..2, 0..37, {Times!Dash, Times!Strange, 0, 7}>>,
     \* year, month, day, hour, minute and second
     date |-> <<{80, 99, 207}, {0, 7, 11}, {1, 15, 31}, {0, 17, 23}, {0, 31, 59}, {0, 33, 59}>>]

MCLongest == TextLongest @@ NamesLongest

Init ==
    /\ Logs!StreamInit /\ Logs!FileInit /\ said = <<>>
    /\ \/ TextInit /\ fs = <<>>
       \/ NamesInit
       \/ kind \in DOMAIN Numbers \cup {"stream", "sink", "modes"} /\ s = <<>> /\ fs = <<>>
    /\ kind # "stream" => env = <<"-", "i">>
    /\ kind # "sink" => named = 1

AddNumber(k) ==
    /\ kind = k /\ Len(s) < Len(Numbers[k])
    /\ \E d \in Numbers[k][Len(s) + 1] : s' = Append(s, d)
    /\ UNCHANGED <<kind, fs>>

Input ==
    \/ TextNext /\ UNCHANGED fs
    \/ NamesNext
    \/ \E k \in DOMAIN Numbers : AddNumber(k)

\* The modes the environment names: [sign, name, level].
Items == [sign : {<<>>, <<"+">>, <<"-">>}, name : {<<>>, MCio, MCnet, Front(MCnet)}, level : {-1, 2}]
Spelled(item) == item.sign \o item.name \o (IF item.level = -1 THEN <<>> ELSE <<"/", "2">>)
Modes(items)  == FoldLeft(LAMBDA t, item : t \o <<",">> \o Spelled(item), <<>>, items)

Say(item) == kind = "modes" /\ Len(said) < 3 /\ said' = Append(said, item)

Logging ==
    \/ kind = "stream" /\ Logs!StreamNext /\ UNCHANGED <<sinkVars, said>>
    \/ kind = "sink" /\ Logs!FileNext /\ UNCHANGED <<streamVars, said>>
    \/ (\E item \in Items : Say(item)) /\ UNCHANGED <<streamVars, sinkVars>>

Next ==
    \/ Input /\ UNCHANGED logVars
    \/ Logging /\ UNCHANGED <<kind, s, fs>>

Spec == Init /\ [][Next]_vars

-----------------------------------------------------------------------------
\* The word with the first number of s as its most significant bit.
WordOf(t) == {Len(t) - i : i \in {i \in DOMAIN t : t[i] = 1}}

\* The magic numbers count, mirror and find what a walk over the bits would,
\* zero and the top bit included; a sum that does not fit is zero (BitOps.h).  This
\* is about words as wide as an unsigned int, of which the enumerators are made: in
\* a wider one the complement of some patterns lacks the upper half (BitOps.h:90).
BitTricksAgree ==
    kind = "bits" /\ Len(s) = 8 =>
        LET n == WordOf(s)
        IN  /\ Octets!count(n) = Cardinality(n) /\ Octets!reverse(n) = {7 - i : i \in n}
            /\ Octets!rzero(n) = (IF n = {} THEN 8 ELSE Min(n))
            /\ Octets!log2(n) = (IF n = {} THEN 0 ELSE Max(n))
            /\ Octets!islog2(n) = (Cardinality(n) <= 1) /\ Octets!parity(n) = (Cardinality(n) % 2 = 1)
            /\ Octets!ceil2(n) = (IF n = {} THEN {}
                                  ELSE IF Cardinality(n) = 1 THEN n ELSE {Max(n) + 1} \cap 0..7)

\* Bits interleaved and split again are the ones they were, as far as half a
\* word goes: mortonSplit leaves other ones above them (BitOps.h
\* mortonInterleave, mortonSplit).
MortonComesBack ==
    kind = "bits" /\ Len(s) = 8 =>
        LET x == WordOf(SubSeq(s, 1, 4)) y == WordOf(SubSeq(s, 5, 8))
            n == Octets!mortonInterleave(x, y) back == Octets!mortonSplit(n)
        IN  /\ n = {2 * i : i \in x} \cup {2 * i + 1 : i \in y}
            /\ back[1] \cap 0..3 = x /\ back[2] \cap 0..3 = y
            /\ Octets!swap(x, y) = <<y, x>>

\* A vector of words is one vector of bits, of which a range is taken out bit by
\* bit, in one word or across two, by whichever of the functions, and an iterator
\* shows one range after the other.  At which end of a word the bits start is left
\* open, as long as it is the same for all: the documentation has them start at the
\* least significant one, the code at the most significant (BitOps.h extract,
\* BitIterator.h operator*).
RangesExtracted ==
    kind = "bits" /\ Len(s) = 8 =>
        LET p == <<WordOf(SubSeq(s, 1, 4)), WordOf(SubSeq(s, 5, 8))>>
        IN  \E upwards \in BOOLEAN :
                LET ones == {i \in 0..7 : (IF upwards THEN i % 4 ELSE 3 - (i % 4)) \in p[(i \div 4) + 1]} IN
                \A from \in 0..7, len \in 1..4 : from + len <= 8 =>
                    LET inside == ones \cap from..from + len - 1
                        range == {IF upwards THEN i - from ELSE from + len - 1 - i : i \in inside}
                    IN  /\ Nibbles!extractUpTo(p, 7, from, len) = range
                        /\ from % len = 0 => Nibbles!Dereference(p, from \div len, len) = range
                        /\ (from % 4) + len <= 4 => Nibbles!extractUnstraddled(p, 7, from, len) = range

\* A span is what its days, hours, minutes, seconds and fraction add up to,
\* and none of them reaches the unit above, before and after zero
\* (Time.h TimeSpan).
SpansAddUp ==
    kind = "time" /\ Len(s) = 3 =>
        \A t \in {v * (100 * s[1] + 10 * s[2] + s[3]) : v \in {8641, -8641, 37}} :
            LET h == Spans!lastHours(t) m == Spans!lastMinutes(t) sec == Spans!lastSeconds(t) n == Spans!lastNSeconds(t)
            IN  /\ Spans!FromUnits(Spans!days(t), h, m, sec, n) = t
                /\ h \in -23..23 /\ m \in -59..59 /\ sec \in -59..59 /\ n \in -9..9

\* A fraction of a second is shown with the digits asked for, as near as they
\* allow and without zeros nobody asked for.  Excepted are the fractions that are
\* nearer to the next whole second than to any they could be shown as: for these
\* the buffer has no room, against what the comment in front of it guarantees
\* (Time.cpp:351, nanoformat).
FractionsShown ==
    kind = "time" /\ Len(s) = 3 =>
        \A most \in 1..3, least \in 1..3 :
            LET value == 100 * s[1] + 10 * s[2] + s[3]
                unit == 10^(3 - most)
                f == Times!nanoformat(value, least, most)
                shown == FoldLeft(LAMBDA v, d : 10 * v + d, 0, f) * 10^(3 - Len(f))
            IN  least <= most /\ 2 * (1000 - value) >= unit =>
                    /\ Len(f) \in least..most /\ (Len(f) > least => f[Len(f)] # 0)
                    /\ 2 * (shown - value) < unit /\ 2 * (value - shown) <= unit

\* Zones of a library with summer time in the north, in the south, and without.
Zones ==
    {[std |-> 3600, dst |-> 3600, from |-> 70000000, to |-> 85000000, names |-> <<"CET", "CEST">>],
     [std |-> -12600, dst |-> 1800, from |-> 60000000, to |-> 71000000, names |-> <<"X", "XS">>],
     [std |-> 7200, dst |-> 0, from |-> 0, to |-> 0, names |-> <<"EET", "EET">>]}

\* Instants all over six years, and close around the change of the clocks.
Instants(z, v) == 
    {10 * secs + (v % 10) : secs \in {200003 * v, z.from + 12 * (v - 500), z.to + 12 * (v - 500)} \cap Nat}

\* A time broken down and built again is the time, in UTC and in every zone; the
\* offset and the name of the zone are the same whether the library has them or
\* they are worked out, and the offset is what the local clock is ahead (Time.cpp
\* build, split, utcoffset, timezone).
TimesComeBack ==
    kind = "time" /\ Len(s) = 3 =>
        \A z \in Zones : \A t \in Instants(z, 100 * s[1] + 10 * s[2] + s[3]) :
            /\ \A local \in BOOLEAN :
                   Spans!build(z, local, Spans!split(z, local, t), Spans!nsecond(t)) = t
            /\ Spans!utcoffset(z, t) = Spans!gmtoff(z, t)
            /\ Spans!timezone(z, t) = Spans!tzname(z, Spans!split(z, TRUE, t))
            /\ Spans!Shows(Spans!split(z, TRUE, t)) = Spans!Shows(Spans!split(z, FALSE, t)) + Spans!utcoffset(z, t) \div 10
            /\ Spans!call_timegm(z, Spans!split(z, FALSE, t)) = Spans!timegm(Spans!split(z, FALSE, t))
            /\ Spans!Plus(t, -t - 1) = Spans!Broken
            /\ \A x \in {77, -77} : t >= 77 => Spans!Plus(Spans!Minus(t, x), x) = t

\* A time made from its year, month, day and hour is that time, whether the year
\* is written out or counted from 1900 - but for the hour the clock shows twice,
\* and, where timegm () is missing, in summer; a year of 366 days is a leap year
\* (Time.cpp Time (), call_timegm, Time.h isLeap).
YearsAsWritten ==
    kind = "time" /\ Len(s) = 3 =>
        LET v == 100 * s[1] + 10 * s[2] + s[3]
        IN  /\ Spans!isLeap(1900 + v) = Spans!Long(1900 + v)
            /\ \A z \in Zones, local \in BOOLEAN : \A t \in Instants(z, v) :
                   LET f == Spans!Fields(z, local, t)
                       short == [f EXCEPT !.year = @ - 1900]
                       n == Spans!nsecond(t)
                       twice == local /\ z.to * 10 <= t /\ t < (z.to + z.dst) * 10
                   IN  /\ Spans!FromFields(z, f, n, local) = Spans!FromFields(z, short, n, local)
                       /\ Spans!FromFields(z, f, n, local) = IF twice THEN t - z.dst * 10 ELSE t
                       /\ ~local =>
                              LET late == Spans!timegm(Spans!TmFrom(f)) - Spans!call_timegm(z, Spans!TmFrom(f))
                                  summer == z.from * 10 <= t + 864000 /\ t - 864000 < z.to * 10
                              IN  late \in {0, IF summer THEN z.dst ELSE 0}

\* A date between 1980 and 2107 packed for DOS and unpacked again is itself, up
\* to a second (Time.cpp toDosDate, fromDosDate).
DosDatesSurvive ==
    kind = "date" /\ Len(s) = 6 =>
        LET tm == [year |-> s[1], mon |-> s[2], mday |-> s[3], hour |-> s[4], min |-> s[5], sec |-> s[6]]
        IN  Times!fromDosDate(Times!toDosDate(tm)) = [tm EXCEPT !.sec = @ - (@ % 2)]

\* What is not the text of an identifier is refused, and what is stands for the
\* identifier that is written so; identifiers are ordered as their bytes are,
\* and random ones are marked as such (UUID.cpp parse, format, compare,
\* generateRandom).
UUIDsReadBack ==
    kind = "uuid" /\ Len(s) = 3 =>
        LET id == [i \in 1..16 |-> (37 * s[1] + 23 * i) % 64]
            good == Times!format(id)
            text == IF s[2] = 0 THEN good ELSE IF s[2] = 37 THEN Append(good, s[3]) ELSE [good EXCEPT ![s[2]] = s[3]]
            other == Times!parse(text)
            random == Times!RandomOf(id)
        IN  /\ Times!parse(good) = id
            /\ (other # Times!UUIDError) = (s[2] # 37 /\ (s[2] # 0 => (s[3] = Times!Dash) = (good[s[2]] = Times!Dash) /\ s[3] # Times!Strange))
            /\ other # Times!UUIDError =>
                   /\ Times!format(other) = text
                   /\ Times!compare(Times!unpack(id), Times!unpack(other)) =
                          IF text = good THEN 0 ELSE IF good[s[2]] < s[3] THEN -1 ELSE 1
            /\ Times!type(random) = 4 /\ Times!variant(random) = "DCE"
            /\ Times!timeOf(random) = Times!timeOf(id) /\ Times!RandomOf(random) = random

-----------------------------------------------------------------------------
\* The first item that has the name of a mode, or has none, decides on the mode
\* and its level - as long as no level stands behind the name of another mode, and no
\* item is the beginning of the name and not all of it, which the code takes for the
\* name (Log.cpp:347, checkMode).
ModesAsDocumented ==
    kind = "modes" => \A name \in {MCio, MCnet}, default \in {-1, 1} :
        LET mine(item) == item.name \in {<<>>, name}
            first == {k \in DOMAIN said : mine(said[k]) /\ Spelled(said[k]) # <<>>}
            item  == said[Min(first)]
            answer == Logs!checkMode(name, Modes(said), default)
        IN  (\A k \in DOMAIN said : /\ said[k].level = -1 \/ (mine(said[k]) /\ said[k].sign # <<"-">>)
                                    /\ IsPrefix(said[k].name, name) => mine(said[k]))
            => IF first = {} THEN ~answer.said
               ELSE /\ answer.said /\ answer.selected = (item.sign # <<"-">>)
                    /\ item.level # -1 => answer.level = item.level
                    /\ item.level = -1 /\ answer.selected => answer.level = default

\* A host and a port are found again in the two written with a dot between
\* (LogSocket.cpp:99).
HostPortRead ==
    kind = "modes" /\ Len(said) < 3 => \A host \in {<<"h">>, <<"h", ".", "h">>, <<"1", ".", "2">>}, port \in {<<"1">>, <<"1", "2">>} :
        Logs!HostAndPort(host \o <<".">> \o port) = [host |-> host, port |-> Logs!PortValue(port)]

-----------------------------------------------------------------------------
\* The rules above, by what they are about, as the run checks them.

\* Splitting, searching, replacing, formatting and quoting agree with each other
\* and with what a reader of the text would do (StringOps.cpp, Regexp.cpp,
\* RegexpMatch.cpp, Argz.cpp, StringFormat.cpp, SearchPath.cpp).
TextsAgree ==
    /\ SplitJoins /\ TrimKeepsWhatIsAsked /\ LimitCountsFields
    /\ SearchesAgree /\ ReplaceAllApart /\ PathsSurvive
    /\ AllMatchesFound /\ RegexpAgrees /\ ReplaceAroundMatches /\ EscapeIsLiteral
    /\ RangesAsAsked /\ MatchesHandedOut /\ GlobsCompile
    /\ QuotingSurvives /\ NumbersReadBack /\ FormatReplacesInOrder

\* What is done to a name leaves it the name of the same file (Filename.cpp,
\* UnixFilename.cpp).
NamesAgree ==
    /\ ExpandKeepsMeaning /\ PartsFit /\ SavedAndShort /\ UsersExpand /\ VariablesReplaced /\ VersionsStripped
    /\ CompletesToTheLongest /\ TrueNameIsTrue /\ ChasedIsTheSame

\* Words of bits, times, dates and identifiers come out of every conversion and
\* back as they were (BitOps.h, BitIterator.h, Time.cpp, Time.h, UUID.cpp).
NumbersAgree ==
    /\ BitTricksAgree /\ MortonComesBack /\ RangesExtracted
    /\ SpansAddUp /\ FractionsShown /\ TimesComeBack /\ YearsAsWritten /\ DosDatesSurvive
    /\ UUIDsReadBack

\* What is written to the log and wanted comes out, once, in its order, in lines
\* that tell their mode, and goes to the file that has the name; the modes and the
\* host are the ones asked for (Log.cpp, LogFile.cpp:199, LogSocket.cpp:99).
LogComesOut ==
    /\ kind = "stream" => /\ Logs!StreamTypeOK /\ Logs!NothingLost
                          /\ Logs!LinesTellTheirMode /\ Logs!SelectionsHold
    /\ kind = "sink" => Logs!FollowsTheName
    /\ ModesAsDocumented /\ HostPortRead
=============================================================================
