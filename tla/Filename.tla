------------------------------ MODULE Filename ------------------------------
(***************************************************************************)
(* Filename.cpp on Unix: names are sequences of characters.  The system's  *)
(* part - the current directory, the home directories, the environment,    *)
(* the symbolic links - is a parameter of the operators that ask for it.   *)
(* Broken is the outcome of an ASSERT, the other outcomes are exceptions.  *)
(***************************************************************************)
EXTENDS Integers, Sequences, FiniteSets, SequencesExt, FiniteSetsExt

CONSTANT MaxLinks           \* links followed before giving up; 100 in the code

Broken       == <<"failed">>
TooManyLinks == <<"links">>
BadSyntax    == <<"syntax">>
Unterminated == <<"unterminated">>
NoSuchVar    == <<"novar">>
Outcomes     == {Broken, TooManyLinks, BadSyntax, Unterminated, NoSuchVar}

IsSep(t, i) == i \in DOMAIN t /\ t[i] = "/"
Ends(t, i) == i > Len(t) \/ IsSep(t, i)
From(t, i) == SubSeq(t, i, Len(t))

isAbsolute(n) == IsSep(n, 1)
isRelative(n) == n # <<>> /\ ~isAbsolute(n)

asDirectory(n) == IF n # <<>> /\ ~IsSep(n, Len(n)) THEN Append(n, "/") ELSE n

asFile(n) ==
    LET other == {i \in DOMAIN n : ~IsSep(n, i)}
    IN  SubSeq(n, 1, Max({i \in other \cup {1} : i <= Len(n)} \cup {0}))

\* The length of the part with the last separator.
DirLength(n) == Max({i \in DOMAIN n : IsSep(n, i)} \cup {0})
directory(n) == SubSeq(n, 1, DirLength(n))
nondirectory(n) == From(n, DirLength(n) + 1)

\* The constructor from a directory and a file, not the appending one.
In(dir, file) == IF dir = <<>> THEN file ELSE IF file = <<>> THEN dir ELSE asDirectory(dir) \o file

LastDot(n) == Max({i \in DOMAIN n : n[i] = "."} \cup {0})
IsDots(n) == n \in {<<".">>, <<".", ".">>}

extension(n, period) ==
    LET name == nondirectory(n) dot == LastDot(name) IN
    IF IsDots(name) \/ dot = 0 THEN <<>> ELSE From(name, IF period THEN dot ELSE dot + 1)

sansExtension(n) ==
    LET name == nondirectory(n) dot == LastDot(name) IN
    IF IsDots(name) THEN n ELSE In(directory(n), IF dot = 0 THEN name ELSE SubSeq(name, 1, dot - 1))

autosaveName(n) == directory(n) \o <<"#">> \o nondirectory(n) \o <<"#">>
isAutosaveName(n) == Len(n) > 0 /\ n[1] = "#" /\ n[Len(n)] = "#"
backupName(n) == Append(n, "~")
isBackupName(n) == n # <<>> /\ n[Len(n)] = "~"

IsDigit(n, i) == i \in DOMAIN n /\ n[i] \in {"0", "1", "2"}

\* "p" is as in the code: the number of characters before it.
sansVersions(n) ==
    LET down[p \in 0..Len(n)] ==
            IF p > 0 /\ IsDigit(n, p)
            THEN LET first == Max({i \in 0..p : ~IsDigit(n, i)})
                 IN  down[IF first > 0 /\ n[first] = "." THEN first - 1 ELSE first]
            ELSE p
        last == Len(n) - 1
        p    == down[last]
        \* p[-1] and p[-2] are read from the character before p on
        bare == p <= 2 \/ ~IsDigit(n, p + 1) \/ (n[p] # "~" /\ n[p - 1] # ".")
    IN  IF ~isBackupName(n) THEN n
        ELSE IF ~IsDigit(n, last) THEN SubSeq(n, 1, last)
        ELSE SubSeq(n, 1, IF bare THEN last ELSE p - 2)

\* What is left of the name after "~" or "~user", and the directory it stands
\* for.  The test for a separator looks one character too far.
expandUser(n, home) ==
    LET stop == Min({i \in 2..Len(n) + 1 : Ends(n, i)})
        user == SubSeq(n, 2, stop - 1)
    IN  IF Len(n) = 1 \/ IsSep(n, 3) THEN [name |-> From(n, 2), dir |-> home.self]
        ELSE IF user \in DOMAIN home.users THEN [name |-> From(n, stop), dir |-> home.users[user]]
        ELSE [name |-> n, dir |-> <<>>]

expandPrefix(n, defdir, home) ==
    LET u   == IF n[1] = "~" THEN expandUser(n, home) ELSE [name |-> n, dir |-> <<>>]
        dir == IF ~isAbsolute(u.name) /\ u.dir = <<>> THEN defdir ELSE u.dir
    IN  IF n = <<>> THEN Broken
        ELSE (IF isRelative(u.name) THEN asDirectory(dir) ELSE asFile(dir)) \o u.name

\* A component of one or two dots from the separator at p on.
OneDot(n, p) == IsSep(n, p) /\ p < Len(n) /\ n[p + 1] = "." /\ Ends(n, p + 2)
TwoDots(n, p) == IsSep(n, p) /\ IsPrefix(<<".", ".">>, From(n, p + 1)) /\ Ends(n, p + 3)

\* The length of what is kept without its last component and the separator.
Popped(out) == Max({i \in 0..Len(out) - 1 : i = 0 \/ IsSep(out, i + 1)})

RECURSIVE CleanFrom(_, _, _, _)
CleanFrom(n, p, out, strip) ==
    IF p > Len(n) THEN out
    ELSE IF strip /\ IsSep(n, p) /\ IsSep(n, p + 1) THEN CleanFrom(n, p + 1, <<>>, strip)
    ELSE IF OneDot(n, p)
         THEN CleanFrom(n, p + 2, IF out = <<>> /\ p + 1 = Len(n) THEN <<"/">> ELSE out, strip)
    ELSE IF TwoDots(n, p) /\ out = <<>> THEN CleanFrom(n, p + 3, <<"/", ".", ".">>, strip)
    ELSE IF TwoDots(n, p)
         THEN LET k == Popped(out)
              IN  IF ~IsSep(out, k + 1) THEN Broken
                  ELSE CleanFrom(n, p + 3, IF k = 0 /\ p + 2 = Len(n) THEN <<"/">> ELSE SubSeq(out, 1, k), strip)
    ELSE CleanFrom(n, p + 1, Append(out, n[p]), strip)

expandClean(n, strip) == IF n = Broken THEN Broken ELSE CleanFrom(n, 1, <<>>, strip)

\* "sys" is the part of the system: the current directory "cwd", the homes, the
\* environment "env" and the file system "fs".
expand(n, defaultDir, sys) ==
    LET defdir == IF defaultDir = <<>> THEN sys.cwd
                  ELSE IF isRelative(defaultDir) /\ defaultDir # n
                  THEN expandClean(expandPrefix(defaultDir, sys.cwd, sys.home), FALSE)
                  ELSE defaultDir
    IN  expandClean(expandPrefix(n, defdir, sys.home), FALSE)

NameChar(n, i) == i \in DOMAIN n /\ n[i] \notin {"/", ".", "~", "$", "{", "}", "#"}

\* The text with the variables from p on replaced; a value is not looked at again.
RECURSIVE Variables(_, _, _)
Variables(n, p, env) ==
    LET braced == p < Len(n) /\ n[p + 1] = "{"
        b == IF braced THEN p + 2 ELSE p + 1
        e == Min({i \in b..Len(n) + 1 : i > Len(n) \/ (IF braced THEN n[i] = "}" ELSE ~NameChar(n, i))})
        name == SubSeq(n, b, e - 1)
        Then(text, q) == LET rest == Variables(n, q, env)
                         IN  IF rest \in Outcomes THEN rest ELSE text \o rest
    IN  IF p > Len(n) THEN <<>>
        ELSE IF n[p] # "$" THEN Then(<<n[p]>>, p + 1)
        ELSE IF p < Len(n) /\ n[p + 1] = "$" THEN Then(<<>>, p + 1)
        ELSE IF braced /\ e > Len(n) THEN Unterminated
        ELSE IF ~braced /\ name = <<>> THEN BadSyntax
        ELSE IF name \notin DOMAIN env THEN NoSuchVar
        ELSE Then(env[name], IF braced THEN e + 1 ELSE e)

substitute(n, sys) ==
    LET source == expand(n, <<>>, sys)
        start  == Max({i + 1 : i \in {j \in DOMAIN source : IsSep(source, j) /\ j < Len(source)
                                                            /\ source[j + 1] \in {"/", "~"}}} \cup {1})
        text   == Variables(expandPrefix(From(source, start), sys.cwd, sys.home), 1, sys.env)
    IN  IF source = Broken THEN Broken ELSE IF text \in Outcomes THEN text ELSE expandClean(text, TRUE)

\* The pairs are tried in their order, each against the beginning.
abbreviate(n, abbrevs, home) ==
    LET pairs == Append(abbrevs, <<home.self, <<"~">>>>)
    IN  FoldLeft(LAMBDA t, a : IF IsPrefix(a[1], t) THEN a[2] \o From(t, Len(a[1]) + 1) ELSE t, n, pairs)

completions(n, entries) == SelectSeq(entries, LAMBDA e : IsPrefix(n, e))

complete(n, entries) ==
    LET c == completions(n, entries)
        Common(x, y) == Max({k \in Len(n)..Min({Len(x), Len(y)}) : SubSeq(x, 1, k) = SubSeq(y, 1, k)})
    IN  IF c = <<>> THEN [found |-> FALSE, exact |-> FALSE, name |-> n]
        ELSE [found |-> TRUE, exact |-> Len(c) = 1 /\ c[1] = n,
              name |-> FoldLeft(LAMBDA m, x : SubSeq(m, 1, Common(m, x)), c[1], Tail(c))]

-----------------------------------------------------------------------------
\* External: the kernel's walk along a name.  A file system maps the places -
\* sequences of names from the root - to what is there.
Missing == <<<<"missing">>>>
Looping == <<<<"looping">>>>

Components(n) ==
    LET starts == {i \in DOMAIN n : ~IsSep(n, i) /\ (i = 1 \/ IsSep(n, i - 1))}
        Nth(k) == CHOOSE i \in starts : Cardinality({j \in starts : j < i}) = k - 1
    IN  [k \in 1..Cardinality(starts) |->
            SubSeq(n, Nth(k), Min({j \in Nth(k)..Len(n) + 1 : Ends(n, j)}) - 1)]

RECURSIVE Walk(_, _, _, _)
Walk(fs, at, rest, budget) ==
    LET next == IF rest = <<>> THEN at ELSE Append(at, Head(rest)) IN
    IF rest = <<>> THEN at
    ELSE IF fs[at].kind # "dir" THEN Missing
    ELSE IF Head(rest) = <<".">> THEN Walk(fs, at, Tail(rest), budget)
    ELSE IF Head(rest) = <<".", ".">> THEN Walk(fs, SubSeq(at, 1, Len(at) - 1), Tail(rest), budget)
    ELSE IF next \notin DOMAIN fs THEN Missing
    ELSE IF fs[next].kind # "link" THEN Walk(fs, next, Tail(rest), budget)
    ELSE IF budget = 0 THEN Looping
    ELSE Walk(fs, IF isAbsolute(fs[next].target) THEN <<>> ELSE at,
              Components(fs[next].target) \o Tail(rest), budget - 1)

Lookup(sys, n) ==
    Walk(sys.fs, <<>>, (IF isAbsolute(n) THEN <<>> ELSE Components(sys.cwd)) \o Components(n), MaxLinks)

\* isSymlink (): the target of the link, nothing if it is none.
isSymlink(n, sys) ==
    LET cs  == Components(n)
        dir == Lookup(sys, directory(n))
        at  == Append(dir, cs[Len(cs)])
    IN  IF cs = <<>> \/ nondirectory(n) = <<>> \/ dir \in {Missing, Looping} THEN <<>>
        ELSE IF at \in DOMAIN sys.fs /\ sys.fs[at].kind = "link" THEN sys.fs[at].target ELSE <<>>

-----------------------------------------------------------------------------
\* The directories found before are remembered in the code, which changes
\* nothing as long as the file system does not change.
RECURSIVE findTruename(_, _, _)
findTruename(n, counter, sys) ==
    LET given == IF directory(n) = <<>> THEN asDirectory(sys.cwd) ELSE directory(n)
        dir   == IF given = asFile(given) THEN given ELSE findTruename(asFile(given), counter - 1, sys)
        base  == nondirectory(n)
        full  == In(dir, base)
        target == isSymlink(full, sys)
    IN  IF counter = 0 \/ dir = TooManyLinks THEN TooManyLinks
        ELSE IF base = <<".", ".">> THEN asFile(directory(asFile(dir)))
        ELSE IF base = <<".">> THEN asFile(dir)
        ELSE IF target = <<>> THEN full
        ELSE findTruename(IF isAbsolute(target) THEN target ELSE In(dir, target), counter - 1, sys)

truename(n, sys) ==
    LET name == expand(n, <<>>, sys) IN
    IF name = Broken THEN Broken ELSE findTruename(IF name = <<>> THEN <<"/">> ELSE name, MaxLinks, sys)

\* A mutant of Collapsed: the first separator goes with the ones that follow.
CollapsedAll(t) == SelectSeq(t, LAMBDA c : c # "/")

Collapsed(t) ==
    LET kept == SelectSeq([i \in DOMAIN t |-> i], LAMBDA i : ~(IsSep(t, i) /\ IsSep(t, i - 1)))
    IN  [k \in DOMAIN kept |-> t[kept[k]]]

\* A leading "../" of the target goes up from where the directory of the link
\* really is; the count begins anew there.
RECURSIVE Chase(_, _, _), Upwards(_, _, _)
Upwards(n, target, sys) ==
    IF n \in Outcomes THEN n
    ELSE IF ~IsPrefix(<<".", ".", "/">>, target) THEN expand(target, directory(n), sys)
    ELSE LET up == Chase(asFile(directory(expand(n, <<>>, sys))), MaxLinks, sys)
         IN  Upwards(IF up \in Outcomes THEN up ELSE directory(up), From(target, 4), sys)
Chase(n, counter, sys) ==
    LET target == isSymlink(n, sys) IN
    IF n \in Outcomes \/ target = <<>> THEN n
    ELSE IF counter = 0 THEN TooManyLinks
    ELSE Chase(Upwards(n, Collapsed(target), sys), counter - 1, sys)

chaseLinks(n, sys) == Chase(n, MaxLinks, sys)
=============================================================================
