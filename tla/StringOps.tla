------------------------------ MODULE StringOps ------------------------------
(***************************************************************************)
(* The string functions of StringOps.cpp, and what is built from them in   *)
(* SearchPath.cpp, StringFormat.cpp and Argz.cpp.  A string is a sequence of         *)
(* characters, a position counts from 0; the overloads for char *, for     *)
(* std::string, for one character and for a string are one definition, a   *)
(* character being a string of length one, except where they differ.       *)
(* Failed stands for an ASSERT that stops the program, Hung for a loop     *)
(* that is never left.                                                     *)
(***************************************************************************)
EXTENDS Regexp, TLC

Failed == -2
Hung   == <<"hung">>
None   == <<"failed">>

\* External: tolower ().
tolower(c) == IF c = "A" THEN "a" ELSE c

Same(x, y, caseless) ==
    Len(x) = Len(y) /\ \A i \in DOMAIN x : x[i] = y[i] \/ (caseless /\ tolower(x[i]) = tolower(y[i]))

At(s, what, i, caseless) == i >= 0 /\ i + Len(what) <= Len(s)
                            /\ Same(Piece(s, i, i + Len(what)), what, caseless)

rawfind(s, what, offset, caseless) ==
    LET hits == {i \in offset..Len(s) : At(s, what, i, caseless)} IN
    IF offset < 0 \/ offset > Len(s) THEN Failed ELSE IF hits = {} THEN -1 ELSE Min(hits)

\* Backwards, for a character.
rawrfindChar(s, char, offset, caseless) ==
    LET hits == {i \in 0..offset : At(s, <<char>>, i, caseless)} IN
    IF offset \notin 0..Len(s) THEN Failed ELSE IF hits = {} THEN -1 ELSE Max(hits)

\* Backwards, for a string: it is asserted that there is nothing to look for.
rawrfind(s, what, offset) ==
    IF offset \notin 0..Len(s) \/ what # <<>> THEN Failed ELSE offset

find(s, what, offset, caseless) ==
    LET o == IF offset < 0 THEN Max({offset + Len(s), 0}) ELSE offset IN
    IF o >= Len(s) THEN -1 ELSE rawfind(s, what, o, caseless)

findRegexp(s, rx, offset) == search(rx, s, offset)

\* The cast makes an offset before the beginning one past the end.
ClampedBack(s, offset) ==
    LET o == IF offset < 0 THEN offset + Len(s) ELSE offset
    IN  IF o < 0 \/ o >= Len(s) THEN Len(s) - 1 ELSE o

rfindChar(s, char, offset, caseless) ==
    IF s = <<>> THEN -1 ELSE rawrfindChar(s, char, ClampedBack(s, offset), caseless)

rfind(s, what, offset) ==
    IF s = <<>> THEN -1 ELSE rawrfind(s, what, ClampedBack(s, offset))

rfindRegexp(s, rx, offset) == doRevSearch(rx, s, offset, {})

\* Every position is tried, one after the other: with nothing to look for also
\* the one past the end, which rawfind () asserts about.
contains(s, what, caseless) ==
    LET count[i \in 0..Len(s) + 1] ==
            LET at == rawfind(s, what, i, caseless) IN
            IF at < 0 THEN <<0, at>> ELSE LET n == count[at + 1] IN <<n[1] + 1, n[2]>>
    IN  IF count[0][2] = Failed THEN Failed ELSE count[0][1]

containsRegexp(s, rx) ==
    LET count[i \in 0..Len(s) + 1] ==
            LET at == search(rx, s, i) IN IF at < 0 THEN 0 ELSE 1 + count[at + 1]
    IN  count[0]

grep(items, what, caseless) ==
    SelectSeq(items, LAMBDA s : rawfind(s, what, 0, caseless) >= 0)

grepRegexp(items, rx) == SelectSeq(items, LAMBDA s : search(rx, s, 0) >= 0)

join(items, sep) ==
    FlattenSeq([i \in DOMAIN items |-> IF i = 1 THEN items[i] ELSE sep \o items[i]])

-----------------------------------------------------------------------------
\* The next separator at or after a position, as <<begin, length>>; the end of
\* the string counts as one of no length.
NextSep(s, sep, index, flags) ==
    LET at == rawfind(s, sep, index, "CaseInsensitiveSep" \in flags) IN
    IF at = -1 THEN <<Len(s), 0>> ELSE <<at, Len(sep)>>

NextSepRegexp(s, rx, index) ==
    LET r == doSearch(rx, s, index, {}) IN
    IF r.first = -1 THEN <<Len(s), 0>> ELSE <<r.first, r.sets[1][2] - r.sets[1][1]>>

\* The fields, empty ones too, as <<begin, end>>.  After a separator of no
\* length the search goes on one character further, the field does not.
Fields(s, next) ==
    LET from[b \in 0..Len(s), i \in 0..Len(s) + 1] ==
            IF i > Len(s) THEN <<>>
            ELSE LET m   == next[i]
                     end == m[1] + m[2]
                 IN  <<<<b, m[1]>>>> \o from[end, IF m[2] = 0 THEN end + 1 ELSE end]
    IN  from[0, 0]

Keep(flags) ==
    IF "TrimEmpty" \notin flags THEN {"leading", "middle", "trailing"}
    ELSE {k \in {"leading", "trailing"} :
            (IF k = "leading" THEN "KeepLeadingEmpty" ELSE "KeepTrailingEmpty") \in flags}

\* A mutant of ScanField: the empty fields behind the mark always stay.
ScanFieldKeepsAll(keep, nmax, st, f) ==
    LET real == f[2] > f[1]
        mark == IF real THEN st.mark + 1 ELSE st.mark
    IN  [pos |-> Append(st.pos, f), mark |-> mark, cur |-> "middle",
         last |-> IF real THEN "trailing" ELSE st.last, over |-> FALSE]

\* One field: the empty fields waiting behind the mark go if they are not to be
\* kept.  The mark counts the fields that are not empty.
ScanField(keep, nmax, st, f) ==
    LET real  == f[2] > f[1]
        kept  == IF real /\ st.cur \notin keep THEN SubSeq(st.pos, 1, st.mark) ELSE st.pos
        pos   == Append(kept, f)
        mark  == IF real THEN st.mark + 1 ELSE st.mark
        cur   == IF real THEN "middle" ELSE st.cur
        last  == IF real THEN "trailing" ELSE st.last
        over  == nmax > 0 /\ (mark >= nmax \/ (Len(pos) >= nmax /\ {cur, last} \cap keep = {}))
    IN  IF st.over THEN st ELSE [pos |-> pos, mark |-> mark, cur |-> cur, last |-> last, over |-> over]

splitpos(s, next, flags, nmax) ==
    LET keep  == Keep(flags)
        start == [pos |-> <<>>, mark |-> 0, cur |-> "leading", last |-> "leading", over |-> FALSE]
        end   == FoldLeft(LAMBDA st, f : ScanField(keep, nmax, st, f), start, Fields(s, next))
    IN  IF end.last \in keep THEN end.pos ELSE SubSeq(end.pos, 1, end.mark)

splitmax(nmax, first, last) == IF first < 0 \/ last < 0 THEN 0 ELSE Max({nmax, last})

\* The range of fields asked for, from 0, both ends included; NoFields if empty.
NoFields == <<0, -1>>
Selected(count, first, last) ==
    LET f == IF first < 0 THEN Max({count + first, 0}) ELSE first
        b == IF last < 0 THEN count + last ELSE last
        l == IF b = 0 \/ b >= count THEN count - 1 ELSE b
    IN  IF f >= count \/ b < 0 THEN NoFields ELSE <<f, l>>

\* From field number nmax on everything is appended to the last result.
splitFields(s, fields, nmax, first, last) ==
    LET range == Selected(Len(fields), first, last)
        Pick(res, i) ==
            LET f == fields[i + 1] IN
            IF nmax > 0 /\ i >= nmax /\ res # <<>>
            THEN [res EXCEPT ![Len(res)] = @ \o Piece(s, fields[i][2], f[2])]
            ELSE Append(res, Piece(s, f[1], f[2]))
    IN  FoldLeft(Pick, <<>>, [k \in 1..range[2] - range[1] + 1 |-> range[1] + k - 1])

split(s, sep, flags, nmax, first, last) ==
    LET next == [i \in 0..Len(s) |-> NextSep(s, sep, i, flags)] IN
    splitFields(s, splitpos(s, next, flags, splitmax(nmax, first, last)), nmax, first, last)

splitRegexp(s, rx, flags, nmax, first, last) ==
    LET next == [i \in 0..Len(s) |-> NextSepRegexp(s, rx, i)] IN
    splitFields(s, splitpos(s, next, flags, splitmax(nmax, first, last)), nmax, first, last)

\* What section () returns where its assertion, which wants the section to end
\* before it begins, lets it.
sectionFields(s, fields, first, last) ==
    LET range == Selected(Len(fields), first, last) IN
    IF fields = <<>> \/ range = NoFields THEN <<>>
    ELSE LET begin == fields[range[1] + 1][1]
             end   == fields[range[2] + 1][2]
         IN  IF begin >= end THEN Piece(s, begin, end) ELSE None

section(s, sep, first, last, flags) ==
    LET next == [i \in 0..Len(s) |-> NextSep(s, sep, i, flags)] IN
    sectionFields(s, splitpos(s, next, flags, splitmax(0, first, last)), first, last)

sectionRegexp(s, rx, first, last, flags) ==
    LET next == [i \in 0..Len(s) |-> NextSepRegexp(s, rx, i)] IN
    sectionFields(s, splitpos(s, next, flags, splitmax(0, first, last)), first, last)

-----------------------------------------------------------------------------
\* After a replacement the search goes on one character past what was put in.
RECURSIVE replace(_, _, _, _)
replace(s, offset, what, with) ==
    LET at == find(s, what, offset, FALSE) IN
    IF at < 0 THEN s
    ELSE replace(Piece(s, 0, at) \o with \o Piece(s, at + Len(what), Len(s)),
                 at + Len(with) + 1, what, with)

remove(s, what, offset) == replace(s, offset, what, <<>>)

\* References to captures, at most three digits.  The loop for the second digit
\* never moves on.
Digits == [d \in {"0", "1", "2"} |-> CASE d = "0" -> 0 [] d = "1" -> 1 [] OTHER -> 2]
Expand(s, markers, pattern) ==
    LET from[i \in 1..Len(pattern) + 1] ==
            IF i > Len(pattern) THEN <<>>
            ELSE IF pattern[i] # "\\" \/ i = Len(pattern)
                 THEN IF from[i + 1] = Hung THEN Hung ELSE <<pattern[i]>> \o from[i + 1]
            ELSE IF pattern[i + 1] \in DOMAIN Digits /\ i + 2 <= Len(pattern)
                    /\ pattern[i + 2] \in DOMAIN Digits
                 THEN Hung
            ELSE IF from[i + 2] = Hung THEN Hung
            ELSE (IF pattern[i + 1] = "\\" THEN <<"\\">>
                  ELSE IF pattern[i + 1] \in DOMAIN Digits /\ Digits[pattern[i + 1]] < Len(markers)
                       THEN matchString(s, markers[Digits[pattern[i + 1]] + 1])
                  ELSE <<"\\", pattern[i + 1]>>) \o from[i + 2]
    IN  from[1]

\* Matches are looked for in the original, the result is edited beside it; the
\* position in the one is asserted to be inside the other.
RECURSIVE ReplaceMatches(_, _, _, _, _, _)
ReplaceMatches(s, result, delta, offset, rx, with) ==
    LET r    == doSearch(rx, s, offset, {})
        m    == r.sets[1]
        text == Expand(s, Markers(rx, r.sets), with)
    IN  IF r.first < 0 THEN result
        ELSE IF r.first >= Len(result) THEN None
        ELSE IF text = Hung THEN Hung
        ELSE ReplaceMatches(s, Piece(result, 0, m[1] + delta) \o text \o Piece(result, m[2] + delta, Len(result)),
                            delta + Len(text) - (m[2] - m[1]), Max({offset + 1, m[2]}), rx, with)

replaceRegexp(s, offset, rx, with) == ReplaceMatches(s, s, 0, offset, rx, with)

removeRegexp(s, rx, offset) == replaceRegexp(s, offset, rx, <<>>)

-----------------------------------------------------------------------------
(* SearchPath.cpp: a list of directories to look for a file in.  The path  *)
(* given as a string is split at the separators; the empty name stands for *)
(* the current directory.                                                  *)

separator == <<":">>

SearchPathOf(path) == IF path = <<>> THEN <<>> ELSE split(path, separator, {}, 0, 0, 0)

PathText(dirs) == join(dirs, separator)

\* The position of the first directory, at or after one, with the file in it;
\* one past the last if there is none.  "exists" is the set of <<dir, name>>.
searchFile(dirs, from, name, exists) ==
    LET with == {i \in from..Len(dirs) : <<dirs[i], name>> \in exists}
    IN  IF with = {} THEN Len(dirs) + 1 ELSE Min(with)

\* The name as it is when no directory has it.
expandSearched(dirs, name, exists) ==
    LET at == searchFile(dirs, 1, name, exists)
    IN  IF at > Len(dirs) THEN <<name>> ELSE <<dirs[at], name>>

-----------------------------------------------------------------------------
(* StringFormat.cpp: formatting with numbered references, a "%" followed   *)
(* by digits.  A format is [value, args], its text and the references left *)
(* to replace, as <<offset, length>> in the order in which they will be.   *)

\* The digits that occur; the terminating null counts as a digit worth ten,
\* for strchr () finds it at the end of the list of digits.
DigitOf == [c \in {"1", "2", "null"} |-> CASE c = "1" -> 1 [] c = "2" -> 2 [] OTHER -> 10]

CharAt(s, i) == IF i <= Len(s) THEN s[i] ELSE "null"

\* The reference that starts at position i, counted from 1, and its number.
RefEnd(s, i) == Min({j \in i + 1..Len(s) + 1 : CharAt(s, j) \notin {"1", "2"}})
RefNumber(s, i) ==
    LET number[j \in i..Len(s) + 1] ==
            IF j = i THEN 0
            ELSE 10 * number[j - 1] + DigitOf[CharAt(s, j)]
        end == RefEnd(s, i)
    IN  number[IF end > Len(s) THEN end ELSE end - 1]

\* Where the references start: what follows a "%" without a digit is skipped.
Refs(s) ==
    LET from[i \in 1..Len(s) + 2] ==
            IF i >= Len(s) THEN {}
            ELSE IF s[i] # "%" THEN from[i + 1]
            ELSE IF s[i + 1] \in {"1", "2"} THEN {i} \cup from[RefEnd(s, i)]
            ELSE from[i + 2]
    IN  from[1]

\* The reference with the smallest number, the first of several.
nextarg(s) ==
    LET least == Min({RefNumber(s, i) : i \in Refs(s)})
    IN  Min({i \in Refs(s) : RefNumber(s, i) = least})

\* All references, in the order of their numbers; a found one is crossed out.
RECURSIVE dorescan(_, _)
dorescan(s, args) ==
    IF Refs(s) = {} THEN args
    ELSE LET i == nextarg(s)
         IN  dorescan([s EXCEPT ![i] = "X"], Append(args, <<i - 1, RefEnd(s, i) - i>>))

Format(pattern) == [value |-> pattern, args |-> dorescan(pattern, <<>>)]

\* The references left are kept and found once more.
rescan(f) == [f EXCEPT !.args = dorescan(f.value, @)]

\* A positive width puts the spaces in front.
pad(s, width) ==
    LET n == Max({0, (IF width < 0 THEN -width ELSE width) - Len(s)})
        blank == [i \in 1..n |-> " "]
    IN  IF width < 0 THEN s \o blank ELSE blank \o s

\* Replace the next reference, or append; what comes after it moves.
doarg(f, text) ==
    LET item == IF f.args = <<>> THEN <<Len(f.value), 0>> ELSE Head(f.args)
        left == IF f.args = <<>> THEN <<>> ELSE Tail(f.args)
    IN  [value |-> SubSeq(f.value, 1, item[1]) \o text
                    \o SubSeq(f.value, item[1] + item[2] + 1, Len(f.value)),
         args  |-> [k \in DOMAIN left |->
                       IF left[k][1] < item[1] THEN left[k]
                       ELSE <<left[k][1] - item[2] + Len(text), left[k][2]>>]]

arg(f, text, width) == doarg(f, pad(text, width))

\* The digits of a number in a base: "n" is missing from the table of digits,
\* so that from 23 on a digit is the letter of the next one, and 35 the null.
FormatDigit(d) == IF d < 23 THEN d ELSE d + 1
format(val, base) ==
    LET digits[v \in 0..val] ==
            IF v < base THEN <<FormatDigit(v)>> ELSE Append(digits[v \div base], FormatDigit(v % base))
    IN  digits[val]

-----------------------------------------------------------------------------
(* Argument vectors: Argz.cpp.  A vector is a sequence of strings.  build  *)
(* () takes a command line apart with the quoting rules of a shell, quote  *)
(* () puts one together.                                                   *)

Spaces == {" "}
Quotes == {"'", "\""}

\* quote () knows the characters that need no quoting, all others do.
SafeChars == {"a", "b"}

add(argz, more) == argz \o more

-----------------------------------------------------------------------------
\* One character of an argument in progress: "in" is the quote it is inside
\* of, "bslash" a backslash just read; it is taken when nothing quotes it.
\* Inside double quotes a backslash counts before a backslash and the quote.
Scan(st, c, next) ==
    LET Put == [st EXCEPT !.arg = Append(@, c)] IN
    CASE st.bslash -> [Put EXCEPT !.bslash = FALSE]
      [] ~st.bslash /\ c = "\\" /\ (st.in = "" \/ (st.in = "\"" /\ next \in {"\"", "\\"}))
            -> [st EXCEPT !.bslash = TRUE]
      [] ~st.bslash /\ c \in Quotes /\ st.in = "" -> [st EXCEPT !.in = c]
      [] ~st.bslash /\ c \in Quotes /\ st.in = c -> [st EXCEPT !.in = ""]
      [] OTHER -> Put

NoSpaces(s, i) ==
    LET after == {j \in i..Len(s) : s[j] \notin Spaces} IN IF after = {} THEN Len(s) + 1 ELSE Min(after)

\* An unquoted space ends the argument; so does the end, whatever is open.
RECURSIVE Argument(_, _, _)
Argument(s, i, st) ==
    IF i > Len(s) \/ (s[i] \in Spaces /\ st.in = "" /\ ~st.bslash)
    THEN [arg |-> st.arg, next |-> i]
    ELSE Argument(s, i + 1, Scan(st, s[i], IF i = Len(s) THEN "" ELSE s[i + 1]))

Begun == [arg |-> <<>>, in |-> "", bslash |-> FALSE]

\* A command of nothing adds nothing, one of only spaces an empty argument.
build(command) ==
    LET from[i \in 1..Len(command) + 1] ==
            IF i > Len(command) THEN <<>>
            ELSE LET a == Argument(command, NoSpaces(command, i), Begun)
                 IN  <<a.arg>> \o from[NoSpaces(command, a.next)]
    IN  from[1]

\* Inside the single quotes a quote and a backslash are taken out of them.
QuoteArg(word) ==
    IF \A i \in DOMAIN word : word[i] \in SafeChars THEN word
    ELSE <<"'">> \o FlattenSeq([i \in DOMAIN word |->
             IF word[i] \in {"'", "\\"} THEN <<"'", "\\", word[i], "'">> ELSE <<word[i]>>]) \o <<"'">>

quote(argz) ==
    FlattenSeq([i \in DOMAIN argz |->
        IF i < Len(argz) THEN QuoteArg(argz[i]) \o <<" ">> ELSE QuoteArg(argz[i])])
=============================================================================
