-------------------------------- MODULE Bits --------------------------------
(***************************************************************************)
(* BitOps.h, BitPattern.h and BitIterator.h: a word is the set of the      *)
(* positions of its ones.  The recursion of the templates over the chunk   *)
(* sizes is a fold over them.                                              *)
(***************************************************************************)
EXTENDS Integers, Sequences, SequencesExt, FiniteSetsExt

CONSTANTS
    Width,      \* BitTraits<T>::Bits, a power of two of at least four
    IntWidth    \* the bits of an unsigned int, which the enumerations are made of

Places == 0..Width - 1
Value(n) == MapThenSumSet(LAMBDA i : 2^i, n)
Word(v) == {i \in Places : (v \div 2^i) % 2 = 1}
Shl(n, k) == {i + k : i \in n} \cap Places
Shr(n, k) == {i - k : i \in n} \cap Places
Xor(n, m) == (n \cup m) \ (n \cap m)

Up == [k \in 1..Cardinality({i \in Places : 2^i < Width}) |-> 2^(k - 1)]
Down == Reverse(Up)
HalfUp == Front(Up)                     \* up to Width / 4

RECURSIVE BitPatternHelp(_, _, _)
BitPatternHelp(N, pat, width) ==
    CASE N = 0 -> {}
      [] N = 1 -> pat
      [] OTHER -> Shl(BitPatternHelp((N \div 2) + (N % 2), pat, width), width * (N \div 2))
                  \cup BitPatternHelp(N \div 2, pat, width)

Pattern == [b \in ToSet(Up) |->
    IF b = 1 THEN BitPatternHelp(Width \div 2, {0}, 2)
    ELSE BitPatternHelp(Width \div (2 * b), BitPatternHelp(b, {0}, 1), 2 * b)]

\* The complement of an enumerator: one that needs the top bit of an unsigned
\* int is complemented in one and not any wider.
RevPattern == [b \in DOMAIN Pattern |->
    IF Max(Pattern[b]) = IntWidth - 1 THEN (0..IntWidth - 1) \ Pattern[b] ELSE Places \ Pattern[b]]

swap(x, y) == LET x1 == Xor(x, y) y1 == Xor(y, x1) IN <<Xor(x1, y1), y1>>

count(n) ==
    Value(FoldLeft(LAMBDA m, b : Word(Value(Shr(m, b) \cap Pattern[b]) + Value(m \cap Pattern[b])), n, Up))

reverse(n) ==
    FoldLeft(LAMBDA m, b : (Shr(m, b) \cap Pattern[b]) \cup (Shl(m, b) \cap RevPattern[b]), n, Up)

rzero(n) ==
    LET end == FoldLeft(LAMBDA t, b : IF t.n \cap Pattern[b] # {} THEN [n |-> Shl(t.n, b), c |-> t.c - b] ELSE t,
                        [n |-> n, c |-> Width], Down)
    IN  IF end.n = {} THEN end.c ELSE end.c - 1

log2(n) ==
    FoldLeft(LAMBDA t, b : IF t.n \cap RevPattern[b] # {} THEN [n |-> Shr(t.n, b), c |-> t.c + b] ELSE t,
             [n |-> n, c |-> 0], Down).c

islog2(n) == n \cap Word(Value(n) - 1) = {}

ceil2(n) == Word(Value(FoldLeft(LAMBDA m, b : m \cup Shr(m, b), Word(Value(n) - 1), Up)) + 1)

parity(n) == 0 \in FoldLeft(LAMBDA m, b : Xor(m, Shr(m, b)), n, Down)

Spread(n) == FoldLeft(LAMBDA m, b : (m \cup Shl(m, b)) \cap Pattern[b], n, Reverse(HalfUp))
mortonInterleave(x, y) == Spread(x) \cup Shl(Spread(y), 1)

mortonExtract(n) == FoldLeft(LAMBDA m, b : LET p == m \cap Pattern[b] IN p \cup Shr(p, b), n, HalfUp)
mortonSplit(n) == <<mortonExtract(n), mortonExtract(Shr(n, 1))>>

extract(n, from, len) == Shr(n, Width - from - len) \ Shl(Places, len)

\* p is a sequence of words; what lies behind it is any word.
extractSafe(p, from, len) ==
    LET k == (from \div Width) + 1 IN extract(IF k \in DOMAIN p THEN p[k] ELSE Places, from % Width, len)

extractStraddledSafe(p, from, len) ==
    LET first == Min({len, Width - (from % Width)})
    IN  Shl(extractSafe(p, from, first), len - first) \cup extractSafe(p, from + first, len - first)

extractUpTo(p, maxbit, from, len) == IF from > maxbit THEN {} ELSE extractStraddledSafe(p, from, len)
extractUnstraddled(p, maxbit, from, len) == IF from > maxbit THEN {} ELSE extractSafe(p, from, len)

\* What an iterator over chunks of the given size shows at its position m_bit.
Dereference(p, m_bit, bits) ==
    IF Width % bits = 0 THEN extractSafe(p, m_bit * bits, bits) ELSE extractStraddledSafe(p, m_bit * bits, bits)
=============================================================================
