-------------------------------- MODULE UUID --------------------------------
(***************************************************************************)
(* UUID.cpp, generateTime (): identifiers from the time of day, told apart *)
(* by an adjustment within one reading of the clock and by a sequence      *)
(* number when the clock was set back.                                     *)
(***************************************************************************)
EXTENDS Integers

CONSTANTS
    Step,               \* nanoseconds from one reading of the clock to the next
    Unit,               \* nanoseconds in one unit of an identifier: 100
    MAX_ADJUSTMENT,     \* 10 in the code
    Seqs,               \* values of the clock sequence: 8192 in the code
    MaxTime, MaxBack    \* bounds: readings, and how often the clock is set back

ASSUME UUIDAssumption ==
    /\ {Step, Unit, Seqs} \subseteq Nat \ {0}
    /\ {MAX_ADJUSTMENT, MaxTime, MaxBack} \subseteq Nat
    /\ MaxBack < Seqs

VARIABLES
    time,               \* the clock, in readings
    s_lasttime, s_adjustment, s_clockseq,
    given,              \* identifiers so far: time stamp and sequence number,
                        \* and the reading of the clock they were made from
    back                \* how often the clock was set back

uuidVars == <<time, s_lasttime, s_adjustment, s_clockseq, given, back>>

UUIDInit ==
    /\ time \in 2..3 /\ s_lasttime = 0 /\ s_adjustment = MAX_ADJUSTMENT /\ s_clockseq = 0
    /\ given = {} /\ back = 0

Tick == time < MaxTime /\ time' = time + 1 /\ UNCHANGED <<s_lasttime, s_adjustment, s_clockseq, given, back>>

SetBack ==
    /\ back < MaxBack /\ back' = back + 1 /\ time' \in 2..time - 1
    /\ UNCHANGED <<s_lasttime, s_adjustment, s_clockseq, given>>

\* A mutant of NextSeq: the clock sequence stays when the clock went back.
NextSeqSame == s_clockseq
NextSeq == (s_clockseq + 1) % Seqs

\* One turn of the loop that does not go on; the first call finds a last time
\* a second ago.
Readings ==
    \/ /\ s_lasttime = 0 /\ s_clockseq' \in 0..Seqs - 1 /\ s_adjustment' = 0
    \/ /\ s_lasttime # 0 /\ time < s_lasttime
       /\ s_clockseq' = NextSeq /\ s_adjustment' = 0
    \/ /\ s_lasttime # 0 /\ time = s_lasttime /\ s_adjustment < MAX_ADJUSTMENT
       /\ s_adjustment' = s_adjustment + 1 /\ UNCHANGED s_clockseq
    \/ /\ s_lasttime # 0 /\ time > s_lasttime
       /\ s_adjustment' = 0 /\ UNCHANGED s_clockseq

Units(t) == (t * Step) \div Unit

generateTime ==
    /\ Readings /\ s_lasttime' = time
    /\ given' = given \cup {[stamp |-> Units(time) + s_adjustment', seq |-> s_clockseq', time |-> time]}
    /\ UNCHANGED <<time, back>>

UUIDNext == Tick \/ SetBack \/ generateTime
=============================================================================
