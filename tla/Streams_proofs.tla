--------------------------- MODULE Streams_proofs ---------------------------
(***************************************************************************)
(* Proofs about locks on regions, files, children and channels.  Each has  *)
(* an inductive invariant of its own, kept by its own steps; the steps of  *)
(* the others leave its variables alone.                                   *)
(***************************************************************************)
EXTENDS MCStreams, TLAPS, SequenceTheorems, FiniteSetTheorems, WellFoundedInduction

-----------------------------------------------------------------------------
(* Locks on regions.                                                       *)

\* The kernel keeps writers and others apart, byte by byte.
KernelKeepsApart ==
    \A p, q \in LockProcs, x \in Bytes : p # q /\ locks[p][x] = "write" => locks[q][x] = "none"

\* An object has a region from the beginning of lock () to the end of unlock (),
\* and no byte in common with another one of its process.
ObjectsKeepApart ==
    /\ \A o, q \in Lockers : o # q /\ LockerOf[o] = LockerOf[q] => region[o] \cap region[q] = {}
    /\ \A o \in Lockers : holds[o] => region[o] # {}
    /\ \A o \in Lockers : want[o].blocked => region[o] # {} /\ ~holds[o]

RegionInv == Reg!TypeOK /\ KernelKeepsApart /\ ObjectsKeepApart /\ Reg!HolderHasRegion

LEMMA RegionInitKeeps == Reg!Init => RegionInv
<1> SUFFICES ASSUME Reg!Init PROVE RegionInv
  OBVIOUS
<1>1. Reg!TypeOK
  BY DEF Reg!Init, Reg!TypeOK, Reg!NoWant
<1>2. KernelKeepsApart
  BY DEF Reg!Init, KernelKeepsApart
<1>3. ObjectsKeepApart /\ Reg!HolderHasRegion
  BY DEF Reg!Init, Reg!NoWant, ObjectsKeepApart, Reg!HolderHasRegion
<1> QED
  BY <1>1, <1>2, <1>3 DEF RegionInv

\* The kernel grants a region to o, which has it recorded.
LEMMA GrantedKeeps ==
    ASSUME Reg!TypeOK, KernelKeepsApart, Reg!HolderHasRegion,
           NEW o \in Lockers, NEW write \in BOOLEAN, NEW r \in SUBSET Bytes, r # {},
           ~Reg!Conflict(o, r, write), Reg!Granted(o, r, write), region' = [region EXCEPT ![o] = r],
           asserted' = asserted,
           region' \in [Lockers -> Reg!Regions \cup {{}}],
           \A q \in Lockers \ {o} : LockerOf[q] = LockerOf[o] => region[q] \cap r = {},
           ObjectsKeepApart
    PROVE  RegionInv'
<1> DEFINE kind == IF write THEN "write" ELSE "read"
           me == LockerOf[o]
<1>1. me \in LockProcs /\ kind \in {"read", "write"}
  BY LockersAssumption
<1>2. /\ locks' = [locks EXCEPT ![me] = [x \in Bytes |-> IF x \in r THEN kind ELSE locks[me][x]]]
      /\ holds' = [holds EXCEPT ![o] = TRUE]
      /\ want' = [want EXCEPT ![o] = Reg!NoWant]
  BY DEF Reg!Granted, Reg!SetLock
<1>3. locks' \in [LockProcs -> [Bytes -> {"none", "read", "write"}]]
  BY <1>1, <1>2 DEF Reg!TypeOK
<1>4. Reg!TypeOK'
  BY <1>2, <1>3 DEF Reg!TypeOK, Reg!NoWant
<1>5. \A p \in LockProcs, x \in Bytes :
         locks'[p][x] = IF p = me /\ x \in r THEN kind ELSE locks[p][x]
  BY <1>1, <1>2 DEF Reg!TypeOK
<1>6. \A p \in LockProcs, x \in r : p # me => locks[p][x] # "write" /\ (write => locks[p][x] # "read")
  BY DEF Reg!Conflict, Reg!Others
<1>7. KernelKeepsApart'
  <2> SUFFICES ASSUME NEW p \in LockProcs, NEW q \in LockProcs, NEW x \in Bytes, p # q, locks'[p][x] = "write"
               PROVE  locks'[q][x] = "none"
    BY DEF KernelKeepsApart
  <2>1. locks[q][x] \in {"none", "read", "write"}
    BY DEF Reg!TypeOK
  <2>2. CASE p = me /\ x \in r
    BY <1>5, <1>6, <2>1, <2>2
  <2>3. CASE ~(p = me /\ x \in r)
    <3>1. locks[p][x] = "write"
      BY <1>5, <2>3
    <3>2. ~(q = me /\ x \in r)
      BY <1>6, <2>3, <3>1
    <3> QED
      BY <1>5, <3>1, <3>2 DEF KernelKeepsApart
  <2> QED
    BY <2>2, <2>3
<1>8. \A q \in Lockers : region'[q] = IF q = o THEN r ELSE region[q]
  BY DEF Reg!TypeOK
<1>9. Reg!HolderHasRegion'
  <2> SUFFICES ASSUME NEW q \in Lockers, holds'[q], NEW x \in region'[q]
               PROVE  locks'[LockerOf[q]][x] # "none"
    BY DEF Reg!HolderHasRegion
  <2>1. LockerOf[q] \in LockProcs /\ x \in Bytes
    BY <1>8, LockersAssumption DEF Reg!TypeOK, Reg!Regions
  <2>2. CASE q = o
    BY <1>5, <1>8, <2>1, <2>2
  <2>3. CASE q # o
    <3>1. holds[q] /\ x \in region[q]
      BY <1>2, <1>8, <2>3 DEF Reg!TypeOK
    <3>2. locks[LockerOf[q]][x] # "none"
      BY <3>1 DEF Reg!HolderHasRegion
    <3> QED
      BY <1>5, <2>1, <3>2
  <2> QED
    BY <2>2, <2>3
<1>10. ObjectsKeepApart'
  <2>1. \A q1, q2 \in Lockers : q1 # q2 /\ LockerOf[q1] = LockerOf[q2] => region'[q1] \cap region'[q2] = {}
    BY <1>8 DEF ObjectsKeepApart
  <2>2. \A q \in Lockers : holds'[q] => region'[q] # {}
    BY <1>2, <1>8 DEF ObjectsKeepApart, Reg!TypeOK
  <2>3. \A q \in Lockers : want'[q].blocked => region'[q] # {} /\ ~holds'[q]
    BY <1>2, <1>8 DEF ObjectsKeepApart, Reg!TypeOK, Reg!NoWant
  <2> QED
    BY <2>1, <2>2, <2>3 DEF ObjectsKeepApart
<1> QED
  BY <1>4, <1>7, <1>9, <1>10 DEF RegionInv

\* The region of an object is recorded while it has not got it.
LEMMA RecordedKeeps ==
    ASSUME RegionInv, NEW o \in Lockers, ~holds[o], NEW r \in SUBSET Bytes, r # {},
           region' = [region EXCEPT ![o] = r], UNCHANGED <<locks, holds, asserted>>,
           region' \in [Lockers -> Reg!Regions \cup {{}}],
           NEW w \in [write : BOOLEAN, wait : BOOLEAN, blocked : BOOLEAN], want' = [want EXCEPT ![o] = w],
           \A q \in Lockers \ {o} : LockerOf[q] = LockerOf[o] => region[q] \cap r = {}
    PROVE  RegionInv'
<1>1. Reg!TypeOK /\ KernelKeepsApart /\ ObjectsKeepApart /\ Reg!HolderHasRegion
  BY DEF RegionInv
<1>2. Reg!TypeOK'
  BY <1>1 DEF Reg!TypeOK
<1>3. KernelKeepsApart'
  BY <1>1 DEF KernelKeepsApart
<1>4. \A q \in Lockers : region'[q] = IF q = o THEN r ELSE region[q]
  BY <1>1 DEF Reg!TypeOK
<1>5. Reg!HolderHasRegion'
  BY <1>1, <1>4 DEF Reg!HolderHasRegion
<1>6. ObjectsKeepApart'
  <2>1. \A q1, q2 \in Lockers : q1 # q2 /\ LockerOf[q1] = LockerOf[q2] => region'[q1] \cap region'[q2] = {}
    BY <1>1, <1>4 DEF ObjectsKeepApart
  <2>2. \A q \in Lockers : holds'[q] => region'[q] # {}
    BY <1>1, <1>4 DEF ObjectsKeepApart
  <2>3. \A q \in Lockers : want'[q].blocked => region'[q] # {} /\ ~holds'[q]
    BY <1>1, <1>4 DEF ObjectsKeepApart, Reg!TypeOK
  <2> QED
    BY <2>1, <2>2, <2>3 DEF ObjectsKeepApart
<1> QED
  BY <1>2, <1>3, <1>5, <1>6 DEF RegionInv

\* The region goes back to the kernel.
LEMMA ReleaseKeeps ==
    ASSUME RegionInv, NEW o \in Lockers, ~want[o].blocked, Reg!SetLock(o, region[o], "none"),
           region' = [region EXCEPT ![o] = {}], holds' = [holds EXCEPT ![o] = FALSE],
           UNCHANGED <<want, asserted>>
    PROVE  RegionInv'
<1> DEFINE me == LockerOf[o]
<1>1. Reg!TypeOK /\ KernelKeepsApart /\ ObjectsKeepApart /\ Reg!HolderHasRegion /\ me \in LockProcs
  BY LockersAssumption DEF RegionInv
<1>2. locks' = [locks EXCEPT ![me] = [x \in Bytes |-> IF x \in region[o] THEN "none" ELSE locks[me][x]]]
  BY DEF Reg!SetLock
<1>3. locks' \in [LockProcs -> [Bytes -> {"none", "read", "write"}]]
  BY <1>1, <1>2 DEF Reg!TypeOK
<1>4. Reg!TypeOK'
  BY <1>1, <1>3 DEF Reg!TypeOK
<1>5. \A p \in LockProcs, x \in Bytes :
         locks'[p][x] = IF p = me /\ x \in region[o] THEN "none" ELSE locks[p][x]
  BY <1>1, <1>2 DEF Reg!TypeOK
<1>6. KernelKeepsApart'
  BY <1>1, <1>5 DEF KernelKeepsApart
<1>7. \A q \in Lockers : region'[q] = IF q = o THEN {} ELSE region[q]
  BY <1>1 DEF Reg!TypeOK
<1>8. Reg!HolderHasRegion'
  <2> SUFFICES ASSUME NEW q \in Lockers, holds'[q], NEW x \in region'[q]
               PROVE  locks'[LockerOf[q]][x] # "none"
    BY DEF Reg!HolderHasRegion
  <2>1. q # o /\ x \in region[q] /\ holds[q]
    BY <1>1, <1>7 DEF Reg!TypeOK
  <2>2. LockerOf[q] \in LockProcs /\ x \in Bytes
    BY <1>1, <2>1, LockersAssumption DEF Reg!TypeOK, Reg!Regions
  <2>3. ~(LockerOf[q] = me /\ x \in region[o])
    BY <1>1, <2>1 DEF ObjectsKeepApart
  <2> QED
    BY <1>1, <1>5, <2>1, <2>2, <2>3 DEF Reg!HolderHasRegion
<1>9. ObjectsKeepApart'
  <2>1. \A q1, q2 \in Lockers : q1 # q2 /\ LockerOf[q1] = LockerOf[q2] => region'[q1] \cap region'[q2] = {}
    BY <1>1, <1>7 DEF ObjectsKeepApart
  <2>2. \A q \in Lockers : holds'[q] => q # o /\ holds[q]
    BY <1>1 DEF Reg!TypeOK
  <2>3. \A q \in Lockers : holds'[q] => region'[q] # {}
    BY <1>1, <1>7, <2>2 DEF ObjectsKeepApart
  <2>4. \A q \in Lockers : want'[q].blocked => region'[q] # {} /\ ~holds'[q]
    BY <1>1, <1>7, <2>2 DEF ObjectsKeepApart
  <2> QED
    BY <2>1, <2>3, <2>4 DEF ObjectsKeepApart
<1> QED
  BY <1>4, <1>6, <1>8, <1>9 DEF RegionInv

\* An assertion fails, which changes nothing else.
LEMMA AssertKeeps ==
    ASSUME RegionInv, UNCHANGED <<locks, region, holds, want>>, asserted' \in BOOLEAN
    PROVE  RegionInv'
BY DEF RegionInv, Reg!TypeOK, KernelKeepsApart, ObjectsKeepApart, Reg!HolderHasRegion

LEMMA LockKeeps ==
    ASSUME Disjoint, RegionInv, NEW o \in Lockers, NEW r \in Reg!Regions,
           NEW write \in BOOLEAN, NEW wait \in BOOLEAN, Reg!Lock(o, r, write, wait)
    PROVE  RegionInv'
<1>1. Reg!TypeOK /\ KernelKeepsApart /\ ObjectsKeepApart /\ Reg!HolderHasRegion
  BY DEF RegionInv
<1>2. r \in SUBSET Bytes /\ r # {}
  BY DEF Reg!Regions
<1>3. \A q \in Lockers \ {o} : LockerOf[q] = LockerOf[o] => region[q] \cap r = {}
  BY DEF Reg!Lock
<1>4. CASE region[o] # {} /\ asserted' = TRUE /\ UNCHANGED <<locks, region, holds, want>>
  BY <1>4, AssertKeeps
<1>5. ASSUME region[o] = {}, region' = [region EXCEPT ![o] = r], asserted' = asserted,
             \/ ~Reg!Conflict(o, r, write) /\ Reg!Granted(o, r, write)
             \/ Reg!Conflict(o, r, write) /\ wait /\ Reg!Refused(o)
             \/ /\ Reg!Conflict(o, r, write) /\ ~wait
                /\ want' = [want EXCEPT ![o] = [write |-> write, wait |-> wait, blocked |-> TRUE]]
                /\ UNCHANGED <<locks, holds>>
      PROVE  RegionInv'
  <2>1. region' \in [Lockers -> Reg!Regions \cup {{}}]
    BY <1>1, <1>5 DEF Reg!TypeOK
  <2>2. CASE ~Reg!Conflict(o, r, write) /\ Reg!Granted(o, r, write)
    BY <1>1, <1>2, <1>3, <1>5, <2>1, <2>2, GrantedKeeps
  <2>3. ~holds[o]
    BY <1>1, <1>5 DEF ObjectsKeepApart
  <2>4. CASE Reg!Refused(o)
    <3>1. want' = [want EXCEPT ![o] = Reg!NoWant] /\ UNCHANGED <<locks, holds>>
          /\ Reg!NoWant \in [write : BOOLEAN, wait : BOOLEAN, blocked : BOOLEAN]
      BY <2>4 DEF Reg!Refused, Reg!NoWant
    <3> QED
      BY <1>2, <1>3, <1>5, <2>1, <2>3, <3>1, RecordedKeeps
  <2>5. CASE /\ want' = [want EXCEPT ![o] = [write |-> write, wait |-> wait, blocked |-> TRUE]]
             /\ UNCHANGED <<locks, holds>>
    <3>1. [write |-> write, wait |-> wait, blocked |-> TRUE] \in [write : BOOLEAN, wait : BOOLEAN, blocked : BOOLEAN]
      OBVIOUS
    <3> QED
      BY <1>2, <1>3, <1>5, <2>1, <2>3, <2>5, <3>1, RecordedKeeps
  <2> QED
    BY <1>5, <2>2, <2>4, <2>5
<1> QED
  BY <1>4, <1>5 DEF Reg!Lock

LEMMA WakeKeeps ==
    ASSUME RegionInv, NEW o \in Lockers, Reg!Wake(o)
    PROVE  RegionInv'
<1> DEFINE r == region[o]
<1>1. Reg!TypeOK /\ KernelKeepsApart /\ ObjectsKeepApart /\ Reg!HolderHasRegion
      /\ want[o].blocked /\ UNCHANGED <<region, asserted>>
  BY DEF RegionInv, Reg!Wake
<1>2. /\ r \in SUBSET Bytes /\ r # {} /\ ~holds[o] /\ want[o].write \in BOOLEAN
      /\ region' = [region EXCEPT ![o] = r] /\ region' \in [Lockers -> Reg!Regions \cup {{}}]
  BY <1>1 DEF Reg!TypeOK, Reg!Regions, ObjectsKeepApart
<1>3. \A q \in Lockers \ {o} : LockerOf[q] = LockerOf[o] => region[q] \cap r = {}
  BY <1>1 DEF ObjectsKeepApart
<1>4. CASE ~Reg!Conflict(o, r, want[o].write) /\ Reg!Granted(o, r, want[o].write)
  BY <1>1, <1>2, <1>3, <1>4, GrantedKeeps
<1>5. CASE Reg!Refused(o)
  <2>1. want' = [want EXCEPT ![o] = Reg!NoWant] /\ UNCHANGED <<locks, holds>>
        /\ Reg!NoWant \in [write : BOOLEAN, wait : BOOLEAN, blocked : BOOLEAN]
    BY <1>5 DEF Reg!Refused, Reg!NoWant
  <2> QED
    BY <1>1, <1>2, <1>3, <2>1, RecordedKeeps
<1> QED
  BY <1>4, <1>5 DEF Reg!Wake

LEMMA UnlockKeeps ==
    ASSUME RegionInv, NEW o \in Lockers, Reg!Unlock(o) \/ Reg!Destroy(o)
    PROVE  RegionInv'
<1>1. ~want[o].blocked
  BY DEF Reg!Unlock, Reg!Destroy, Reg!Running
<1>2. CASE region[o] = {} /\ asserted' = TRUE /\ UNCHANGED <<locks, region, holds, want>>
  BY <1>2, AssertKeeps
<1> QED
  BY <1>1, <1>2, ReleaseKeeps DEF Reg!Unlock, Reg!Destroy

LEMMA RegionNextKeeps == Disjoint /\ RegionInv /\ [Reg!Next]_regionVars => RegionInv'
<1> SUFFICES ASSUME Disjoint, RegionInv, [Reg!Next]_regionVars PROVE RegionInv'
  OBVIOUS
<1>1. CASE UNCHANGED regionVars
  <2>1. UNCHANGED <<locks, region, holds, want>> /\ asserted' \in BOOLEAN
    BY <1>1 DEF regionVars, RegionInv, Reg!TypeOK
  <2> QED
    BY <2>1, AssertKeeps
<1> QED
  BY <1>1, LockKeeps, WakeKeeps, UnlockKeeps DEF Reg!Next

(* Who was told to have a region has it all, and no two processes work on  *)
(* a byte that one of them has for writing, for any number of processes    *)
(* and objects and any bytes, if the objects of a process keep to regions  *)
(* of their own (UnixFileLock.cpp lock, unlock).                           *)
THEOREM RegionsCorrect == ASSUME Disjoint PROVE Spec => []RegionsKept
<1>1. Init => RegionInv
  BY RegionInitKeeps DEF Init
<1>2. RegionInv /\ [Next]_vars => RegionInv'
  <2>1. [Next]_vars => [Reg!Next]_regionVars
    BY DEF Next, vars
  <2> QED
    BY <2>1, RegionNextKeeps
<1>3. RegionInv => RegionsKept
  <2> SUFFICES ASSUME RegionInv PROVE RegionsKept
    OBVIOUS
  <2>1. Reg!TypeOK /\ KernelKeepsApart /\ Reg!HolderHasRegion
    BY DEF RegionInv
  <2>2. Reg!Exclusion
    <3> SUFFICES ASSUME NEW o \in Lockers, NEW q \in Lockers, holds[o], holds[q], LockerOf[o] # LockerOf[q],
                        NEW x \in region[o] \cap region[q]
                 PROVE  locks[LockerOf[o]][x] = "read" /\ locks[LockerOf[q]][x] = "read"
      BY DEF Reg!Exclusion
    <3>1. LockerOf[o] \in LockProcs /\ LockerOf[q] \in LockProcs /\ x \in Bytes
      BY <2>1, LockersAssumption DEF Reg!TypeOK, Reg!Regions
    <3>2. locks[LockerOf[o]][x] \in {"read", "write"} /\ locks[LockerOf[q]][x] \in {"read", "write"}
      BY <2>1, <3>1 DEF Reg!TypeOK, Reg!HolderHasRegion
    <3> QED
      BY <2>1, <3>1, <3>2 DEF KernelKeepsApart
  <2> QED
    BY <2>1, <2>2 DEF RegionsKept
<1>4. Spec => []RegionInv
  BY <1>1, <1>2, PTL DEF Spec
<1> QED
  BY <1>3, <1>4, PTL

-----------------------------------------------------------------------------
(* File objects and descriptors.                                           *)

AllFileRules == {"only owners close", "adopt nobody's", "close before attach", "copy owners only", "close works"}

Fds == Obj!FdNumbers
FileRecord(o) == [alive : BOOLEAN, fd : Fds \cup {Obj!IOFD_INVALID}, auto : BOOLEAN, desc : 0..o, mapped : BOOLEAN]

FileTypes(t, o, fl, th) ==
    /\ o \in Nat /\ t \in [Fds -> 0..o] /\ th \subseteq 1..o
    /\ fl \in [Files -> FileRecord(o)]

Owns(fl, f) == fl[f].alive /\ fl[f].auto

\* A description is at one number for its life, the client's are open, and an
\* object has the number its description is at or was at.
NumbersStay(t, fl, th) ==
    /\ \A n, m \in Fds : t[n] = t[m] /\ t[n] # Obj!Shut => n = m
    /\ \A d \in th : \E n \in Fds : t[n] = d
    /\ \A f \in Files : fl[f].alive /\ fl[f].fd # Obj!IOFD_INVALID =>
           fl[f].desc # Obj!Shut /\ \A n \in Fds : t[n] = fl[f].desc => n = fl[f].fd

\* What is open has one owner, an object or the client.
OneOwner(t, fl, th) ==
    /\ \A f \in Files : Owns(fl, f) => /\ fl[f].fd # Obj!IOFD_INVALID
                                       /\ t[fl[f].fd] = fl[f].desc
                                       /\ fl[f].desc \notin th
    /\ \A f, g \in Files : Owns(fl, f) /\ Owns(fl, g) /\ fl[f].desc = fl[g].desc => f = g
    /\ \A n \in Fds : t[n] # Obj!Shut =>
           t[n] \in th \/ \E f \in Files : Owns(fl, f) /\ fl[f].desc = t[n]

FilesOK(t, o, fl, th) == FileTypes(t, o, fl, th) /\ NumbersStay(t, fl, th) /\ OneOwner(t, fl, th)

FileInv == FilesOK(table, opened, file, theirs) /\ ~wrong

LEMMA NatMin ==
    ASSUME NEW S \in SUBSET Nat, S # {}
    PROVE  Obj!Min(S) \in S /\ \A y \in S : Obj!Min(S) <= y
<1>1. PICK m \in S : \A y \in S : ~(<<y, m>> \in OpToRel(<, Nat))
  BY NatLessThanWellFounded, WFMin
<1>2. \A y \in S : ~(y < m)
  BY <1>1 DEF OpToRel
<1>3. \A y \in S : m <= y
  BY <1>2
<1> QED
  BY <1>3 DEF Obj!Min

LEMMA FdFacts == Fds \subseteq Nat /\ Obj!IOFD_INVALID \notin Fds /\ Obj!Shut = 0
BY NumbersAssumption DEF Fds, Obj!FdNumbers, Obj!IOFD_INVALID, Obj!Shut

LEMMA FileInitKeeps == Obj!FileObjInit => FileInv
<1> SUFFICES ASSUME Obj!FileObjInit PROVE FileInv
  OBVIOUS
<1>1. FileTypes(table, opened, file, theirs)
  BY FdFacts DEF Obj!FileObjInit, FileTypes, FileRecord, Obj!Gone, Fds
<1>2. \A f \in Files : ~file[f].alive
  BY DEF Obj!FileObjInit, Obj!Gone
<1>3. \A n \in Fds : table[n] = Obj!Shut
  BY DEF Obj!FileObjInit, Fds
<1>4. theirs = {} /\ ~wrong
  BY DEF Obj!FileObjInit
<1> QED
  BY <1>1, <1>2, <1>3, <1>4 DEF FileInv, FilesOK, NumbersStay, OneOwner, Owns

\* An object that owns nothing changes over to what it does not close.
LEMMA BorrowKeeps ==
    ASSUME NEW t, NEW o, NEW fl, NEW th, FilesOK(t, o, fl, th),
           NEW f \in Files, ~Owns(fl, f), NEW v \in FileRecord(o), ~(v.alive /\ v.auto),
           v.alive /\ v.fd # Obj!IOFD_INVALID =>
               v.desc # Obj!Shut /\ \A n \in Fds : t[n] = v.desc => n = v.fd
    PROVE  FilesOK(t, o, [fl EXCEPT ![f] = v], th)
<1> DEFINE new == [fl EXCEPT ![f] = v]
<1>1. FileTypes(t, o, fl, th) /\ NumbersStay(t, fl, th) /\ OneOwner(t, fl, th)
  BY DEF FilesOK
<1>2. \A g \in Files : new[g] = IF g = f THEN v ELSE fl[g]
  BY <1>1 DEF FileTypes
<1>3. FileTypes(t, o, new, th)
  BY <1>1 DEF FileTypes
<1> HIDE DEF new
<1>4. \A g \in Files : Owns(new, g) <=> Owns(fl, g)
  BY <1>2 DEF Owns
<1>5. \A g \in Files : Owns(fl, g) => g # f /\ new[g] = fl[g]
  BY <1>2
<1>6. NumbersStay(t, new, th)
  BY <1>1, <1>2 DEF NumbersStay
<1>7. OneOwner(t, new, th)
  BY <1>1, <1>4, <1>5 DEF OneOwner
<1> QED
  BY <1>3, <1>6, <1>7 DEF FilesOK, new

\* An owner closes what it has.
LEMMA CloseKeeps ==
    ASSUME NEW t, NEW o, NEW fl, NEW th, FilesOK(t, o, fl, th),
           NEW f \in Files, Owns(fl, f), NEW v \in FileRecord(o), ~(v.alive /\ v.auto), v.fd = Obj!IOFD_INVALID
    PROVE  /\ FilesOK([t EXCEPT ![fl[f].fd] = Obj!Shut], o, [fl EXCEPT ![f] = v], th)
           /\ ~Owns([fl EXCEPT ![f] = v], f)
<1> DEFINE new == [fl EXCEPT ![f] = v]
           tt == [t EXCEPT ![fl[f].fd] = Obj!Shut]
<1>1. FileTypes(t, o, fl, th) /\ NumbersStay(t, fl, th) /\ OneOwner(t, fl, th)
  BY DEF FilesOK
<1>2. \A g \in Files : new[g] = IF g = f THEN v ELSE fl[g]
  BY <1>1 DEF FileTypes
<1>3. fl[f].fd \in Fds /\ t[fl[f].fd] = fl[f].desc /\ fl[f].desc \notin th /\ fl[f].desc # Obj!Shut
  BY <1>1 DEF FileTypes, FileRecord, OneOwner, NumbersStay, Owns
<1>4. \A n \in Fds : tt[n] = IF n = fl[f].fd THEN Obj!Shut ELSE t[n]
  BY <1>1 DEF FileTypes
<1>5. FileTypes(tt, o, new, th)
  <2>1. Obj!Shut \in 0..o
    BY <1>1, FdFacts DEF FileTypes
  <2>2. tt \in [Fds -> 0..o]
    BY <1>1, <2>1 DEF FileTypes
  <2>3. new \in [Files -> FileRecord(o)]
    BY <1>1 DEF FileTypes
  <2> QED
    BY <1>1, <2>2, <2>3 DEF FileTypes
<1> HIDE DEF new, tt
<1>6. \A g \in Files : Owns(new, g) <=> Owns(fl, g) /\ g # f
  BY <1>2 DEF Owns
<1>7. \A n \in Fds : n # fl[f].fd => t[n] = tt[n] /\ (t[n] # Obj!Shut => t[n] # fl[f].desc)
  BY <1>1, <1>3, <1>4 DEF NumbersStay
<1>8. NumbersStay(tt, new, th)
  <2>1. \A n, m \in Fds : tt[n] = tt[m] /\ tt[n] # Obj!Shut => n = m
    BY <1>1, <1>4 DEF NumbersStay
  <2>2. \A d \in th : \E n \in Fds : tt[n] = d
    BY <1>1, <1>3, <1>4 DEF NumbersStay
  <2>3. \A g \in Files : new[g].alive /\ new[g].fd # Obj!IOFD_INVALID =>
            new[g].desc # Obj!Shut /\ \A n \in Fds : tt[n] = new[g].desc => n = new[g].fd
    BY <1>1, <1>2, <1>4 DEF NumbersStay
  <2> QED
    BY <2>1, <2>2, <2>3 DEF NumbersStay
<1>9. OneOwner(tt, new, th)
  <2>1. ASSUME NEW g \in Files, Owns(new, g)
        PROVE  new[g].fd # Obj!IOFD_INVALID /\ tt[new[g].fd] = new[g].desc /\ new[g].desc \notin th
    <3>1. g # f /\ Owns(fl, g) /\ new[g] = fl[g]
      BY <1>2, <1>6, <2>1
    <3>2. fl[g].fd \in Fds /\ fl[g].fd # Obj!IOFD_INVALID /\ t[fl[g].fd] = fl[g].desc /\ fl[g].desc \notin th
      BY <1>1, <3>1 DEF OneOwner, FileTypes, FileRecord
    <3>3. fl[g].desc # fl[f].desc
      BY <1>1, <3>1 DEF OneOwner
    <3> QED
      BY <1>3, <1>4, <3>1, <3>2, <3>3
  <2>2. \A g, h \in Files : Owns(new, g) /\ Owns(new, h) /\ new[g].desc = new[h].desc => g = h
    BY <1>1, <1>2, <1>6 DEF OneOwner
  <2>3. ASSUME NEW n \in Fds, tt[n] # Obj!Shut
        PROVE  tt[n] \in th \/ \E g \in Files : Owns(new, g) /\ new[g].desc = tt[n]
    <3>1. n # fl[f].fd /\ tt[n] = t[n] /\ t[n] # fl[f].desc
      BY <1>4, <1>7, <2>3
    <3>2. t[n] \in th \/ \E g \in Files : Owns(fl, g) /\ fl[g].desc = t[n]
      BY <1>1, <2>3, <3>1 DEF OneOwner
    <3> QED
      BY <1>2, <1>6, <3>1, <3>2
  <2> QED
    BY <2>1, <2>2, <2>3 DEF OneOwner
<1>10. ~Owns(new, f)
  BY <1>6
<1> QED
  BY <1>5, <1>8, <1>9, <1>10 DEF FilesOK, new, tt

\* A description is opened for an object that owned nothing.
LEMMA OpenKeeps ==
    ASSUME NEW t, NEW o, NEW fl, NEW th, FilesOK(t, o, fl, th),
           NEW f \in Files, ~Owns(fl, f), NEW n \in Fds, t[n] = Obj!Shut
    PROVE  FilesOK([t EXCEPT ![n] = o + 1], o + 1, [fl EXCEPT ![f] = Obj!With(n, TRUE, o + 1)], th)
<1> DEFINE v == Obj!With(n, TRUE, o + 1)
           new == [fl EXCEPT ![f] = v]
           tt == [t EXCEPT ![n] = o + 1]
<1>1. FileTypes(t, o, fl, th) /\ NumbersStay(t, fl, th) /\ OneOwner(t, fl, th) /\ o \in Nat
  BY DEF FilesOK, FileTypes
<1>2. \A g \in Files : new[g] = IF g = f THEN v ELSE fl[g]
  BY <1>1 DEF FileTypes
<1>3. v \in FileRecord(o + 1) /\ v.alive /\ v.auto /\ v.fd = n /\ v.desc = o + 1
  BY <1>1 DEF Obj!With, FileRecord
<1>4. \A m \in Fds : tt[m] = (IF m = n THEN o + 1 ELSE t[m]) /\ t[m] \in 0..o
  BY <1>1 DEF FileTypes
<1>5. \A g \in Files : fl[g] \in FileRecord(o) /\ fl[g].desc \in 0..o
  BY <1>1 DEF FileTypes, FileRecord
<1>6. \A i \in 0..o : i \in 0..(o + 1) /\ i # o + 1
  BY <1>1
<1>7. FileTypes(tt, o + 1, new, th)
  <2>1. o + 1 \in Nat /\ o + 1 \in 0..(o + 1) /\ th \subseteq 1..(o + 1)
    BY <1>1 DEF FileTypes
  <2>2. tt \in [Fds -> 0..(o + 1)]
    BY <1>1, <1>6, <2>1 DEF FileTypes
  <2>3. FileRecord(o) \subseteq FileRecord(o + 1)
    BY <1>6 DEF FileRecord
  <2>4. new \in [Files -> FileRecord(o + 1)]
    <3> HIDE DEF v
    <3> QED
      BY <1>1, <1>3, <2>3 DEF FileTypes
  <2> QED
    BY <2>1, <2>2, <2>4 DEF FileTypes
<1> HIDE DEF new, tt, v
<1>8. \A g \in Files : Owns(new, g) <=> Owns(fl, g) \/ g = f
  BY <1>2, <1>3 DEF Owns
<1>9. o + 1 \notin th /\ o + 1 # Obj!Shut /\ th \subseteq 1..o
  BY <1>1, FdFacts DEF FileTypes
<1>10. NumbersStay(tt, new, th)
  <2>1. \A k, m \in Fds : tt[k] = tt[m] /\ tt[k] # Obj!Shut => k = m
    BY <1>1, <1>4, <1>6 DEF NumbersStay
  <2>2. \A d \in th : \E k \in Fds : tt[k] = d
    <3> SUFFICES ASSUME NEW d \in th PROVE \E k \in Fds : tt[k] = d
      OBVIOUS
    <3>1. PICK k \in Fds : t[k] = d
      BY <1>1 DEF NumbersStay
    <3>2. k # n
      BY <1>1, <3>1, FdFacts DEF FileTypes
    <3> QED
      BY <1>4, <3>1, <3>2
  <2>3. \A g \in Files : new[g].alive /\ new[g].fd # Obj!IOFD_INVALID =>
            new[g].desc # Obj!Shut /\ \A k \in Fds : tt[k] = new[g].desc => k = new[g].fd
    BY <1>1, <1>2, <1>3, <1>4, <1>5, <1>6, <1>9 DEF NumbersStay
  <2> QED
    BY <2>1, <2>2, <2>3 DEF NumbersStay
<1>11. OneOwner(tt, new, th)
  <2>1. ASSUME NEW g \in Files, Owns(new, g)
        PROVE  new[g].fd # Obj!IOFD_INVALID /\ tt[new[g].fd] = new[g].desc /\ new[g].desc \notin th
    <3>1. CASE g = f
      BY <1>2, <1>3, <1>4, <1>9, <3>1, FdFacts
    <3>2. CASE g # f
      <4>1. Owns(fl, g) /\ new[g] = fl[g]
        BY <1>2, <1>8, <2>1, <3>2
      <4>2. fl[g].fd \in Fds /\ fl[g].fd # Obj!IOFD_INVALID /\ t[fl[g].fd] = fl[g].desc /\ fl[g].desc \notin th
            /\ fl[g].desc # Obj!Shut
        BY <1>1, <4>1 DEF OneOwner, FileTypes, FileRecord, NumbersStay, Owns
      <4> QED
        BY <1>4, <4>1, <4>2
    <3> QED
      BY <3>1, <3>2
  <2>2. \A g, h \in Files : Owns(new, g) /\ Owns(new, h) /\ new[g].desc = new[h].desc => g = h
    BY <1>1, <1>2, <1>3, <1>5, <1>6, <1>8 DEF OneOwner
  <2>3. ASSUME NEW m \in Fds, tt[m] # Obj!Shut
        PROVE  tt[m] \in th \/ \E g \in Files : Owns(new, g) /\ new[g].desc = tt[m]
    <3>1. CASE m = n
      BY <1>2, <1>3, <1>4, <1>8, <3>1
    <3>2. CASE m # n
      <4>1. t[m] \in th \/ \E g \in Files : Owns(fl, g) /\ fl[g].desc = t[m]
        BY <1>1, <1>4, <2>3, <3>2 DEF OneOwner
      <4> QED
        BY <1>2, <1>4, <1>8, <3>2, <4>1
    <3> QED
      BY <3>1, <3>2
  <2> QED
    BY <2>1, <2>2, <2>3 DEF OneOwner
<1> QED
  BY <1>7, <1>10, <1>11 DEF FilesOK, new, tt, v

\* An object takes over a description of the client.
LEMMA TakeOverKeeps ==
    ASSUME NEW t, NEW o, NEW fl, NEW th, FilesOK(t, o, fl, th),
           NEW f \in Files, ~Owns(fl, f), NEW v \in FileRecord(o), v.alive, v.auto,
           v.fd \in Fds, t[v.fd] = v.desc, v.desc \in th
    PROVE  FilesOK(t, o, [fl EXCEPT ![f] = v], th \ {v.desc})
<1> DEFINE new == [fl EXCEPT ![f] = v]
           tt == th \ {v.desc}
<1>1. FileTypes(t, o, fl, th) /\ NumbersStay(t, fl, th) /\ OneOwner(t, fl, th) /\ o \in Nat
  BY DEF FilesOK, FileTypes
<1>2. \A g \in Files : new[g] = IF g = f THEN v ELSE fl[g]
  BY <1>1 DEF FileTypes
<1>3. FileTypes(t, o, new, tt)
  BY <1>1 DEF FileTypes
<1>4. v.desc # Obj!Shut
  BY <1>1, FdFacts DEF FileTypes
<1> HIDE DEF new
<1>5. \A g \in Files : Owns(new, g) <=> Owns(fl, g) \/ g = f
  BY <1>2 DEF Owns
<1>6. NumbersStay(t, new, tt)
  BY <1>1, <1>2, <1>4 DEF NumbersStay
<1>7. OneOwner(t, new, tt)
  <2>1. \A g \in Files : Owns(new, g) => new[g].fd # Obj!IOFD_INVALID /\ t[new[g].fd] = new[g].desc
                                         /\ new[g].desc \notin tt
    BY <1>1, <1>2, <1>5, FdFacts DEF OneOwner
  <2>2. \A g, h \in Files : Owns(new, g) /\ Owns(new, h) /\ new[g].desc = new[h].desc => g = h
    BY <1>1, <1>2, <1>5 DEF OneOwner
  <2>3. ASSUME NEW m \in Fds, t[m] # Obj!Shut
        PROVE  t[m] \in tt \/ \E g \in Files : Owns(new, g) /\ new[g].desc = t[m]
    BY <1>1, <1>2, <1>5, <2>3 DEF OneOwner
  <2> QED
    BY <2>1, <2>2, <2>3 DEF OneOwner
<1> QED
  BY <1>3, <1>6, <1>7 DEF FilesOK, new

\* An owner leaves its description to the client.
LEMMA GiveBackKeeps ==
    ASSUME NEW t, NEW o, NEW fl, NEW th, FilesOK(t, o, fl, th), NEW f \in Files, Owns(fl, f)
    PROVE  FilesOK(t, o, [fl EXCEPT ![f].auto = FALSE], th \cup {fl[f].desc})
<1> DEFINE new == [fl EXCEPT ![f].auto = FALSE]
           tt == th \cup {fl[f].desc}
<1>1. FileTypes(t, o, fl, th) /\ NumbersStay(t, fl, th) /\ OneOwner(t, fl, th) /\ o \in Nat
  BY DEF FilesOK, FileTypes
<1>2. \A g \in Files : new[g] = IF g = f THEN [fl[f] EXCEPT !.auto = FALSE] ELSE fl[g]
  BY <1>1 DEF FileTypes
<1>3. fl[f] \in FileRecord(o) /\ fl[f].fd \in Fds /\ t[fl[f].fd] = fl[f].desc /\ fl[f].desc # Obj!Shut
  BY <1>1 DEF FileTypes, FileRecord, OneOwner, NumbersStay, Owns
<1>4. \A g \in Files : /\ new[g].alive = fl[g].alive /\ new[g].fd = fl[g].fd /\ new[g].desc = fl[g].desc
                       /\ new[g].auto <=> fl[g].auto /\ g # f
  <2> SUFFICES ASSUME NEW g \in Files
               PROVE  /\ new[g].alive = fl[g].alive /\ new[g].fd = fl[g].fd /\ new[g].desc = fl[g].desc
                      /\ new[g].auto <=> fl[g].auto /\ g # f
    OBVIOUS
  <2>1. CASE g = f
    <3>1. new[g] = [fl[g] EXCEPT !.auto = FALSE] /\ fl[g] \in FileRecord(o)
      BY <1>2, <1>3, <2>1
    <3> HIDE DEF new
    <3> QED
      BY <2>1, <3>1 DEF FileRecord
  <2>2. CASE g # f
    <3>1. new[g] = fl[g]
      BY <1>2, <2>2
    <3> HIDE DEF new
    <3> QED
      BY <2>2, <3>1
  <2> QED
    BY <2>1, <2>2
<1>5. FileTypes(t, o, new, tt)
  <2>1. fl[f].desc \in 1..o
    BY <1>1, <1>3, FdFacts DEF FileRecord
  <2>2. new \in [Files -> FileRecord(o)]
    BY <1>1 DEF FileTypes, FileRecord
  <2> QED
    BY <1>1, <2>1, <2>2 DEF FileTypes
<1> HIDE DEF new
<1>6. \A g \in Files : Owns(new, g) <=> Owns(fl, g) /\ g # f
  BY <1>4 DEF Owns
<1>7. NumbersStay(t, new, tt)
  BY <1>1, <1>3, <1>4 DEF NumbersStay
<1>8. OneOwner(t, new, tt)
  <2>1. ASSUME NEW g \in Files, Owns(new, g)
        PROVE  new[g].fd # Obj!IOFD_INVALID /\ t[new[g].fd] = new[g].desc /\ new[g].desc \notin tt
    <3>1. Owns(fl, g) /\ g # f
      BY <1>6, <2>1
    <3>2. fl[g].desc # fl[f].desc
      BY <1>1, <3>1 DEF OneOwner
    <3> QED
      BY <1>1, <1>4, <3>1, <3>2 DEF OneOwner
  <2>2. \A g, h \in Files : Owns(new, g) /\ Owns(new, h) /\ new[g].desc = new[h].desc => g = h
    BY <1>1, <1>4, <1>6 DEF OneOwner
  <2>3. ASSUME NEW m \in Fds, t[m] # Obj!Shut
        PROVE  t[m] \in tt \/ \E g \in Files : Owns(new, g) /\ new[g].desc = t[m]
    BY <1>1, <1>4, <1>6, <2>3 DEF OneOwner
  <2> QED
    BY <2>1, <2>2, <2>3 DEF OneOwner
<1> QED
  BY <1>5, <1>7, <1>8 DEF FilesOK, new

\* An object is given to a FileMapping.
LEMMA MapKeeps ==
    ASSUME NEW t, NEW o, NEW fl, NEW th, FilesOK(t, o, fl, th), NEW f \in Files
    PROVE  FilesOK(t, o, [fl EXCEPT ![f].mapped = TRUE], th)
<1> DEFINE new == [fl EXCEPT ![f].mapped = TRUE]
<1>1. FileTypes(t, o, fl, th) /\ NumbersStay(t, fl, th) /\ OneOwner(t, fl, th)
  BY DEF FilesOK
<1>2. \A g \in Files : new[g] = IF g = f THEN [fl[f] EXCEPT !.mapped = TRUE] ELSE fl[g]
  BY <1>1 DEF FileTypes
<1>3. \A g \in Files : /\ new[g].alive = fl[g].alive /\ new[g].fd = fl[g].fd /\ new[g].desc = fl[g].desc
                       /\ new[g].auto = fl[g].auto
  <2> SUFFICES ASSUME NEW g \in Files
               PROVE  /\ new[g].alive = fl[g].alive /\ new[g].fd = fl[g].fd /\ new[g].desc = fl[g].desc
                      /\ new[g].auto = fl[g].auto
    OBVIOUS
  <2>1. fl[g] \in FileRecord(o)
    BY <1>1 DEF FileTypes
  <2>2. CASE g = f
    <3>1. new[g] = [fl[g] EXCEPT !.mapped = TRUE]
      BY <1>2, <2>2
    <3> HIDE DEF new
    <3> QED
      BY <2>1, <3>1 DEF FileRecord
  <2>3. CASE g # f
    BY <1>2, <2>3
  <2> QED
    BY <2>2, <2>3
<1>4. FileTypes(t, o, new, th)
  BY <1>1 DEF FileTypes, FileRecord
<1> HIDE DEF new
<1>5. \A g \in Files : Owns(new, g) = Owns(fl, g)
  BY <1>3 DEF Owns
<1>6. NumbersStay(t, new, th)
  BY <1>1, <1>3 DEF NumbersStay
<1>7. OneOwner(t, new, th)
  BY <1>1, <1>3, <1>5 DEF OneOwner
<1> QED
  BY <1>4, <1>6, <1>7 DEF FilesOK, new

\* The client opens and closes.
LEMMA TheyOpenKeeps ==
    ASSUME NEW t, NEW o, NEW fl, NEW th, FilesOK(t, o, fl, th), NEW n \in Fds, t[n] = Obj!Shut
    PROVE  FilesOK([t EXCEPT ![n] = o + 1], o + 1, fl, th \cup {o + 1})
<1> DEFINE tt == [t EXCEPT ![n] = o + 1]
           hh == th \cup {o + 1}
<1>1. FileTypes(t, o, fl, th) /\ NumbersStay(t, fl, th) /\ OneOwner(t, fl, th) /\ o \in Nat
  BY DEF FilesOK, FileTypes
<1>2. \A m \in Fds : tt[m] = (IF m = n THEN o + 1 ELSE t[m]) /\ t[m] \in 0..o
  BY <1>1 DEF FileTypes
<1>3. \A i \in 0..o : i \in 0..(o + 1) /\ i # o + 1
  BY <1>1
<1>4. FileTypes(tt, o + 1, fl, hh)
  <2>1. o + 1 \in Nat /\ o + 1 \in 0..(o + 1) /\ hh \subseteq 1..(o + 1)
    BY <1>1 DEF FileTypes
  <2>2. tt \in [Fds -> 0..(o + 1)]
    BY <1>1, <1>3, <2>1 DEF FileTypes
  <2>3. FileRecord(o) \subseteq FileRecord(o + 1)
    BY <1>3 DEF FileRecord
  <2>4. fl \in [Files -> FileRecord(o + 1)]
    BY <1>1, <2>3 DEF FileTypes
  <2> QED
    BY <2>1, <2>2, <2>4 DEF FileTypes
<1> HIDE DEF tt
<1>5. o + 1 \notin th /\ o + 1 # Obj!Shut /\ th \subseteq 1..o /\ Obj!Shut \notin th
  BY <1>1, FdFacts DEF FileTypes
<1>6. \A f \in Files : fl[f].desc # o + 1 /\ fl[f].fd \in Fds \cup {Obj!IOFD_INVALID}
  BY <1>1, <1>3 DEF FileTypes, FileRecord
<1>7. NumbersStay(tt, fl, hh)
  <2>1. \A k, m \in Fds : tt[k] = tt[m] /\ tt[k] # Obj!Shut => k = m
    BY <1>1, <1>2, <1>3 DEF NumbersStay
  <2>2. ASSUME NEW d \in hh PROVE \E k \in Fds : tt[k] = d
    <3>1. CASE d = o + 1
      BY <1>2, <3>1
    <3>2. CASE d # o + 1
      <4>1. d \in th
        BY <3>2
      <4>2. PICK k \in Fds : t[k] = d
        BY <1>1, <4>1 DEF NumbersStay
      <4>3. k # n
        BY <1>5, <4>1, <4>2
      <4> QED
        BY <1>2, <4>2, <4>3
    <3> QED
      BY <3>1, <3>2
  <2>3. \A g \in Files : fl[g].alive /\ fl[g].fd # Obj!IOFD_INVALID =>
            fl[g].desc # Obj!Shut /\ \A k \in Fds : tt[k] = fl[g].desc => k = fl[g].fd
    BY <1>1, <1>2, <1>6 DEF NumbersStay
  <2> QED
    BY <2>1, <2>2, <2>3 DEF NumbersStay
<1>8. OneOwner(tt, fl, hh)
  <2>1. ASSUME NEW g \in Files, Owns(fl, g)
        PROVE  fl[g].fd # Obj!IOFD_INVALID /\ tt[fl[g].fd] = fl[g].desc /\ fl[g].desc \notin hh
    <3>1. fl[g].fd \in Fds /\ t[fl[g].fd] = fl[g].desc /\ fl[g].desc \notin th /\ fl[g].desc # Obj!Shut
      BY <1>1, <1>6, <2>1 DEF OneOwner, NumbersStay, Owns
    <3> QED
      BY <1>2, <1>6, <3>1, FdFacts
  <2>2. \A g, h \in Files : Owns(fl, g) /\ Owns(fl, h) /\ fl[g].desc = fl[h].desc => g = h
    BY <1>1 DEF OneOwner
  <2>3. ASSUME NEW m \in Fds, tt[m] # Obj!Shut
        PROVE  tt[m] \in hh \/ \E g \in Files : Owns(fl, g) /\ fl[g].desc = tt[m]
    BY <1>1, <1>2, <2>3 DEF OneOwner
  <2> QED
    BY <2>1, <2>2, <2>3 DEF OneOwner
<1> QED
  BY <1>4, <1>7, <1>8 DEF FilesOK, tt

LEMMA TheyCloseKeeps ==
    ASSUME NEW t, NEW o, NEW fl, NEW th, FilesOK(t, o, fl, th), NEW n \in Fds, t[n] \in th
    PROVE  FilesOK([t EXCEPT ![n] = Obj!Shut], o, fl, th \ {t[n]})
<1> DEFINE tt == [t EXCEPT ![n] = Obj!Shut]
           hh == th \ {t[n]}
<1>1. FileTypes(t, o, fl, th) /\ NumbersStay(t, fl, th) /\ OneOwner(t, fl, th) /\ o \in Nat
  BY DEF FilesOK, FileTypes
<1>2. \A m \in Fds : tt[m] = (IF m = n THEN Obj!Shut ELSE t[m])
  BY <1>1 DEF FileTypes
<1>3. FileTypes(tt, o, fl, hh)
  <2>1. Obj!Shut \in 0..o
    BY <1>1, FdFacts
  <2>2. tt \in [Fds -> 0..o]
    BY <1>1, <2>1 DEF FileTypes
  <2> QED
    BY <1>1, <2>2 DEF FileTypes
<1> HIDE DEF tt
<1>4. NumbersStay(tt, fl, hh)
  <2>1. \A k, m \in Fds : tt[k] = tt[m] /\ tt[k] # Obj!Shut => k = m
    BY <1>1, <1>2 DEF NumbersStay
  <2>2. \A d \in hh : \E k \in Fds : tt[k] = d
    BY <1>1, <1>2 DEF NumbersStay
  <2>3. \A g \in Files : fl[g].alive /\ fl[g].fd # Obj!IOFD_INVALID =>
            fl[g].desc # Obj!Shut /\ \A k \in Fds : tt[k] = fl[g].desc => k = fl[g].fd
    BY <1>1, <1>2 DEF NumbersStay
  <2> QED
    BY <2>1, <2>2, <2>3 DEF NumbersStay
<1>5. OneOwner(tt, fl, hh)
  <2>1. ASSUME NEW g \in Files, Owns(fl, g)
        PROVE  fl[g].fd # Obj!IOFD_INVALID /\ tt[fl[g].fd] = fl[g].desc /\ fl[g].desc \notin hh
    <3>1. fl[g].fd \in Fds /\ t[fl[g].fd] = fl[g].desc /\ fl[g].desc \notin th
      BY <1>1, <2>1 DEF OneOwner, FileTypes, FileRecord
    <3> QED
      BY <1>2, <3>1, FdFacts
  <2>2. \A g, h \in Files : Owns(fl, g) /\ Owns(fl, h) /\ fl[g].desc = fl[h].desc => g = h
    BY <1>1 DEF OneOwner
  <2>3. ASSUME NEW m \in Fds, tt[m] # Obj!Shut
        PROVE  tt[m] \in hh \/ \E g \in Files : Owns(fl, g) /\ fl[g].desc = tt[m]
    BY <1>1, <1>2, <2>3 DEF OneOwner, NumbersStay
  <2> QED
    BY <2>1, <2>2, <2>3 DEF OneOwner
<1> QED
  BY <1>3, <1>4, <1>5 DEF FilesOK, tt

\* A close () by the only owner is no mistake.
LEMMA OwnerIsNotMistaken ==
    ASSUME FileInv, NEW f \in Files, Owns(file, f), Obj!Mistaken(f)
    PROVE  ~wrong'
<1>1. table[file[f].fd] = file[f].desc /\ ~wrong
  BY DEF FileInv, FilesOK, OneOwner
<1>2. Obj!Owners(file[f].desc) = {f}
  BY DEF FileInv, FilesOK, OneOwner, Owns, Obj!Owners
<1> QED
  BY <1>1, <1>2 DEF Obj!Mistaken

\* The lowest free number.
LEMMA LowestFree ==
    ASSUME NEW t, \E n \in Fds : t[n] = Obj!Shut
    PROVE  \E n \in Fds : n = Obj!Min({k \in Obj!FdNumbers : t[k] = Obj!Shut}) /\ t[n] = Obj!Shut
<1>1. {k \in Fds : t[k] = Obj!Shut} \in SUBSET Nat /\ {k \in Fds : t[k] = Obj!Shut} # {}
  BY FdFacts
<1> QED
  BY <1>1, NatMin DEF Fds

LEMMA FileBasics ==
    ASSUME FileInv, NEW f \in Files
    PROVE  /\ FilesOK(table, opened, file, theirs) /\ opened \in Nat /\ ~wrong
           /\ file[f] \in FileRecord(opened)
           /\ Owns(file, f) => Obj!Held(f) /\ file[f].fd \in Fds
           /\ Obj!Blank \in FileRecord(opened) /\ Obj!Gone \in FileRecord(opened)
           /\ ~Obj!Blank.auto /\ ~Obj!Gone.auto
           /\ Obj!Blank.fd = Obj!IOFD_INVALID /\ Obj!Gone.fd = Obj!IOFD_INVALID
           /\ \A n \in Fds, d \in 0..opened, auto \in BOOLEAN : Obj!With(n, auto, d) \in FileRecord(opened)
<1>1. FilesOK(table, opened, file, theirs) /\ opened \in Nat /\ ~wrong /\ file[f] \in FileRecord(opened)
  BY DEF FileInv, FilesOK, FileTypes
<1>2. Owns(file, f) => Obj!Held(f) /\ file[f].fd \in Fds
  BY <1>1 DEF FilesOK, OneOwner, Owns, Obj!Held, FileRecord
<1>3. 0 \in 0..opened
  BY <1>1
<1> QED
  BY <1>1, <1>2, <1>3, FdFacts DEF Obj!Blank, Obj!Gone, Obj!With, FileRecord

LEMMA ConstructKeeps ==
    ASSUME FileInv, NEW f \in Files,
           \/ Obj!Construct(f)
           \/ \E n \in Obj!FdNumbers, auto \in BOOLEAN : Obj!ConstructWith(f, n, auto)
    PROVE  FileInv'
<1>1. FilesOK(table, opened, file, theirs) /\ ~wrong /\ ~Owns(file, f) /\ wrong' = wrong /\ opened' = opened /\ table' = table
  BY FileBasics DEF Obj!Construct, Obj!ConstructWith, Owns
<1>2. CASE Obj!Construct(f)
  <2>1. FilesOK(table, opened, [file EXCEPT ![f] = Obj!Blank], theirs)
    BY <1>1, FileBasics, BorrowKeeps
  <2> QED
    BY <1>1, <1>2, <2>1 DEF Obj!Construct, FileInv
<1>3. ASSUME NEW n \in Fds, NEW auto \in BOOLEAN, Obj!ConstructWith(f, n, auto)
      PROVE  FileInv'
  <2> DEFINE v == Obj!With(n, auto, table[n])
  <2>1. table[n] \in theirs /\ file' = [file EXCEPT ![f] = v]
        /\ theirs' = IF auto THEN theirs \ {table[n]} ELSE theirs
    BY <1>3 DEF Obj!ConstructWith
  <2>2. table[n] \in 0..opened /\ table[n] # Obj!Shut
    BY <1>1, <2>1, FdFacts DEF FilesOK, FileTypes
  <2>3. v \in FileRecord(opened) /\ v.alive /\ v.auto = auto /\ v.fd = n /\ v.desc = table[n]
    BY <2>2, FileBasics DEF Obj!With
  <2> HIDE DEF v
  <2>4. CASE auto
    <3>1. FilesOK(table, opened, [file EXCEPT ![f] = v], theirs \ {v.desc})
      BY <1>1, <2>1, <2>3, <2>4, TakeOverKeeps
    <3> QED
      BY <1>1, <2>1, <2>3, <2>4, <3>1 DEF FileInv
  <2>5. CASE ~auto
    <3>1. \A k \in Fds : table[k] = v.desc => k = v.fd
      BY <1>1, <2>2, <2>3 DEF FilesOK, NumbersStay
    <3> QED
      BY <1>1, <2>1, <2>2, <2>3, <2>5, <3>1, BorrowKeeps DEF FileInv
  <2> QED
    BY <2>4, <2>5
<1> QED
  BY <1>2, <1>3 DEF Fds

LEMMA OpenFileKeeps ==
    ASSUME FileInv, NEW f \in Files, NEW works \in BOOLEAN, Obj!Open(f, works)
    PROVE  FileInv'
<1>1. FilesOK(table, opened, file, theirs) /\ ~wrong /\ theirs' = theirs
  BY FileBasics DEF Obj!Open
<1>2. Obj!ClosesFirst(f) <=> Owns(file, f)
  BY <1>1, FileBasics DEF Obj!ClosesFirst, Owns, Obj!Open, Obj!Held
<1>3. PICK t : t = IF Obj!ClosesFirst(f) THEN Obj!SysClosed(f) ELSE table
  OBVIOUS
<1>4. PICK fl : fl = IF Obj!ClosesFirst(f) THEN [file EXCEPT ![f] = Obj!Blank] ELSE file
  OBVIOUS
<1>5. FilesOK(t, opened, fl, theirs) /\ ~Owns(fl, f)
  <2>1. CASE Owns(file, f)
    BY <1>1, <1>2, <1>3, <1>4, <2>1, FileBasics, CloseKeeps DEF Obj!SysClosed
  <2>2. CASE ~Owns(file, f)
    BY <1>1, <1>2, <1>3, <1>4, <2>2
  <2> QED
    BY <2>1, <2>2
<1>6. ~wrong'
  BY <1>1, <1>2, OwnerIsNotMistaken DEF Obj!Open
<1>7. CASE works
  <2>1. \E n \in Fds : t[n] = Obj!Shut
    BY <1>3, <1>7 DEF Obj!Open, Fds
  <2>2. PICK n \in Fds : n = Obj!Min({k \in Obj!FdNumbers : t[k] = Obj!Shut}) /\ t[n] = Obj!Shut
    BY <2>1, LowestFree
  <2>3. /\ table' = [t EXCEPT ![n] = opened + 1] /\ opened' = opened + 1
        /\ file' = [file EXCEPT ![f] = Obj!With(n, TRUE, opened + 1)]
    <3>1. /\ table' = Obj!Opens(t) /\ opened' = opened + 1
          /\ file' = [file EXCEPT ![f] = Obj!With(Obj!Min({k \in Obj!FdNumbers : t[k] = Obj!Shut}), TRUE, opened + 1)]
      BY <1>3, <1>7, Zenon DEF Obj!Open
    <3>2. Obj!Opens(t) = [t EXCEPT ![n] = opened + 1]
      BY <2>2 DEF Obj!Opens
    <3> QED
      BY <2>2, <3>1, <3>2
  <2>4. file' = [fl EXCEPT ![f] = Obj!With(n, TRUE, opened + 1)]
    BY <1>1, <1>4, <2>3 DEF FilesOK, FileTypes
  <2>5. FilesOK([t EXCEPT ![n] = opened + 1], opened + 1, [fl EXCEPT ![f] = Obj!With(n, TRUE, opened + 1)], theirs)
    BY <1>5, <2>2, OpenKeeps
  <2> QED
    BY <1>1, <1>6, <2>3, <2>4, <2>5 DEF FileInv
<1>8. CASE ~works
  <2>1. table' = t /\ opened' = opened /\ file' = fl
    BY <1>3, <1>4, <1>8 DEF Obj!Open
  <2> QED
    BY <1>1, <1>5, <1>6, <2>1 DEF FileInv
<1> QED
  BY <1>7, <1>8

LEMMA AttachKeeps ==
    ASSUME AllFileRules \subseteq FileRules, FileInv, NEW f \in Files, NEW n \in Obj!FdNumbers, Obj!Attach(f, n)
    PROVE  FileInv'
<1> DEFINE v == Obj!With(n, FALSE, table[n])
<1>1. /\ FilesOK(table, opened, file, theirs) /\ ~wrong /\ table[n] \in theirs /\ n \in Fds
      /\ file' = [file EXCEPT ![f] = v] /\ UNCHANGED <<table, opened, theirs, wrong>>
  BY FileBasics DEF Obj!Attach, Fds
<1>2. ~Owns(file, f)
  <2>1. ~(Obj!Held(f) /\ file[f].auto)
    BY DEF Obj!Attach, Obj!FRule, AllFileRules
  <2> QED
    BY <2>1, FileBasics DEF Owns
<1>3. table[n] \in 0..opened /\ table[n] # Obj!Shut
  BY <1>1, FdFacts DEF FilesOK, FileTypes
<1>4. v \in FileRecord(opened) /\ ~v.auto /\ v.fd = n /\ v.desc = table[n]
  BY <1>1, <1>3, FileBasics DEF Obj!With
<1>5. \A k \in Fds : table[k] = v.desc => k = v.fd
  <2>1. \A k \in Fds : table[k] = table[n] /\ table[k] # Obj!Shut => k = n
    BY <1>1 DEF FilesOK, NumbersStay
  <2> HIDE DEF v
  <2> QED
    BY <1>3, <1>4, <2>1
<1> HIDE DEF v
<1> QED
  BY <1>1, <1>2, <1>3, <1>4, <1>5, BorrowKeeps DEF FileInv

LEMMA SetAutoCloseKeeps ==
    ASSUME AllFileRules \subseteq FileRules, FileInv, NEW f \in Files, NEW auto \in BOOLEAN, Obj!SetAutoClose(f, auto)
    PROVE  FileInv'
<1>1. /\ FilesOK(table, opened, file, theirs) /\ ~wrong /\ file[f] \in FileRecord(opened)
      /\ file[f].alive /\ file[f].fd # Obj!IOFD_INVALID /\ file[f].auto # auto
      /\ file' = [file EXCEPT ![f].auto = auto] /\ UNCHANGED <<table, opened, wrong>>
  BY FileBasics DEF Obj!SetAutoClose, Obj!Held
<1>2. CASE auto
  <2> DEFINE v == [file[f] EXCEPT !.auto = TRUE]
  <2>1. file[f].desc \in theirs /\ theirs' = theirs \ {file[f].desc}
    BY <1>2 DEF Obj!SetAutoClose, Obj!FRule, AllFileRules
  <2>2. table[file[f].fd] = file[f].desc /\ file[f].fd \in Fds
    <3>1. \E k \in Fds : table[k] = file[f].desc
      BY <1>1, <2>1 DEF FilesOK, NumbersStay
    <3>2. \A k \in Fds : table[k] = file[f].desc => k = file[f].fd
      BY <1>1 DEF FilesOK, NumbersStay
    <3> QED
      BY <3>1, <3>2
  <2>3. /\ v \in FileRecord(opened) /\ v.alive /\ v.auto /\ v.fd = file[f].fd /\ v.desc = file[f].desc
        /\ file' = [file EXCEPT ![f] = v]
    BY <1>1, <1>2 DEF FileRecord
  <2>4. ~Owns(file, f)
    BY <1>1, <1>2 DEF Owns, FileRecord
  <2> HIDE DEF v
  <2> QED
    <3>1. FilesOK(table, opened, [file EXCEPT ![f] = v], theirs \ {v.desc})
      BY <1>1, <2>1, <2>2, <2>3, <2>4, TakeOverKeeps
    <3> QED
      BY <1>1, <2>1, <2>3, <3>1 DEF FileInv
<1>3. CASE ~auto
  <2>1. Owns(file, f) /\ theirs' = theirs \cup {file[f].desc} /\ file' = [file EXCEPT ![f].auto = FALSE]
    BY <1>1, <1>3 DEF Owns, Obj!SetAutoClose, FileRecord
  <2> QED
    <3>1. FilesOK(table, opened, [file EXCEPT ![f].auto = FALSE], theirs \cup {file[f].desc})
      BY <1>1, <2>1, GiveBackKeeps
    <3> QED
      BY <1>1, <2>1, <3>1 DEF FileInv
<1> QED
  BY <1>2, <1>3

LEMMA DuplicateKeeps ==
    ASSUME AllFileRules \subseteq FileRules, FileInv, NEW f \in Files, NEW g \in Files, NEW copy \in BOOLEAN,
           Obj!Duplicate(f, g, copy)
    PROVE  FileInv'
<1>1. /\ FilesOK(table, opened, file, theirs) /\ ~wrong /\ file[f] \in FileRecord(opened)
      /\ file[f].alive /\ file[f].fd # Obj!IOFD_INVALID /\ ~Owns(file, g)
      /\ UNCHANGED <<theirs, wrong>>
  BY FileBasics DEF Obj!Duplicate, Obj!Held, Owns
<1>2. CASE copy
  <2>1. \E n \in Fds : table[n] = Obj!Shut
    BY <1>2 DEF Obj!Duplicate, Obj!FreeFds, Fds
  <2>2. PICK n \in Fds : n = Obj!Min({k \in Obj!FdNumbers : table[k] = Obj!Shut}) /\ table[n] = Obj!Shut
    BY <2>1, LowestFree
  <2>3. file[f].auto = TRUE
    BY <1>1, <1>2 DEF Obj!Duplicate, Obj!FRule, AllFileRules, FileRecord
  <2>4. /\ table' = [table EXCEPT ![n] = opened + 1] /\ opened' = opened + 1
        /\ file' = [file EXCEPT ![g] = Obj!With(n, TRUE, opened + 1)]
    BY <1>2, <2>2, <2>3 DEF Obj!Duplicate, Obj!Opens, Obj!FreeFds
  <2> QED
    <3>1. FilesOK([table EXCEPT ![n] = opened + 1], opened + 1, [file EXCEPT ![g] = Obj!With(n, TRUE, opened + 1)], theirs)
      BY <1>1, <2>2, OpenKeeps
    <3> QED
      BY <1>1, <2>4, <3>1 DEF FileInv
<1>3. CASE ~copy
  <2> DEFINE v == Obj!With(file[f].fd, FALSE, file[f].desc)
  <2>1. file' = [file EXCEPT ![g] = v] /\ UNCHANGED <<table, opened>>
    BY <1>3 DEF Obj!Duplicate, Obj!Copied
  <2>2. file[f].fd \in Fds /\ file[f].desc \in 0..opened /\ file[f].desc # Obj!Shut
        /\ \A n \in Fds : table[n] = file[f].desc => n = file[f].fd
    BY <1>1 DEF FilesOK, NumbersStay, FileRecord
  <2>3. v \in FileRecord(opened) /\ ~v.auto /\ v.fd = file[f].fd /\ v.desc = file[f].desc
    BY <2>2, FileBasics DEF Obj!With
  <2> HIDE DEF v
  <2> QED
    BY <1>1, <2>1, <2>2, <2>3, BorrowKeeps DEF FileInv
<1> QED
  BY <1>2, <1>3

LEMMA CloseFileKeeps ==
    ASSUME AllFileRules \subseteq FileRules, FileInv, NEW f \in Files,
           (\E works \in BOOLEAN : Obj!Close(f, works)) \/ Obj!Abort(f) \/ Obj!Destroy(f)
    PROVE  FileInv'
<1>1. FilesOK(table, opened, file, theirs) /\ ~wrong /\ UNCHANGED <<opened, theirs>>
  BY FileBasics DEF Obj!Close, Obj!Abort, Obj!Destroy
<1>2. PICK v \in {Obj!Blank, Obj!Gone} :
          /\ file' = [file EXCEPT ![f] = v]
          /\ IF Owns(file, f) THEN table' = Obj!SysClosed(f) /\ Obj!Mistaken(f)
             ELSE v = Obj!Gone /\ UNCHANGED <<table, wrong>>
  <2>1. CASE \E works \in BOOLEAN : Obj!Close(f, works)
    BY <2>1 DEF Obj!Close, Obj!FRule, AllFileRules, Obj!Held, Owns
  <2>2. CASE Obj!Abort(f)
    BY <2>2 DEF Obj!Abort, Obj!FRule, AllFileRules, Obj!Held, Owns
  <2>3. CASE Obj!Destroy(f)
    <3>1. Obj!Held(f) /\ file[f].auto <=> Owns(file, f)
      BY FileBasics DEF Obj!Held, Owns
    <3> QED
      BY <2>3, <3>1 DEF Obj!Destroy
  <2> QED
    BY <2>1, <2>2, <2>3
<1>3. v \in FileRecord(opened) /\ ~v.auto /\ v.fd = Obj!IOFD_INVALID
  BY FileBasics
<1>4. CASE Owns(file, f)
  <2>1. FilesOK([table EXCEPT ![file[f].fd] = Obj!Shut], opened, [file EXCEPT ![f] = v], theirs)
    BY <1>1, <1>3, <1>4, CloseKeeps
  <2>2. ~wrong'
    BY <1>2, <1>4, OwnerIsNotMistaken
  <2> QED
    BY <1>1, <1>2, <1>4, <2>1, <2>2 DEF FileInv, Obj!SysClosed
<1>5. CASE ~Owns(file, f)
  BY <1>1, <1>2, <1>3, <1>5, BorrowKeeps DEF FileInv
<1> QED
  BY <1>4, <1>5

LEMMA TheyKeep ==
    ASSUME FileInv, Obj!TheyOpen \/ \E n \in Obj!FdNumbers : Obj!TheyClose(n)
    PROVE  FileInv'
<1>1. FilesOK(table, opened, file, theirs) /\ ~wrong /\ UNCHANGED <<file, wrong>>
  BY DEF FileInv, Obj!TheyOpen, Obj!TheyClose
<1>2. CASE Obj!TheyOpen
  <2>1. \E n \in Fds : table[n] = Obj!Shut
    BY <1>2 DEF Obj!TheyOpen, Obj!FreeFds, Fds
  <2>2. PICK n \in Fds : n = Obj!Min({k \in Obj!FdNumbers : table[k] = Obj!Shut}) /\ table[n] = Obj!Shut
    BY <2>1, LowestFree
  <2>3. table' = [table EXCEPT ![n] = opened + 1] /\ opened' = opened + 1 /\ theirs' = theirs \cup {opened + 1}
    BY <1>2, <2>2 DEF Obj!TheyOpen, Obj!Opens
  <2> QED
    <3>1. FilesOK([table EXCEPT ![n] = opened + 1], opened + 1, file, theirs \cup {opened + 1})
      BY <1>1, <2>2, TheyOpenKeeps
    <3> QED
      BY <1>1, <2>3, <3>1 DEF FileInv
<1>3. ASSUME NEW n \in Fds, Obj!TheyClose(n)
      PROVE  FileInv'
  <2>1. /\ table[n] \in theirs /\ table' = [table EXCEPT ![n] = Obj!Shut] /\ theirs' = theirs \ {table[n]}
        /\ opened' = opened
    BY <1>3 DEF Obj!TheyClose
  <2>2. FilesOK([table EXCEPT ![n] = Obj!Shut], opened, file, theirs \ {table[n]})
    BY <1>1, <2>1, TheyCloseKeeps
  <2> QED
    BY <1>1, <2>1, <2>2 DEF FileInv
<1> QED
  BY <1>2, <1>3 DEF Fds

LEMMA FileNextKeeps == AllFileRules \subseteq FileRules /\ FileInv /\ [Obj!FileObjNext]_fileObjVars => FileInv'
<1> SUFFICES ASSUME AllFileRules \subseteq FileRules, FileInv, [Obj!FileObjNext]_fileObjVars PROVE FileInv'
  OBVIOUS
<1>1. CASE UNCHANGED fileObjVars
  BY <1>1 DEF fileObjVars, FileInv
<1>2. ASSUME NEW f \in Files, Obj!Map(f)
      PROVE  FileInv'
  BY <1>2, FileBasics, MapKeeps DEF FileInv, Obj!Map
<1> QED
  BY <1>1, <1>2, TheyKeep, ConstructKeeps, CloseFileKeeps, OpenFileKeeps, AttachKeeps, SetAutoCloseKeeps, DuplicateKeeps
     DEF Obj!FileObjNext

(* A File closes what it owns and nothing else, and no descriptor is lost, *)
(* however objects are opened again, attached, duplicated and destroyed,   *)
(* for any number of them, if the client keeps the rules (File.cpp open,   *)
(* close, attach, duplicate, ~File).                                       *)
THEOREM FilesCorrect == ASSUME AllFileRules \subseteq FileRules PROVE Spec => []FilesKeepTheirs
<1>1. Init => FileInv
  BY FileInitKeeps DEF Init
<1>2. FileInv /\ [Next]_vars => FileInv'
  <2>1. [Next]_vars => [Obj!FileObjNext]_fileObjVars
    BY DEF Next, vars
  <2> QED
    BY <2>1, FileNextKeeps
<1>3. FileInv => FilesKeepTheirs
  <2> SUFFICES ASSUME FileInv PROVE FilesKeepTheirs
    OBVIOUS
  <2>1. OneOwner(table, file, theirs) /\ ~wrong
    BY DEF FileInv, FilesOK
  <2>2. Obj!NothingLeaks
    <3> SUFFICES ASSUME NEW n \in Fds, table[n] # Obj!Shut, table[n] \notin theirs PROVE Obj!Owners(table[n]) # {}
      BY DEF Obj!NothingLeaks, Fds
    <3>1. PICK f \in Files : Owns(file, f) /\ file[f].desc = table[n]
      BY <2>1 DEF OneOwner
    <3> QED
      BY <3>1 DEF Obj!Owners, Owns
  <2>3. Obj!OwnersAreOpen
    BY <2>1 DEF OneOwner, Owns, Obj!OwnersAreOpen
  <2> QED
    BY <2>1, <2>2, <2>3 DEF FilesKeepTheirs, Obj!ClosesItsOwn
<1>4. Spec => []FileInv
  BY <1>1, <1>2, PTL DEF Spec
<1> QED
  BY <1>3, <1>4, PTL

-----------------------------------------------------------------------------
(* Children and pipes.                                                     *)

SafeRules == {"detach after failure", "terminate the running", "close once", "no fork while writing",
              "detach before run", "last with pipe", "live ends"}

Nums  == Sub!Numbers
Named == 3..Sub!LastFd
Slots(n) == {Sub!Free, Sub!Tty} \cup ((1..n) \X {"r", "w"})

\* The parent has its own three descriptors and no end of a pipe twice.
TableOK(t, n) ==
    /\ t \in [Nums -> Slots(n)]
    /\ \A i \in Nums : t[i] = Sub!Tty <=> i \notin Named
    /\ \A i, j \in Nums : t[i] = t[j] /\ t[i] # Sub!Free /\ t[i] # Sub!Tty => i = j

\* As long as one channel of a pipe is good, the other one knows where its end is
\* - what a fork () relies on when it has the child close it.
ChannelsOK(t, n, c) ==
    /\ c \in [Sub!Pipes -> [source : Named \cup {Sub!Invalid}, sink : Named \cup {Sub!Invalid}]]
    /\ \A p \in Sub!Pipes : p > n => c[p] = Sub!NoNumbers
    /\ \A p \in Sub!Pipes : c[p].source # Sub!Invalid /\ t[c[p].source] = <<p, "r">> =>
           \A i \in Nums : t[i] = <<p, "w">> => i = c[p].sink
    /\ \A p \in Sub!Pipes : c[p].sink # Sub!Invalid /\ t[c[p].sink] = <<p, "w">> =>
           \A i \in Nums : t[i] = <<p, "r">> => i = c[p].source

CmdsOK(t, n, c, m) ==
    /\ m \in [SubProcesses -> Named \cup {Sub!Invalid}]
    /\ \A o \in SubProcesses : m[o] # Sub!Invalid =>
           /\ \E p \in 1..n, e \in {"r", "w"} : t[m[o]] = <<p, e>> /\ c[p] = Sub!NoNumbers
           /\ \A q \in SubProcesses : m[q] = m[o] => q = o

Child == [state : {"running", "zombie", "reaped"}, code : {0, 15, 255},
          ends : Slots(MaxPipes) \X Slots(MaxPipes), fds : [Nums -> Slots(MaxPipes)]]

Wired(ch) ==
    /\ ch.fds[0] = ch.ends[1] /\ ch.fds[1] = ch.ends[2]
    /\ \A i \in Nums : /\ ch.ends[1][2] = "r" => ch.fds[i] # <<ch.ends[1][1], "w">>
                       /\ ch.ends[2][2] = "w" => ch.fds[i] # <<ch.ends[2][1], "r">>

ProcsOK(pr) ==
    /\ pr \in Seq(Child) /\ Len(pr) <= MaxProcs
    /\ \A k \in DOMAIN pr : pr[k].state = "running" => Wired(pr[k])

\* Nobody but its object reaps a child.
ObjsOK(ob, pr, n) ==
    /\ ob \in [SubProcesses -> [sub : Nat \cup {-1}, status : {Sub!NoStatus, 0, 15, 255}, pipe : 0..n, started : BOOLEAN]]
    /\ \A o \in SubProcesses : ob[o].sub > 0 => ob[o].sub \in DOMAIN pr /\ pr[ob[o].sub].state # "reaped"
    /\ \A o, q \in SubProcesses : ob[o].sub = ob[q].sub /\ ob[o].sub > 0 => o = q

ParentOK(t, n, c, m) == n \in 0..MaxPipes /\ TableOK(t, n) /\ ChannelsOK(t, n, c) /\ CmdsOK(t, n, c, m)

ChildInv ==
    /\ ParentOK(fds, npipes, chan, cmd) /\ ProcsOK(proc) /\ ObjsOK(obj, proc, npipes)
    /\ pc \in SubProcesses \cup {Sub!Idle} /\ (pc # Sub!Idle => obj[pc].sub \notin {-1, 0})
    /\ ~failed /\ strays = {}

LEMMA ChildFacts ==
    /\ MaxPipes \in Nat /\ MaxProcs \in Nat /\ Sub!LastFd = 2 + 2 * MaxPipes /\ Nums = 0..Sub!LastFd
    /\ Named \subseteq Nums /\ \A i \in Nums : i \notin Named <=> i \in {0, 1, 2}
    /\ {0, 1, 2} \subseteq Nums /\ Sub!Invalid = -1 /\ Sub!Invalid \notin Nums
    /\ Sub!Free = <<0, "free">> /\ Sub!Tty = <<0, "tty">> /\ Sub!Free # Sub!Tty
    /\ \A p, q, e, x : (<<p, e>> = <<q, x>>) <=> p = q /\ e = x
    /\ \A p, e : e \in {"r", "w"} => <<p, e>> # Sub!Free /\ <<p, e>> # Sub!Tty
    /\ Sub!Pipes = 1..MaxPipes /\ \A p, e : Sub!End(p, e) = <<p, e>>
BY NumbersAssumption DEF Nums, Named, Sub!Numbers, Sub!LastFd, Sub!Invalid, Sub!Free, Sub!Tty, Sub!Pipes, Sub!End

LEMMA SubMin ==
    ASSUME NEW S \in SUBSET Nat, S # {}
    PROVE  Sub!Min(S) \in S
<1>1. Obj!Min(S) \in S /\ \A y \in S : Obj!Min(S) <= y
  BY NatMin
<1> QED
  BY <1>1 DEF Sub!Min

LEMMA ClosedKeeps ==
    ASSUME NEW t, NEW n \in Nat, TableOK(t, n), NEW i \in Named \cup {Sub!Invalid}
    PROVE  /\ TableOK(Sub!Closed(t, i), n)
           /\ \A j \in Nums : Sub!Closed(t, i)[j] = IF j = i THEN Sub!Free ELSE t[j]
<1> DEFINE c == Sub!Closed(t, i)
<1>1. t \in [Nums -> Slots(n)] /\ Sub!Free \in Slots(n)
  BY DEF TableOK, Slots
<1>2. c \in [Nums -> Slots(n)] /\ \A j \in Nums : c[j] = IF j = i THEN Sub!Free ELSE t[j]
  BY <1>1, ChildFacts DEF Sub!Closed
<1> HIDE DEF c
<1>3. TableOK(c, n)
  BY <1>2, ChildFacts DEF TableOK
<1> QED
  BY <1>2, <1>3 DEF c

\* There is room for another pipe as long as there are pipes to be made: the
\* ends of the others take two numbers each at most.
LEMMA RoomForPipe ==
    ASSUME NEW t, NEW n \in Nat, n < MaxPipes, TableOK(t, n)
    PROVE  \E i, j \in Named : i # j /\ t[i] = Sub!Free /\ t[j] = Sub!Free
<1> SUFFICES ASSUME \A i, j \in Named : t[i] = Sub!Free /\ t[j] = Sub!Free => i = j
             PROVE  FALSE
  OBVIOUS
<1> DEFINE S == Named
           E == (1..n) \X {"r", "w"}
           T == E \cup {Sub!Free}
           f == [i \in S |-> t[i]]
<1>1. IsFiniteSet(S) /\ Cardinality(S) = 2 * MaxPipes
  BY FS_Interval, ChildFacts DEF Named
<1>2. IsFiniteSet(E) /\ Cardinality(E) = 2 * n
  <2>1. IsFiniteSet(1..n) /\ Cardinality(1..n) = n
    BY FS_Interval
  <2>2. IsFiniteSet({"r", "w"}) /\ Cardinality({"r", "w"}) = 2
    <3>1. IsFiniteSet({"r"}) /\ Cardinality({"r"}) = 1
      BY FS_Singleton
    <3>2. {"r", "w"} = {"r"} \cup {"w"} /\ "w" \notin {"r"}
      OBVIOUS
    <3> QED
      BY <3>1, <3>2, FS_AddElement
  <2>3. /\ IsFiniteSet((1..n) \X {"r", "w"})
        /\ Cardinality((1..n) \X {"r", "w"}) = Cardinality(1..n) * Cardinality({"r", "w"})
    BY <2>1, <2>2, FS_Product, Zenon
  <2> QED
    BY <2>1, <2>2, <2>3
<1>3. IsFiniteSet(T) /\ Cardinality(T) = 2 * n + 1
  <2>1. Sub!Free \notin E
    BY ChildFacts
  <2> HIDE DEF E
  <2> QED
    BY <1>2, <2>1, FS_AddElement
<1>4. f \in [S -> T]
  <2>1. \A i \in S : t[i] \in Slots(n) /\ t[i] # Sub!Tty
    BY ChildFacts DEF TableOK
  <2> QED
    BY <2>1 DEF Slots
<1>5. Cardinality(T) < Cardinality(S)
  <2> HIDE DEF S, T
  <2> QED
    BY <1>1, <1>3, ChildFacts
<1>6. \A x, y \in S : f[x] = f[y] => x = y
  BY ChildFacts DEF TableOK
<1> HIDE DEF S, T, f
<1> QED
  BY <1>1, <1>3, <1>4, <1>5, <1>6, FS_PigeonHole

\* pipe () gives two numbers that were free to the ends of a new pipe.
LEMMA PipeOpensProperties ==
    ASSUME NEW t, NEW n \in Nat, n < MaxPipes, TableOK(t, n)
    PROVE  LET new == Sub!PipeOpens(t, n + 1) IN
           /\ new.source \in Named /\ new.sink \in Named /\ new.source # new.sink
           /\ t[new.source] = Sub!Free /\ t[new.sink] = Sub!Free
           /\ TableOK(new.table, n + 1)
           /\ \A i \in Nums : new.table[i] = IF i = new.source THEN <<n + 1, "r">>
                                             ELSE IF i = new.sink THEN <<n + 1, "w">> ELSE t[i]
<1>1. PICK i \in Named, j \in Named : i # j /\ t[i] = Sub!Free /\ t[j] = Sub!Free
  BY RoomForPipe
<1>2. t \in [Nums -> Slots(n)] /\ DOMAIN t = Nums /\ Nums \subseteq Nat
  BY ChildFacts DEF TableOK
<1>3. PICK r : r = Sub!Lowest(t)
  OBVIOUS
<1>4. r \in Named /\ t[r] = Sub!Free
  <2>1. {k \in DOMAIN t : t[k] = Sub!Free} \in SUBSET Nat /\ {k \in DOMAIN t : t[k] = Sub!Free} # {}
    BY <1>1, <1>2, ChildFacts
  <2>2. r \in DOMAIN t /\ t[r] = Sub!Free
    BY <1>3, <2>1, SubMin DEF Sub!Lowest
  <2> QED
    BY <1>2, <2>2, ChildFacts DEF TableOK
<1>5. PICK t1 : t1 = [t EXCEPT ![r] = Sub!End(n + 1, "r")]
  OBVIOUS
<1>6. DOMAIN t1 = Nums /\ \A k \in Nums : t1[k] = IF k = r THEN <<n + 1, "r">> ELSE t[k]
  BY <1>2, <1>4, <1>5, ChildFacts
<1>7. PICK w : w = Sub!Lowest(t1)
  OBVIOUS
<1>8. w \in Named /\ w # r /\ t[w] = Sub!Free
  <2>1. \E k \in Nums : t1[k] = Sub!Free
    BY <1>1, <1>4, <1>6, ChildFacts
  <2>2. {k \in DOMAIN t1 : t1[k] = Sub!Free} \in SUBSET Nat /\ {k \in DOMAIN t1 : t1[k] = Sub!Free} # {}
    BY <1>2, <1>6, <2>1
  <2>3. w \in DOMAIN t1 /\ t1[w] = Sub!Free
    BY <1>7, <2>2, SubMin DEF Sub!Lowest
  <2> QED
    BY <1>2, <1>6, <2>3, ChildFacts DEF TableOK
<1>9. PICK t2 : t2 = [t1 EXCEPT ![w] = Sub!End(n + 1, "w")]
  OBVIOUS
<1>10. DOMAIN t2 = Nums /\ \A k \in Nums : t2[k] = IF k = r THEN <<n + 1, "r">>
                                                   ELSE IF k = w THEN <<n + 1, "w">> ELSE t[k]
  BY <1>6, <1>8, <1>9, ChildFacts
<1>11. Sub!PipeOpens(t, n + 1) = [table |-> t2, source |-> r, sink |-> w]
  BY <1>3, <1>5, <1>7, <1>9 DEF Sub!PipeOpens
<1>12. TableOK(t2, n + 1)
  <2>1. \A k \in Nums : t[k] \in {Sub!Free, Sub!Tty} \/ \E p \in 1..n, e \in {"r", "w"} : t[k] = <<p, e>>
    BY <1>2 DEF Slots
  <2>2. t2 = [k \in Nums |-> t2[k]]
    BY <1>5, <1>9, <1>2
  <2>3. \A k \in Nums : t2[k] \in Slots(n + 1)
    BY <1>10, <2>1 DEF Slots
  <2>4. \A k \in Nums : t2[k] = Sub!Tty <=> k \notin Named
    BY <1>4, <1>8, <1>10, ChildFacts DEF TableOK
  <2>5. \A k, l \in Nums : t2[k] = t2[l] /\ t2[k] # Sub!Free /\ t2[k] # Sub!Tty => k = l
    <3>1. \A k \in Nums : t[k] # <<n + 1, "r">> /\ t[k] # <<n + 1, "w">>
      BY <2>1, ChildFacts
    <3> QED
      BY <1>10, <3>1, ChildFacts DEF TableOK
  <2> QED
    BY <2>2, <2>3, <2>4, <2>5 DEF TableOK
<1> QED
  BY <1>4, <1>8, <1>10, <1>11, <1>12

LEMMA ChildInitKeeps == Sub!Init => ChildInv
<1> SUFFICES ASSUME Sub!Init PROVE ChildInv
  OBVIOUS
<1>1. npipes = 0 /\ proc = <<>> /\ pc = Sub!Idle /\ ~failed /\ strays = {} /\ npipes \in 0..MaxPipes
  BY ChildFacts DEF Sub!Init
<1>2. TableOK(fds, npipes)
  <2>1. fds = [n \in Nums |-> IF n <= 2 THEN Sub!Tty ELSE Sub!Free]
    BY DEF Sub!Init, Nums
  <2>2. \A n \in Nums : n <= 2 <=> n \notin Named
    BY ChildFacts DEF Named
  <2> QED
    BY <2>1, <2>2, ChildFacts DEF TableOK, Slots
<1>3. ChannelsOK(fds, npipes, chan)
  BY ChildFacts DEF Sub!Init, Sub!NoNumbers, ChannelsOK
<1>4. CmdsOK(fds, npipes, chan, cmd)
  BY DEF Sub!Init, CmdsOK
<1>5. ProcsOK(proc)
  <2>1. proc \in Seq(Child) /\ Len(proc) = 0 /\ DOMAIN proc = {}
    BY <1>1, EmptySeq
  <2> QED
    BY <2>1, ChildFacts DEF ProcsOK
<1>6. ObjsOK(obj, proc, npipes)
  BY <1>1 DEF Sub!Init, Sub!Fresh, Sub!NoStatus, Sub!NoPipe, ObjsOK
<1> QED
  BY <1>1, <1>2, <1>3, <1>4, <1>5, <1>6 DEF ChildInv, ParentOK

-----------------------------------------------------------------------------
(* What happens to the descriptors and to the processes, each by itself.   *)

\* Closing an end that a channel of the parent has, or one that a PipeCmd has and
\* gives up.
LEMMA CloseEndKeeps ==
    ASSUME NEW t, NEW n, NEW c, NEW m, ParentOK(t, n, c, m), NEW i \in Named \cup {Sub!Invalid},
           \A o \in SubProcesses : m[o] # Sub!Invalid => m[o] # i
    PROVE  ParentOK(Sub!Closed(t, i), n, c, m)
<1> DEFINE d == Sub!Closed(t, i)
<1>1. n \in 0..MaxPipes /\ n \in Nat /\ TableOK(t, n) /\ ChannelsOK(t, n, c) /\ CmdsOK(t, n, c, m)
  BY ChildFacts DEF ParentOK
<1>2. TableOK(d, n) /\ \A j \in Nums : d[j] = IF j = i THEN Sub!Free ELSE t[j]
  BY <1>1, ClosedKeeps
<1> HIDE DEF d
<1>3. ChannelsOK(d, n, c)
  <2>1. \A p \in Sub!Pipes : {c[p].source, c[p].sink} \subseteq Named \cup {Sub!Invalid}
    BY <1>1 DEF ChannelsOK
  <2>2. ASSUME NEW p \in Sub!Pipes, c[p].source # Sub!Invalid, d[c[p].source] = <<p, "r">>,
               NEW j \in Nums, d[j] = <<p, "w">>
        PROVE  j = c[p].sink
    <3>1. c[p].source \in Nums /\ t[c[p].source] = <<p, "r">> /\ t[j] = <<p, "w">>
      BY <1>2, <2>1, <2>2, ChildFacts
    <3> QED
      BY <1>1, <2>2, <3>1 DEF ChannelsOK
  <2>3. \A p \in Sub!Pipes : c[p].sink # Sub!Invalid /\ d[c[p].sink] = <<p, "w">> =>
           \A j \in Nums : d[j] = <<p, "r">> => j = c[p].source
    <3>1. SUFFICES ASSUME NEW p \in Sub!Pipes, c[p].sink # Sub!Invalid, d[c[p].sink] = <<p, "w">>,
                          NEW j \in Nums, d[j] = <<p, "r">>
                   PROVE  j = c[p].source
      OBVIOUS
    <3>2. c[p].sink \in Nums /\ t[c[p].sink] = <<p, "w">> /\ t[j] = <<p, "r">>
      BY <1>2, <2>1, <3>1, ChildFacts
    <3> QED
      BY <1>1, <3>1, <3>2 DEF ChannelsOK
  <2> QED
    BY <1>1, <2>2, <2>3 DEF ChannelsOK
<1>4. CmdsOK(d, n, c, m)
  <2>1. \A o \in SubProcesses : m[o] # Sub!Invalid => m[o] \in Nums /\ d[m[o]] = t[m[o]]
    BY <1>1, <1>2, ChildFacts DEF CmdsOK
  <2> QED
    BY <1>1, <2>1 DEF CmdsOK
<1> QED
  BY <1>1, <1>2, <1>3, <1>4 DEF ParentOK, d

LEMMA CloseChannelKeeps ==
    ASSUME NEW t, NEW n, NEW c, NEW m, ParentOK(t, n, c, m), NEW p \in Sub!Pipes, NEW e \in {"r", "w"},
           NEW i, i = (IF e = "r" THEN c[p].source ELSE c[p].sink), i # Sub!Invalid, t[i] = <<p, e>>
    PROVE  ParentOK(Sub!Closed(t, i), n,
                    IF e = "r" THEN [c EXCEPT ![p].source = Sub!Invalid] ELSE [c EXCEPT ![p].sink = Sub!Invalid], m)
<1> DEFINE d == Sub!Closed(t, i)
           b == IF e = "r" THEN [c EXCEPT ![p].source = Sub!Invalid] ELSE [c EXCEPT ![p].sink = Sub!Invalid]
<1>1. n \in 0..MaxPipes /\ n \in Nat /\ TableOK(t, n) /\ ChannelsOK(t, n, c) /\ CmdsOK(t, n, c, m)
  BY ChildFacts DEF ParentOK
<1>2. /\ c \in [Sub!Pipes -> [source : Named \cup {Sub!Invalid}, sink : Named \cup {Sub!Invalid}]]
      /\ c[p] # Sub!NoNumbers /\ i \in Named /\ i \in Nums
  BY <1>1, ChildFacts DEF ChannelsOK, Sub!NoNumbers
<1>3. \A o \in SubProcesses : m[o] # Sub!Invalid => m[o] # i
  BY <1>1, <1>2, ChildFacts DEF CmdsOK
<1>4. ParentOK(d, n, c, m)
  BY <1>2, <1>3, CloseEndKeeps
<1>5. \A j \in Nums : d[j] = IF j = i THEN Sub!Free ELSE t[j]
  BY <1>1, <1>2, ClosedKeeps
<1>6. \A j \in Nums : d[j] # <<p, e>>
  <2>1. \A x, y \in Nums : t[x] = t[y] /\ t[x] # Sub!Free /\ t[x] # Sub!Tty => x = y
    BY <1>1 DEF TableOK
  <2>2. <<p, e>> # Sub!Free /\ <<p, e>> # Sub!Tty
    BY ChildFacts
  <2> HIDE DEF d
  <2>3. d[i] # <<p, e>>
    BY <1>2, <1>5, <2>2
  <2>4. ASSUME NEW j \in Nums, j # i PROVE d[j] # <<p, e>>
    <3>1. d[j] = t[j]
      BY <1>5, <2>4
    <3>2. ~(t[j] = t[i] /\ t[j] # Sub!Free /\ t[j] # Sub!Tty)
      BY <1>2, <2>1, <2>4
    <3> QED
      BY <2>2, <3>1, <3>2
  <2> QED
    BY <2>3, <2>4
<1> HIDE DEF d
<1>7. /\ b \in [Sub!Pipes -> [source : Named \cup {Sub!Invalid}, sink : Named \cup {Sub!Invalid}]]
      /\ \A q \in Sub!Pipes : q # p => b[q] = c[q]
      /\ e = "r" => b[p].source = Sub!Invalid /\ b[p].sink = c[p].sink
      /\ e = "w" => b[p].sink = Sub!Invalid /\ b[p].source = c[p].source
  BY <1>2
<1> HIDE DEF b
<1>8. ChannelsOK(d, n, b)
  <2>1. ASSUME NEW q \in Sub!Pipes, q > n PROVE b[q] = Sub!NoNumbers
    BY <1>1, <1>2, <1>7, <2>1 DEF ChannelsOK
  <2>2. ASSUME NEW q \in Sub!Pipes, b[q].source # Sub!Invalid, d[b[q].source] = <<q, "r">>,
               NEW j \in Nums, d[j] = <<q, "w">>
        PROVE  j = b[q].sink
    BY <1>4, <1>6, <1>7, <2>2 DEF ParentOK, ChannelsOK
  <2>3. ASSUME NEW q \in Sub!Pipes, b[q].sink # Sub!Invalid, d[b[q].sink] = <<q, "w">>,
               NEW j \in Nums, d[j] = <<q, "r">>
        PROVE  j = b[q].source
    BY <1>4, <1>6, <1>7, <2>3 DEF ParentOK, ChannelsOK
  <2> QED
    BY <1>7, <2>1, <2>2, <2>3 DEF ChannelsOK
<1>9. CmdsOK(d, n, b, m)
  <2>1. \A q \in 1..n : c[q] = Sub!NoNumbers => b[q] = Sub!NoNumbers
    BY <1>1, <1>2, <1>7, ChildFacts
  <2> QED
    BY <1>4, <2>1 DEF ParentOK, CmdsOK
<1> QED
  BY <1>1, <1>4, <1>8, <1>9 DEF ParentOK, d, b

\* Both channels of a pipe are forgotten, open or not.
LEMMA DropKeeps ==
    ASSUME NEW t, NEW n, NEW c, NEW m, ParentOK(t, n, c, m), NEW p
    PROVE  ParentOK(t, n, [c EXCEPT ![p] = Sub!NoNumbers], m)
<1> DEFINE b == [c EXCEPT ![p] = Sub!NoNumbers]
<1>1. n \in 0..MaxPipes /\ TableOK(t, n) /\ ChannelsOK(t, n, c) /\ CmdsOK(t, n, c, m)
  BY DEF ParentOK
<1>2. Sub!NoNumbers \in [source : Named \cup {Sub!Invalid}, sink : Named \cup {Sub!Invalid}]
      /\ Sub!NoNumbers.source = Sub!Invalid /\ Sub!NoNumbers.sink = Sub!Invalid
  BY DEF Sub!NoNumbers
<1> HIDE DEF b
<1>3. /\ b \in [Sub!Pipes -> [source : Named \cup {Sub!Invalid}, sink : Named \cup {Sub!Invalid}]]
      /\ \A q \in Sub!Pipes : b[q] = c[q] \/ b[q] = Sub!NoNumbers
  BY <1>1, <1>2 DEF ChannelsOK, b
<1>4. ChannelsOK(t, n, b)
  BY <1>1, <1>2, <1>3 DEF ChannelsOK
<1>5. CmdsOK(t, n, b, m)
  <2>1. \A q \in 1..n : c[q] = Sub!NoNumbers => b[q] = Sub!NoNumbers
    BY <1>1, <1>3, ChildFacts
  <2> QED
    BY <1>1, <2>1 DEF CmdsOK
<1> QED
  BY <1>1, <1>4, <1>5 DEF ParentOK, b

\* A new pipe, with channels or for a PipeCmd.
LEMMA NewPipeKeeps ==
    ASSUME NEW t, NEW n, NEW c, NEW m, ParentOK(t, n, c, m), n < MaxPipes,
           NEW new, new = Sub!PipeOpens(t, n + 1)
    PROVE  /\ n \in Nat /\ n + 1 \in Sub!Pipes
           /\ new.source \in Named /\ new.sink \in Named /\ new.source # new.sink
           /\ t[new.source] = Sub!Free /\ t[new.sink] = Sub!Free
           /\ \A i \in Nums : new.table[i] = IF i = new.source THEN <<n + 1, "r">>
                                             ELSE IF i = new.sink THEN <<n + 1, "w">> ELSE t[i]
           /\ \A i \in Nums : t[i] # <<n + 1, "r">> /\ t[i] # <<n + 1, "w">>
           /\ \A o \in SubProcesses : m[o] # Sub!Invalid => m[o] # new.source /\ m[o] # new.sink
           /\ ParentOK(new.table, n + 1, c, m)
           /\ ParentOK(new.table, n + 1,
                       [c EXCEPT ![n + 1] = [source |-> new.source, sink |-> new.sink]], m)
           /\ \A o \in SubProcesses, i \in {new.source, new.sink} :
                  ParentOK(new.table, n + 1, c, [m EXCEPT ![o] = i])
<1>1. n \in 0..MaxPipes /\ n \in Nat /\ n + 1 \in 0..MaxPipes /\ n + 1 \in Sub!Pipes
      /\ TableOK(t, n) /\ ChannelsOK(t, n, c) /\ CmdsOK(t, n, c, m)
  BY ChildFacts DEF ParentOK
<1>2. /\ new.source \in Named /\ new.sink \in Named /\ new.source # new.sink
      /\ t[new.source] = Sub!Free /\ t[new.sink] = Sub!Free
      /\ TableOK(new.table, n + 1)
      /\ \A i \in Nums : new.table[i] = IF i = new.source THEN <<n + 1, "r">>
                                        ELSE IF i = new.sink THEN <<n + 1, "w">> ELSE t[i]
  BY <1>1, PipeOpensProperties
<1>3. \A i \in Nums : t[i] # <<n + 1, "r">> /\ t[i] # <<n + 1, "w">>
  <2>1. \A i \in Nums : t[i] \in {Sub!Free, Sub!Tty} \/ \E p \in 1..n, e \in {"r", "w"} : t[i] = <<p, e>>
    BY <1>1 DEF TableOK, Slots
  <2> QED
    BY <1>1, <2>1, ChildFacts
<1>4. \A o \in SubProcesses : m[o] # Sub!Invalid => m[o] # new.source /\ m[o] # new.sink
  BY <1>1, <1>2, ChildFacts DEF CmdsOK
<1>5. \A p \in Sub!Pipes : p \in 1..n => p # n + 1
  BY <1>1
<1>6. ASSUME NEW b \in [Sub!Pipes -> [source : Named \cup {Sub!Invalid}, sink : Named \cup {Sub!Invalid}]],
             \A p \in Sub!Pipes : p # n + 1 => b[p] = c[p],
             b[n + 1] \in {Sub!NoNumbers, [source |-> new.source, sink |-> new.sink]}
      PROVE  ChannelsOK(new.table, n + 1, b)
  <2>1. ASSUME NEW p \in Sub!Pipes, p > n + 1 PROVE b[p] = Sub!NoNumbers
    BY <1>1, <1>6, <2>1, ChildFacts DEF ChannelsOK
  <2>2. \A p \in Sub!Pipes, e \in {"r", "w"}, i \in Nums : p # n + 1 => (new.table[i] = <<p, e>> <=> t[i] = <<p, e>>)
    BY <1>2, ChildFacts
  <2>3. \A p \in Sub!Pipes : b[p].source \in Named \cup {Sub!Invalid} /\ b[p].sink \in Named \cup {Sub!Invalid}
    BY <1>6
  <2>4. ASSUME NEW p \in Sub!Pipes, b[p].source # Sub!Invalid, new.table[b[p].source] = <<p, "r">>,
               NEW i \in Nums, new.table[i] = <<p, "w">>
        PROVE  i = b[p].sink
    <3>1. CASE p = n + 1
      <4>1. b[p].sink = new.sink
        BY <1>6, <2>4, <3>1 DEF Sub!NoNumbers
      <4>2. new.table[i] = <<n + 1, "w">> /\ t[i] # <<n + 1, "w">>
        BY <1>3, <2>4, <3>1
      <4>3. <<n + 1, "r">> # <<n + 1, "w">>
        OBVIOUS
      <4>4. i = new.sink
        BY <1>2, <4>2, <4>3
      <4> QED
        BY <4>1, <4>4
    <3>2. CASE p # n + 1
      <4>1. b[p] = c[p] /\ c[p].source # Sub!Invalid /\ c[p].source \in Nums
        BY <1>6, <2>3, <2>4, <3>2, ChildFacts
      <4>2. t[c[p].source] = <<p, "r">> /\ t[i] = <<p, "w">>
        BY <2>2, <2>4, <3>2, <4>1
      <4> QED
        BY <1>1, <4>1, <4>2 DEF ChannelsOK
    <3> QED
      BY <3>1, <3>2
  <2>5. ASSUME NEW p \in Sub!Pipes, b[p].sink # Sub!Invalid, new.table[b[p].sink] = <<p, "w">>,
               NEW i \in Nums, new.table[i] = <<p, "r">>
        PROVE  i = b[p].source
    <3>1. CASE p = n + 1
      <4>1. b[p].source = new.source
        BY <1>6, <2>5, <3>1 DEF Sub!NoNumbers
      <4>2. new.table[i] = <<n + 1, "r">> /\ t[i] # <<n + 1, "r">>
        BY <1>3, <2>5, <3>1
      <4>3. <<n + 1, "r">> # <<n + 1, "w">>
        OBVIOUS
      <4>4. i = new.source
        BY <1>2, <4>2, <4>3
      <4> QED
        BY <4>1, <4>4
    <3>2. CASE p # n + 1
      <4>1. b[p] = c[p] /\ c[p].sink # Sub!Invalid /\ c[p].sink \in Nums
        BY <1>6, <2>3, <2>5, <3>2, ChildFacts
      <4>2. t[c[p].sink] = <<p, "w">> /\ t[i] = <<p, "r">>
        BY <2>2, <2>5, <3>2, <4>1
      <4> QED
        BY <1>1, <4>1, <4>2 DEF ChannelsOK
    <3> QED
      BY <3>1, <3>2
  <2> QED
    BY <1>6, <2>1, <2>4, <2>5 DEF ChannelsOK
<1>7. /\ c \in [Sub!Pipes -> [source : Named \cup {Sub!Invalid}, sink : Named \cup {Sub!Invalid}]]
      /\ c[n + 1] = Sub!NoNumbers
  BY <1>1, ChildFacts DEF ChannelsOK
<1>8. ChannelsOK(new.table, n + 1, c)
  BY <1>6, <1>7
<1> DEFINE b == [c EXCEPT ![n + 1] = [source |-> new.source, sink |-> new.sink]]
<1>9. ChannelsOK(new.table, n + 1, b)
  <2>1. b \in [Sub!Pipes -> [source : Named \cup {Sub!Invalid}, sink : Named \cup {Sub!Invalid}]]
        /\ (\A p \in Sub!Pipes : p # n + 1 => b[p] = c[p])
        /\ b[n + 1] = [source |-> new.source, sink |-> new.sink]
    BY <1>1, <1>2, <1>7
  <2> HIDE DEF b
  <2> QED
    BY <1>6, <2>1
<1>10. \A p \in 1..n, e \in {"r", "w"}, i \in Nums : t[i] = <<p, e>> => new.table[i] = <<p, e>> /\ p \in 1..(n + 1)
  BY <1>1, <1>2, ChildFacts
<1>11. \A q \in SubProcesses : m[q] # Sub!Invalid =>
           \E p \in 1..(n + 1), e \in {"r", "w"} : new.table[m[q]] = <<p, e>> /\ c[p] = Sub!NoNumbers /\ p # n + 1
  <2>1. SUFFICES ASSUME NEW q \in SubProcesses, m[q] # Sub!Invalid
                 PROVE  \E p \in 1..(n + 1), e \in {"r", "w"} :
                            new.table[m[q]] = <<p, e>> /\ c[p] = Sub!NoNumbers /\ p # n + 1
    OBVIOUS
  <2>2. m[q] \in Nums /\ \E p \in 1..n, e \in {"r", "w"} : t[m[q]] = <<p, e>> /\ c[p] = Sub!NoNumbers
    BY <1>1, <2>1, ChildFacts DEF CmdsOK
  <2>3. PICK p \in 1..n, e \in {"r", "w"} : t[m[q]] = <<p, e>> /\ c[p] = Sub!NoNumbers
    BY <2>2
  <2>4. new.table[m[q]] = <<p, e>> /\ p \in 1..(n + 1) /\ p # n + 1
    BY <1>1, <1>10, <2>2, <2>3
  <2> QED
    BY <2>3, <2>4
<1>12. CmdsOK(new.table, n + 1, c, m)
  BY <1>1, <1>11 DEF CmdsOK
<1>13. CmdsOK(new.table, n + 1, b, m)
  <2>1. \A p \in 1..(n + 1) : p # n + 1 => b[p] = c[p]
    BY <1>1, <1>7, ChildFacts
  <2> HIDE DEF b
  <2> QED
    BY <1>1, <1>11, <2>1 DEF CmdsOK
<1>14. ASSUME NEW o \in SubProcesses, NEW i \in {new.source, new.sink}
       PROVE  CmdsOK(new.table, n + 1, c, [m EXCEPT ![o] = i])
  <2> DEFINE k == [m EXCEPT ![o] = i]
  <2>1. /\ k \in [SubProcesses -> Named \cup {Sub!Invalid}]
        /\ \A q \in SubProcesses : k[q] = IF q = o THEN i ELSE m[q]
    BY <1>1, <1>2, <1>14 DEF CmdsOK
  <2>2. i # Sub!Invalid /\ \E e \in {"r", "w"} : new.table[i] = <<n + 1, e>>
    <3>1. new.source \in Nums /\ new.sink \in Nums /\ new.source # Sub!Invalid /\ new.sink # Sub!Invalid
      <4>1. Named \subseteq Nums /\ Sub!Invalid \notin Nums
        BY ChildFacts
      <4> QED
        BY <1>2, <4>1
    <3>2. new.table[new.source] = <<n + 1, "r">> /\ new.table[new.sink] = <<n + 1, "w">>
      BY <1>2, <3>1
    <3> QED
      BY <1>14, <3>1, <3>2
  <2> HIDE DEF k
  <2>3. \A q \in SubProcesses : k[q] # Sub!Invalid =>
            \E p \in 1..(n + 1), e \in {"r", "w"} : new.table[k[q]] = <<p, e>> /\ c[p] = Sub!NoNumbers
    <3>1. n + 1 \in 1..(n + 1)
      BY <1>1
    <3>2. ASSUME NEW q \in SubProcesses, k[q] # Sub!Invalid, q = o
          PROVE  \E p \in 1..(n + 1), e \in {"r", "w"} : new.table[k[q]] = <<p, e>> /\ c[p] = Sub!NoNumbers
      BY <1>7, <2>1, <2>2, <3>1, <3>2
    <3>3. ASSUME NEW q \in SubProcesses, k[q] # Sub!Invalid, q # o
          PROVE  \E p \in 1..(n + 1), e \in {"r", "w"} : new.table[k[q]] = <<p, e>> /\ c[p] = Sub!NoNumbers
      BY <1>11, <2>1, <3>3
    <3> QED
      BY <3>2, <3>3
  <2>4. \A q, s \in SubProcesses : k[q] # Sub!Invalid /\ k[s] = k[q] => s = q
    BY <1>1, <1>4, <1>14, <2>1 DEF CmdsOK
  <2> QED
    BY <2>1, <2>3, <2>4 DEF CmdsOK, k
<1> QED
  BY <1>1, <1>2, <1>3, <1>4, <1>8, <1>9, <1>12, <1>13, <1>14 DEF ParentOK

\* What the child of a fork () has: its input and output where it was told to have
\* them, and nothing of the channels it was given.
LEMMA ChildTableProperties ==
    ASSUME NEW t, NEW n \in Nat, TableOK(t, n), NEW in \in Named \cup {Sub!Invalid},
           NEW out \in Named \cup {Sub!Invalid}, NEW cl \in Named \cup {Sub!Invalid}
    PROVE  /\ Sub!ChildTable(t, in, out, cl) \in [Nums -> Slots(n)]
           /\ \A j \in Nums : Sub!ChildTable(t, in, out, cl)[j] =
                  IF j = 0 THEN t[Sub!Or(in, 0)] ELSE IF j = 1 THEN t[Sub!Or(out, 1)]
                  ELSE IF j \in {in, out, cl} THEN Sub!Free ELSE t[j]
<1> DEFINE i == Sub!Or(in, 0)
           o == Sub!Or(out, 1)
           d == Sub!Dup(Sub!Dup(t, i, 0), o, 1)
           a == IF i # 0 THEN Sub!Closed(d, i) ELSE d
           b == IF o # 1 THEN Sub!Closed(a, o) ELSE a
           z == Sub!Closed(b, cl)
<1>1. t \in [Nums -> Slots(n)] /\ Sub!Free \in Slots(n)
  BY DEF TableOK, Slots
<1>2. /\ \A k \in Named : k \in Nums /\ k # 0 /\ k # 1 /\ k # Sub!Invalid
      /\ 0 \in Nums /\ 1 \in Nums /\ Sub!Invalid \notin Nums
  BY ChildFacts
<1>3. /\ i = IF in = Sub!Invalid THEN 0 ELSE in
      /\ o = IF out = Sub!Invalid THEN 1 ELSE out
      /\ i \in Nums /\ o \in Nums /\ i # 1 /\ o # 0
  BY <1>2 DEF Sub!Or
<1>4. z = Sub!ChildTable(t, in, out, cl)
  BY Zenon DEF Sub!ChildTable
<1> HIDE DEF i, o
<1>5. d \in [Nums -> Slots(n)] /\ \A j \in Nums : d[j] = IF j = 0 THEN t[i] ELSE IF j = 1 THEN t[o] ELSE t[j]
  BY <1>1, <1>2, <1>3 DEF Sub!Dup
<1> HIDE DEF d
<1>6. a \in [Nums -> Slots(n)] /\ \A j \in Nums : a[j] = IF j = i /\ i # 0 THEN Sub!Free ELSE d[j]
  BY <1>1, <1>3, <1>5 DEF Sub!Closed
<1> HIDE DEF a
<1>7. b \in [Nums -> Slots(n)] /\ \A j \in Nums : b[j] = IF j = o /\ o # 1 THEN Sub!Free ELSE a[j]
  BY <1>1, <1>3, <1>6 DEF Sub!Closed
<1> HIDE DEF b
<1>8. z \in [Nums -> Slots(n)] /\ \A j \in Nums : z[j] = IF j = cl THEN Sub!Free ELSE b[j]
  BY <1>1, <1>2, <1>7 DEF Sub!Closed
<1> HIDE DEF z
<1>9. \A j \in Nums : z[j] = IF j = 0 THEN t[i] ELSE IF j = 1 THEN t[o]
                             ELSE IF j \in {in, out, cl} THEN Sub!Free ELSE t[j]
  BY <1>2, <1>3, <1>5, <1>6, <1>7, <1>8
<1> QED
  BY <1>4, <1>8, <1>9 DEF i, o

\* What a run () has to see to: the ends are where the channels say, the numbers
\* of the other ends are among those the child closes.
ToBeWired(t, in, out, cl, e1, e2) ==
    /\ t[Sub!Or(in, 0)] = e1 /\ t[Sub!Or(out, 1)] = e2 /\ e1 # Sub!Free /\ e2 # Sub!Free
    /\ \A j \in Nums : e1[2] = "r" /\ t[j] = <<e1[1], "w">> => j \in {in, out, cl}
    /\ \A j \in Nums : e2[2] = "w" /\ t[j] = <<e2[1], "r">> => j \in {in, out, cl}
    /\ ~(e1[2] = "r" /\ e2[2] = "w" /\ e1[1] = e2[1])

LEMMA ForkWires ==
    ASSUME NEW t, NEW n \in 0..MaxPipes, TableOK(t, n), NEW in \in Named \cup {Sub!Invalid},
           NEW out \in Named \cup {Sub!Invalid}, NEW cl \in Named \cup {Sub!Invalid}, NEW e1, NEW e2,
           ToBeWired(t, in, out, cl, e1, e2),
           NEW ch, ch = [state |-> "running", code |-> 0, ends |-> <<e1, e2>>,
                         fds |-> Sub!ChildTable(t, in, out, cl)]
    PROVE  ch \in Child /\ Wired(ch)
<1>1. n \in Nat /\ Slots(n) \subseteq Slots(MaxPipes)
  BY ChildFacts DEF Slots
<1>2. PICK z : z = Sub!ChildTable(t, in, out, cl)
  OBVIOUS
<1>3. /\ z \in [Nums -> Slots(n)]
      /\ \A j \in Nums : z[j] = IF j = 0 THEN t[Sub!Or(in, 0)] ELSE IF j = 1 THEN t[Sub!Or(out, 1)]
                                ELSE IF j \in {in, out, cl} THEN Sub!Free ELSE t[j]
  BY <1>1, <1>2, ChildTableProperties
<1>4. 0 \in Nums /\ 1 \in Nums /\ z[0] = e1 /\ z[1] = e2
  <2>1. 0 \in Nums /\ 1 \in Nums
    BY ChildFacts
  <2>2. z[0] = t[Sub!Or(in, 0)] /\ z[1] = t[Sub!Or(out, 1)]
    BY <1>3, <2>1
  <2> QED
    BY <2>1, <2>2 DEF ToBeWired
<1>5. z \in [Nums -> Slots(MaxPipes)] /\ e1 \in Slots(MaxPipes) /\ e2 \in Slots(MaxPipes)
  BY <1>1, <1>3, <1>4
<1>6. ASSUME NEW j \in Nums, e1[2] = "r" PROVE z[j] # <<e1[1], "w">>
  <2>1. CASE j = 0
    BY <1>4, <1>6, <2>1
  <2>2. CASE j = 1
    BY <1>4, <1>6, <2>2 DEF ToBeWired
  <2>3. CASE j \notin {0, 1}
    <3>1. z[j] = IF j \in {in, out, cl} THEN Sub!Free ELSE t[j]
      BY <1>3, <2>3
    <3>2. t[j] = <<e1[1], "w">> => j \in {in, out, cl}
      BY <1>6 DEF ToBeWired
    <3>3. <<e1[1], "w">> # Sub!Free
      BY ChildFacts
    <3> QED
      BY <3>1, <3>2, <3>3
  <2> QED
    BY <2>1, <2>2, <2>3
<1>7. ASSUME NEW j \in Nums, e2[2] = "w" PROVE z[j] # <<e2[1], "r">>
  <2>1. CASE j = 0
    BY <1>4, <1>7, <2>1 DEF ToBeWired
  <2>2. CASE j = 1
    BY <1>4, <1>7, <2>2
  <2>3. CASE j \notin {0, 1}
    <3>1. z[j] = IF j \in {in, out, cl} THEN Sub!Free ELSE t[j]
      BY <1>3, <2>3
    <3>2. t[j] = <<e2[1], "r">> => j \in {in, out, cl}
      BY <1>7 DEF ToBeWired
    <3>3. <<e2[1], "r">> # Sub!Free
      BY ChildFacts
    <3> QED
      BY <3>1, <3>2, <3>3
  <2> QED
    BY <2>1, <2>2, <2>3
<1>8. ch.state = "running" /\ ch.code = 0 /\ ch.ends = <<e1, e2>> /\ ch.fds = z
  BY <1>2
<1> QED
  BY <1>2, <1>4, <1>5, <1>6, <1>7, <1>8 DEF Child, Wired

\* The parent gives up the ends that the child has now.
LEMMA ParentTableKeeps ==
    ASSUME NEW t, NEW n, NEW c, NEW m, ParentOK(t, n, c, m), NEW in \in Named \cup {Sub!Invalid},
           NEW out \in Named \cup {Sub!Invalid}, NEW flags, "NoCloseOutput" \notin flags,
           in # Sub!Invalid => "NoCloseInput" \notin flags,
           \A o \in SubProcesses : m[o] # Sub!Invalid => m[o] # in /\ m[o] # out
    PROVE  ParentOK(Sub!ParentTable(t, in, out, flags), n, c, m)
<1>1. ParentOK(Sub!Closed(t, in), n, c, m)
  BY CloseEndKeeps
<1>2. ParentOK(Sub!Closed(Sub!Closed(t, in), out), n, c, m)
  BY <1>1, CloseEndKeeps
<1>3. ASSUME NEW s, DOMAIN s = Nums PROVE Sub!Closed(s, Sub!Invalid) = s
  BY <1>3, ChildFacts DEF Sub!Closed
<1>4. DOMAIN t = Nums /\ DOMAIN Sub!Closed(t, in) = Nums
  BY <1>1 DEF ParentOK, TableOK
<1>5. Sub!ParentTable(t, in, out, flags) = Sub!Closed(Sub!Closed(t, in), out)
  BY <1>3, <1>4 DEF Sub!ParentTable
<1> QED
  BY <1>2, <1>5

\* One more child, for an object.
LEMMA NewChildKeeps ==
    ASSUME NEW pr, NEW ob, NEW n, ProcsOK(pr), ObjsOK(ob, pr, n), Len(pr) < MaxProcs, NEW ch \in Child, Wired(ch),
           ch.state = "running", NEW o \in SubProcesses, NEW mine \in 0..n
    PROVE  /\ ProcsOK(Append(pr, ch))
           /\ ObjsOK([ob EXCEPT ![o] = [sub |-> Len(pr) + 1, status |-> Sub!NoStatus, pipe |-> mine, started |-> TRUE]],
                     Append(pr, ch), n)
<1> DEFINE x == Append(pr, ch)
           r == [sub |-> Len(pr) + 1, status |-> Sub!NoStatus, pipe |-> mine, started |-> TRUE]
           b == [ob EXCEPT ![o] = r]
<1>1. /\ pr \in Seq(Child) /\ Len(pr) \in Nat /\ DOMAIN pr = 1..Len(pr)
      /\ \A k \in DOMAIN pr : pr[k].state = "running" => Wired(pr[k])
  BY DEF ProcsOK
<1>2. /\ x \in Seq(Child) /\ Len(x) = Len(pr) + 1 /\ DOMAIN x = 1..(Len(pr) + 1)
      /\ x[Len(pr) + 1] = ch /\ \A k \in DOMAIN pr : x[k] = pr[k]
  BY <1>1
<1> HIDE DEF x
<1>3. \A k \in DOMAIN x : k \in DOMAIN pr \/ k = Len(pr) + 1
  BY <1>1, <1>2
<1>4. ProcsOK(x)
  <2>1. Len(x) <= MaxProcs
    BY <1>1, <1>2, ChildFacts
  <2> QED
    BY <1>1, <1>2, <1>3, <2>1 DEF ProcsOK
<1>5. r \in [sub : Nat \cup {-1}, status : {Sub!NoStatus, 0, 15, 255}, pipe : 0..n, started : BOOLEAN] /\ r.sub = Len(pr) + 1
  BY <1>1
<1> HIDE DEF r
<1>6. /\ b \in [SubProcesses -> [sub : Nat \cup {-1}, status : {Sub!NoStatus, 0, 15, 255}, pipe : 0..n, started : BOOLEAN]]
      /\ b[o] = r /\ \A q \in SubProcesses : q # o => b[q] = ob[q]
  BY <1>5 DEF ObjsOK
<1> HIDE DEF b
<1>7. \A q \in SubProcesses : b[q].sub > 0 => b[q].sub \in DOMAIN x /\ x[b[q].sub].state # "reaped"
  <2>1. Len(pr) + 1 \in DOMAIN x /\ x[Len(pr) + 1].state # "reaped"
    BY <1>1, <1>2
  <2>2. \A k \in DOMAIN pr : k \in DOMAIN x /\ x[k] = pr[k]
    BY <1>1, <1>2
  <2> QED
    BY <1>5, <1>6, <2>1, <2>2 DEF ObjsOK
<1>8. \A q \in SubProcesses : ob[q].sub > 0 => ob[q].sub # Len(pr) + 1
  BY <1>1 DEF ObjsOK
<1>9. \A q, s \in SubProcesses : b[q].sub = b[s].sub /\ b[q].sub > 0 => q = s
  BY SMTT(30), <1>5, <1>6, <1>8 DEF ObjsOK
<1> QED
  BY <1>4, <1>6, <1>7, <1>9 DEF ObjsOK, x, b, r

\* Before a fork (): the children and the objects are as they should be.
MayRun(n) == ProcsOK(proc) /\ ObjsOK(obj, proc, n) /\ strays = {} /\ Len(proc) < MaxProcs

\* What a fork () is given: no number of a PipeCmd, and what the child gets is not
\* kept by the parent.
Given(m, in, out, cl, flags) ==
    /\ {in, out, cl} \subseteq Named \cup {Sub!Invalid}
    /\ "NoCloseOutput" \notin flags /\ (in # Sub!Invalid => "NoCloseInput" \notin flags)
    /\ \A q \in SubProcesses : m[q] # Sub!Invalid => m[q] # in /\ m[q] # out

\* fork () and what both sides do then.
LEMMA SysrunKeeps ==
    ASSUME NEW t, NEW n, NEW c, NEW m, ParentOK(t, n, c, m), MayRun(n), NEW o \in SubProcesses, NEW mine \in 0..n,
           NEW in, NEW out, NEW cl, NEW flags, NEW e1, NEW e2,
           Given(m, in, out, cl, flags), ToBeWired(t, in, out, cl, e1, e2),
           Sub!sysrun(o, t, in, out, cl, flags, <<e1, e2>>, mine)
    PROVE  ParentOK(fds', n, c, m) /\ ProcsOK(proc') /\ ObjsOK(obj', proc', n) /\ strays' = {}
<1>0. /\ in \in Named \cup {Sub!Invalid} /\ out \in Named \cup {Sub!Invalid} /\ cl \in Named \cup {Sub!Invalid}
      /\ "NoCloseOutput" \notin flags /\ (in # Sub!Invalid => "NoCloseInput" \notin flags)
      /\ \A q \in SubProcesses : m[q] # Sub!Invalid => m[q] # in /\ m[q] # out
      /\ ProcsOK(proc) /\ ObjsOK(obj, proc, n) /\ strays = {} /\ Len(proc) < MaxProcs
  BY DEF Given, MayRun
<1>1. PICK ch : ch = [state |-> "running", code |-> 0, ends |-> <<e1, e2>>,
                      fds |-> Sub!ChildTable(t, in, out, cl)]
  OBVIOUS
<1>2. ch \in Child /\ Wired(ch) /\ ch.state = "running"
  <2>1. n \in 0..MaxPipes /\ TableOK(t, n)
    BY DEF ParentOK
  <2>2. ch \in Child /\ Wired(ch)
    BY <1>0, <1>1, <2>1, ForkWires
  <2> QED
    BY <1>1, <2>2
<1>3. t[Sub!Or(in, 0)] # Sub!Free /\ t[Sub!Or(out, 1)] # Sub!Free
  BY DEF ToBeWired
<1>4. /\ proc' = Append(proc, ch)
      /\ fds' = Sub!ParentTable(t, in, out, flags)
      /\ obj' = [obj EXCEPT ![o] = [sub |-> Len(proc) + 1, status |-> Sub!NoStatus, pipe |-> mine, started |-> TRUE]]
      /\ strays' = strays \cup
            (IF \/ Sub!Hit(t, in, e1) /\ "NoCloseInput" \notin flags
                \/ Sub!Hit(t, out, e2) /\ "NoCloseOutput" \notin flags THEN {"close"} ELSE {})
  BY <1>1, <1>3 DEF Sub!sysrun
<1>5. ParentOK(fds', n, c, m)
  BY <1>0, <1>4, ParentTableKeeps
<1>6. ~Sub!Hit(t, in, e1) /\ ~Sub!Hit(t, out, e2)
  BY DEF ToBeWired, Sub!Hit, Sub!Or
<1>7. strays' = {}
  BY <1>0, <1>4, <1>6
<1>8. ProcsOK(proc') /\ ObjsOK(obj', proc', n)
  BY <1>0, <1>2, <1>4, NewChildKeeps
<1> QED
  BY <1>5, <1>7, <1>8

LEMMA ObjsGrow ==
    ASSUME NEW ob, NEW pr, NEW n \in Nat, NEW k \in Nat, n <= k, ObjsOK(ob, pr, n)
    PROVE  ObjsOK(ob, pr, k)
BY DEF ObjsOK

\* fork () fails: the object has no child.
LEMMA ForkFailsKeeps ==
    ASSUME NEW t, NEW n, NEW c, NEW m, ParentOK(t, n, c, m), ProcsOK(proc), ObjsOK(obj, proc, n), strays = {},
           NEW o \in SubProcesses, NEW mine \in 0..n, Sub!ForkFails(o, t, mine)
    PROVE  ParentOK(fds', n, c, m) /\ ProcsOK(proc') /\ ObjsOK(obj', proc', n) /\ strays' = {}
<1>1. /\ fds' = t /\ proc' = proc /\ strays' = {}
      /\ obj' = [obj EXCEPT ![o] = [sub |-> -1, status |-> Sub!NoStatus, pipe |-> mine, started |-> TRUE]]
  BY DEF Sub!ForkFails
<1>2. ObjsOK(obj', proc', n)
  BY <1>1 DEF ObjsOK
<1> QED
  BY <1>1, <1>2

\* A run () that makes a pipe has no other channel to clean up.
LEMMA DorunKeeps ==
    ASSUME ChildInv, pc = Sub!Idle, NEW o \in SubProcesses, Sub!Detached(o),
           NEW in, NEW out, NEW cl, NEW flags, NEW e1, NEW e2,
           Given(cmd, in, out, cl, flags), ToBeWired(fds, in, out, cl, e1, e2),
           out = Sub!Invalid /\ ("Read" \in flags \/ "Last" \notin flags) => cl = Sub!Invalid,
           Sub!dorun(o, in, out, cl, flags, <<e1, e2>>)
    PROVE  ChildInv'
<1> DEFINE made == out = Sub!Invalid /\ ("Read" \in flags \/ "Last" \notin flags)
           k == npipes + 1
           new == Sub!PipeOpens(fds, k)
           mine == IF made THEN k ELSE Sub!NoPipe
           drop == [chan EXCEPT ![obj[o].pipe] = Sub!NoNumbers]
<1>1. /\ ParentOK(fds, npipes, chan, cmd) /\ ProcsOK(proc) /\ ObjsOK(obj, proc, npipes)
      /\ ~failed /\ strays = {} /\ npipes \in 0..MaxPipes /\ npipes \in Nat
  BY ChildFacts DEF ChildInv, ParentOK
<1>2. /\ in \in Named \cup {Sub!Invalid} /\ out \in Named \cup {Sub!Invalid} /\ cl \in Named \cup {Sub!Invalid}
      /\ "NoCloseOutput" \notin flags /\ (in # Sub!Invalid => "NoCloseInput" \notin flags)
      /\ \A q \in SubProcesses : cmd[q] # Sub!Invalid => cmd[q] # in /\ cmd[q] # out
  BY DEF Given
<1>3. ParentOK(fds, npipes, drop, cmd)
  BY <1>1, DropKeeps
<1>4. /\ cmd' = cmd /\ pc' = pc /\ failed' = failed /\ Len(proc) < MaxProcs
  BY DEF Sub!dorun
<1>5. chan \in [Sub!Pipes -> [source : Named \cup {Sub!Invalid}, sink : Named \cup {Sub!Invalid}]]
  BY <1>1 DEF ParentOK, ChannelsOK
<1>6. SUFFICES /\ ParentOK(fds', npipes', chan', cmd) /\ ProcsOK(proc') /\ ObjsOK(obj', proc', npipes') /\ strays' = {}
  BY <1>1, <1>4, <1>6 DEF ChildInv
<1>7. CASE made
  <2>1. /\ npipes < MaxPipes /\ npipes' = k
        /\ chan' = [p \in Sub!Pipes |-> IF p = k THEN [source |-> new.source, sink |-> new.sink]
                                        ELSE IF p = obj[o].pipe THEN Sub!NoNumbers ELSE chan[p]]
        /\ \/ Sub!sysrun(o, new.table, in, new.sink, new.source, flags, <<e1, Sub!End(k, "w")>>, k)
           \/ Sub!ForkFails(o, new.table, k)
    BY <1>7 DEF Sub!dorun
  <2>2. PICK c : c = [drop EXCEPT ![k] = [source |-> new.source, sink |-> new.sink]]
    OBVIOUS
  <2>a. PICK x : x = new
    OBVIOUS
  <2>b. x = Sub!PipeOpens(fds, npipes + 1) /\ npipes < MaxPipes
    BY <2>1, <2>a
  <2>c. /\ npipes \in Nat /\ npipes + 1 \in Sub!Pipes
        /\ x.source \in Named /\ x.sink \in Named /\ x.source # x.sink
        /\ fds[x.source] = Sub!Free /\ fds[x.sink] = Sub!Free
        /\ \A i \in Nums : x.table[i] = IF i = x.source THEN <<npipes + 1, "r">>
                                          ELSE IF i = x.sink THEN <<npipes + 1, "w">> ELSE fds[i]
        /\ \A i \in Nums : fds[i] # <<npipes + 1, "r">> /\ fds[i] # <<npipes + 1, "w">>
        /\ \A q \in SubProcesses : cmd[q] # Sub!Invalid => cmd[q] # x.source /\ cmd[q] # x.sink
        /\ ParentOK(x.table, npipes + 1, [drop EXCEPT ![npipes + 1] = [source |-> x.source, sink |-> x.sink]], cmd)
    <3> HIDE DEF drop
    <3> QED
      BY <1>3, <2>b, NewPipeKeeps
  <2>3. /\ npipes \in Nat /\ k \in Sub!Pipes
        /\ new.source \in Named /\ new.sink \in Named /\ new.source # new.sink
        /\ fds[new.source] = Sub!Free /\ fds[new.sink] = Sub!Free
        /\ \A i \in Nums : new.table[i] = IF i = new.source THEN <<k, "r">>
                                          ELSE IF i = new.sink THEN <<k, "w">> ELSE fds[i]
        /\ \A i \in Nums : fds[i] # <<k, "r">> /\ fds[i] # <<k, "w">>
        /\ \A q \in SubProcesses : cmd[q] # Sub!Invalid => cmd[q] # new.source /\ cmd[q] # new.sink
        /\ ParentOK(new.table, k, c, cmd)
    BY <2>2, <2>a, <2>c
  <2>4. chan' = c
    BY <1>5, <2>1, <2>2
  <2>5. ObjsOK(obj, proc, k)
    BY <1>1, ObjsGrow
  <2>6. k \in 0..k
    BY <1>1
  <2>7. CASE Sub!ForkFails(o, new.table, k)
    <3> HIDE DEF new, k, drop, made
    <3> QED
      BY <1>1, <2>1, <2>3, <2>4, <2>5, <2>6, <2>7, ForkFailsKeeps
  <2>8. CASE Sub!sysrun(o, new.table, in, new.sink, new.source, flags, <<e1, Sub!End(k, "w")>>, k)
    <3> HIDE DEF new
    <3>1. ToBeWired(new.table, in, new.sink, new.source, e1, <<k, "w">>)
      <4>1. /\ Named \subseteq Nums /\ Sub!Invalid \notin Nums /\ 0 \in Nums /\ 0 \notin Named
            /\ <<k, "w">> # Sub!Free /\ Sub!Or(new.sink, 1) = new.sink
        BY <2>3, ChildFacts DEF Sub!Or
      <4>2. Sub!Or(in, 0) \in Nums /\ fds[Sub!Or(in, 0)] = e1 /\ e1 # Sub!Free
        BY <1>2, <4>1 DEF ToBeWired, Sub!Or
      <4>3. new.table[Sub!Or(in, 0)] = e1 /\ new.table[new.sink] = <<k, "w">>
        BY <2>3, <4>1, <4>2
      <4>4. ASSUME NEW j \in Nums, e1[2] = "r", new.table[j] = <<e1[1], "w">>
            PROVE  j \in {in, new.sink, new.source}
        <5>1. CASE j \notin {new.sink, new.source}
          <6>1. fds[j] = <<e1[1], "w">>
            BY <2>3, <4>4, <5>1
          <6>2. j \in {in, out, cl} /\ j # Sub!Invalid
            BY <4>1, <4>4, <6>1 DEF ToBeWired
          <6> QED
            BY <1>7, <6>2
        <5> QED
          BY <5>1
      <4>5. ASSUME NEW j \in Nums, new.table[j] = <<k, "r">>
            PROVE  j \in {in, new.sink, new.source}
        BY <2>3, <4>5
      <4>6. ~(e1[2] = "r" /\ e1[1] = k)
        <5>1. fds \in [Nums -> Slots(npipes)]
          BY <1>1 DEF ParentOK, TableOK
        <5>2. e1 \in {Sub!Free, Sub!Tty} \/ \E p \in 1..npipes, e \in {"r", "w"} : e1 = <<p, e>>
          BY <4>2, <5>1 DEF Slots
        <5>3. e1 = Sub!Tty => e1[2] # "r"
          BY ChildFacts
        <5>4. \A p \in 1..npipes, e \in {"r", "w"} : e1 = <<p, e>> => e1[1] # k
          BY <1>1
        <5> QED
          BY <4>2, <5>2, <5>3, <5>4
      <4> HIDE DEF k
      <4> QED
        BY <4>1, <4>2, <4>3, <4>4, <4>5, <4>6 DEF ToBeWired
    <3>2. Sub!End(k, "w") = <<k, "w">>
      BY ChildFacts
    <3> HIDE DEF k, drop, made
    <3>3. Given(cmd, in, new.sink, new.source, flags)
      BY <1>2, <2>3 DEF Given
    <3>4. Sub!sysrun(o, new.table, in, new.sink, new.source, flags, <<e1, <<k, "w">>>>, k)
      BY <2>8, <3>2
    <3>5. MayRun(k)
      BY <1>1, <1>4, <2>5 DEF MayRun
    <3>6. ParentOK(fds', k, c, cmd) /\ ProcsOK(proc') /\ ObjsOK(obj', proc', k) /\ strays' = {}
      BY <2>3, <2>6, <3>1, <3>3, <3>4, <3>5, SysrunKeeps
    <3> QED
      BY <2>1, <2>4, <3>6
  <2> QED
    BY <2>1, <2>7, <2>8
<1>8. CASE ~made
  <2>1. /\ npipes' = npipes
        /\ chan' = [p \in Sub!Pipes |-> IF p = Sub!NoPipe THEN [source |-> new.source, sink |-> new.sink]
                                        ELSE IF p = obj[o].pipe THEN Sub!NoNumbers ELSE chan[p]]
        /\ \/ Sub!sysrun(o, fds, in, out, cl, flags, <<e1, e2>>, Sub!NoPipe)
           \/ Sub!ForkFails(o, fds, Sub!NoPipe)
    BY <1>8 DEF Sub!dorun
  <2>2. chan' = drop
    <3>1. Sub!NoPipe \notin Sub!Pipes
      BY ChildFacts DEF Sub!NoPipe
    <3>2. chan' = [p \in Sub!Pipes |-> IF p = obj[o].pipe THEN Sub!NoNumbers ELSE chan[p]]
      BY <2>1, <3>1
    <3> QED
      BY <1>5, <3>2
  <2>3. Sub!NoPipe \in 0..npipes
    BY <1>1 DEF Sub!NoPipe
  <2> HIDE DEF drop, made, new
  <2>4. CASE Sub!ForkFails(o, fds, Sub!NoPipe)
    BY <1>1, <1>3, <2>1, <2>2, <2>3, <2>4, ForkFailsKeeps
  <2>5. CASE Sub!sysrun(o, fds, in, out, cl, flags, <<e1, e2>>, Sub!NoPipe)
    <3>1. MayRun(npipes)
      BY <1>1, <1>4 DEF MayRun
    <3>2. ParentOK(fds', npipes, drop, cmd) /\ ProcsOK(proc') /\ ObjsOK(obj', proc', npipes) /\ strays' = {}
      BY <1>3, <2>3, <2>5, <3>1, SysrunKeeps
    <3> QED
      BY <2>1, <2>2, <3>2
  <2> QED
    BY <2>1, <2>4, <2>5
<1> QED
  BY <1>7, <1>8

\* The two calls of run () that take a channel take the number of a live end, and
\* the other channel has the number of the other end.
LEMMA LiveEnds ==
    ASSUME ChildInv, NEW p \in Sub!Pipes
    PROVE  /\ Sub!Source(p) \in Named \cup {Sub!Invalid} /\ Sub!Sink(p) \in Named \cup {Sub!Invalid}
           /\ Sub!Live(p, "r") => /\ Sub!Source(p) \in Named /\ fds[Sub!Source(p)] = <<p, "r">>
                                  /\ \A j \in Nums : fds[j] = <<p, "w">> => j = Sub!Sink(p)
                                  /\ \A q \in SubProcesses : cmd[q] # Sub!Invalid => cmd[q] # Sub!Source(p)
           /\ Sub!Live(p, "w") => /\ Sub!Sink(p) \in Named /\ fds[Sub!Sink(p)] = <<p, "w">>
                                  /\ \A j \in Nums : fds[j] = <<p, "r">> => j = Sub!Source(p)
                                  /\ \A q \in SubProcesses : cmd[q] # Sub!Invalid => cmd[q] # Sub!Sink(p)
<1>1. ChannelsOK(fds, npipes, chan) /\ CmdsOK(fds, npipes, chan, cmd)
  BY DEF ChildInv, ParentOK
<1>2. chan[p].source \in Named \cup {Sub!Invalid} /\ chan[p].sink \in Named \cup {Sub!Invalid}
  BY <1>1 DEF ChannelsOK
<1>3. ASSUME NEW q \in SubProcesses, NEW e \in {"r", "w"}, cmd[q] # Sub!Invalid, fds[cmd[q]] = <<p, e>>
      PROVE  chan[p] = Sub!NoNumbers
  BY <1>1, <1>3, ChildFacts DEF CmdsOK
<1>4. Sub!NoNumbers.source = Sub!Invalid /\ Sub!NoNumbers.sink = Sub!Invalid
  BY DEF Sub!NoNumbers
<1>5. ASSUME Sub!Live(p, "r")
      PROVE  /\ chan[p].source \in Named /\ fds[chan[p].source] = <<p, "r">>
             /\ \A j \in Nums : fds[j] = <<p, "w">> => j = chan[p].sink
             /\ \A q \in SubProcesses : cmd[q] # Sub!Invalid => cmd[q] # chan[p].source
  <2>1. chan[p].source # Sub!Invalid /\ fds[chan[p].source] = <<p, "r">>
    BY <1>5, ChildFacts DEF Sub!Live, Sub!Source
  <2> QED
    BY <1>1, <1>2, <1>3, <1>4, <2>1 DEF ChannelsOK
<1>6. ASSUME Sub!Live(p, "w")
      PROVE  /\ chan[p].sink \in Named /\ fds[chan[p].sink] = <<p, "w">>
             /\ \A j \in Nums : fds[j] = <<p, "r">> => j = chan[p].source
             /\ \A q \in SubProcesses : cmd[q] # Sub!Invalid => cmd[q] # chan[p].sink
  <2>1. chan[p].sink # Sub!Invalid /\ fds[chan[p].sink] = <<p, "w">>
    BY <1>6, ChildFacts DEF Sub!Live, Sub!Sink
  <2> QED
    BY <1>1, <1>2, <1>3, <1>4, <2>1 DEF ChannelsOK
<1> QED
  BY <1>2, <1>5, <1>6 DEF Sub!Source, Sub!Sink

\* What a client that keeps the rules has seen to when it calls run ().
LEMMA MayForkMeans ==
    ASSUME SafeRules \subseteq Rules, ChildInv, NEW o \in SubProcesses, NEW p \in Nat, Sub!MayFork(o, p)
    PROVE  /\ pc = Sub!Idle /\ Sub!Detached(o)
           /\ \A q \in Sub!Pipes, j \in Nums : q # p => fds[j] # <<q, "w">>
           /\ fds[0] = Sub!Tty /\ fds[1] = Sub!Tty /\ Sub!Tty # Sub!Free /\ Sub!Tty[2] = "tty"
<1>1. pc = Sub!Idle /\ Sub!Detached(o) /\ Sub!Held \subseteq {p}
  BY DEF Sub!MayFork, Sub!Rule, Sub!Detached, SafeRules
<1>2. \A q \in Sub!Pipes, j \in Nums : q # p => fds[j] # <<q, "w">>
  BY <1>1, ChildFacts DEF Sub!Held, Nums
<1>3. fds[0] = Sub!Tty /\ fds[1] = Sub!Tty
  BY ChildFacts DEF ChildInv, ParentOK, TableOK
<1> QED
  BY <1>1, <1>2, <1>3, ChildFacts

LEMMA RunKeeps ==
    ASSUME SafeRules \subseteq Rules, ChildInv, NEW o \in SubProcesses, NEW flags \in SUBSET {"Last"},
           Sub!Run(o, flags)
    PROVE  ChildInv'
<1>1. Sub!MayFork(o, 0) /\ Sub!dorun(o, Sub!Invalid, Sub!Invalid, Sub!Invalid, flags, <<Sub!Tty, Sub!Tty>>)
  BY DEF Sub!Run, Sub!NoPipe
<1>2. /\ pc = Sub!Idle /\ Sub!Detached(o) /\ fds[0] = Sub!Tty /\ fds[1] = Sub!Tty
      /\ Sub!Tty # Sub!Free /\ Sub!Tty[2] = "tty"
  BY <1>1, MayForkMeans
<1>3. ToBeWired(fds, Sub!Invalid, Sub!Invalid, Sub!Invalid, Sub!Tty, Sub!Tty)
  BY <1>2 DEF ToBeWired, Sub!Or
<1>4. Given(cmd, Sub!Invalid, Sub!Invalid, Sub!Invalid, flags)
  BY DEF Given
<1> QED
  BY <1>1, <1>2, <1>3, <1>4, DorunKeeps

LEMMA RunPipeKeeps ==
    ASSUME SafeRules \subseteq Rules, ChildInv, NEW o \in SubProcesses, NEW p \in Sub!Pipes,
           NEW last \in SUBSET {"Last"}, NEW mode \in {"Read", "Write"}, Sub!RunPipe(o, p, last \cup {mode})
    PROVE  ChildInv'
<1> DEFINE flags == last \cup {mode}
<1>1. /\ Sub!MayFork(o, p) /\ "Last" \in flags /\ "NoCloseOutput" \notin flags /\ "NoCloseInput" \notin flags
      /\ p \in Nat
  <2>1. Sub!MayFork(o, p) /\ Sub!Rule("last with pipe", "Last" \in flags)
    BY DEF Sub!RunPipe
  <2>2. "Last" \in flags
    BY <2>1 DEF Sub!Rule, SafeRules
  <2>3. p \in Nat
    BY ChildFacts
  <2> QED
    BY <2>1, <2>2, <2>3
<1>2. /\ pc = Sub!Idle /\ Sub!Detached(o) /\ fds[0] = Sub!Tty /\ fds[1] = Sub!Tty
      /\ Sub!Tty # Sub!Free /\ Sub!Tty[2] = "tty"
  BY <1>1, MayForkMeans
<1>3. \A e : Sub!End(p, e) = <<p, e>>
  BY ChildFacts
<1>4. /\ Sub!Source(p) \in Named \cup {Sub!Invalid} /\ Sub!Sink(p) \in Named \cup {Sub!Invalid}
      /\ Sub!Invalid \notin Named /\ <<p, "r">> # Sub!Free /\ <<p, "w">> # Sub!Free
  BY LiveEnds, ChildFacts
<1>5. CASE mode = "Read"
  <2>1. /\ Sub!Live(p, "w")
        /\ Sub!dorun(o, Sub!Invalid, Sub!Sink(p), Sub!Source(p), flags \cup {"NoCloseInput"}, <<Sub!Tty, <<p, "w">>>>)
    BY <1>3, <1>5 DEF Sub!RunPipe, Sub!Rule, SafeRules
  <2>2. /\ Sub!Sink(p) \in Named /\ fds[Sub!Sink(p)] = <<p, "w">>
        /\ \A j \in Nums : fds[j] = <<p, "r">> => j = Sub!Source(p)
        /\ \A q \in SubProcesses : cmd[q] # Sub!Invalid => cmd[q] # Sub!Sink(p)
    BY <2>1, LiveEnds
  <2>3. ToBeWired(fds, Sub!Invalid, Sub!Sink(p), Sub!Source(p), Sub!Tty, <<p, "w">>)
    BY <1>2, <1>4, <2>2 DEF ToBeWired, Sub!Or
  <2>4. Given(cmd, Sub!Invalid, Sub!Sink(p), Sub!Source(p), flags \cup {"NoCloseInput"})
    BY <1>1, <1>4, <2>2 DEF Given
  <2>5. Sub!Sink(p) # Sub!Invalid
    BY <1>4, <2>2
  <2> QED
    BY <1>2, <2>1, <2>3, <2>4, <2>5, DorunKeeps
<1>6. CASE mode = "Write"
  <2>1. /\ Sub!Live(p, "r") /\ "Read" \notin flags
        /\ Sub!dorun(o, Sub!Source(p), Sub!Invalid, Sub!Sink(p), flags, <<<<p, "r">>, Sub!Tty>>)
    BY <1>3, <1>6 DEF Sub!RunPipe, Sub!Rule, SafeRules
  <2>2. /\ Sub!Source(p) \in Named /\ fds[Sub!Source(p)] = <<p, "r">>
        /\ \A j \in Nums : fds[j] = <<p, "w">> => j = Sub!Sink(p)
        /\ \A q \in SubProcesses : cmd[q] # Sub!Invalid => cmd[q] # Sub!Source(p)
    BY <2>1, LiveEnds
  <2>3. ToBeWired(fds, Sub!Source(p), Sub!Invalid, Sub!Sink(p), <<p, "r">>, Sub!Tty)
    BY <1>2, <1>4, <2>2 DEF ToBeWired, Sub!Or
  <2>4. Given(cmd, Sub!Source(p), Sub!Invalid, Sub!Sink(p), flags)
    BY <1>1, <1>4, <2>2 DEF Given
  <2> HIDE DEF flags
  <2> QED
    BY <1>1, <1>2, <2>1, <2>3, <2>4, DorunKeeps
<1> QED
  BY <1>5, <1>6

LEMMA RunSubKeeps ==
    ASSUME SafeRules \subseteq Rules, ChildInv, NEW o \in SubProcesses, NEW other \in SubProcesses,
           NEW flags \in SUBSET {"Last"}, Sub!RunSub(o, other, flags)
    PROVE  ChildInv'
<1> DEFINE p == obj[other].pipe
<1>1. p \in Sub!Pipes
  <2>1. p # 0
    BY DEF Sub!RunSub, Sub!NoPipe
  <2>2. p \in 0..npipes /\ npipes \in 0..MaxPipes
    BY DEF ChildInv, ObjsOK, ParentOK
  <2> HIDE DEF p
  <2> QED
    BY <2>1, <2>2, ChildFacts
<1>2. /\ Sub!MayFork(o, 0) /\ Sub!Live(p, "r")
      /\ Sub!dorun(o, Sub!Source(p), Sub!Invalid, Sub!Invalid, flags, <<<<p, "r">>, Sub!Tty>>)
  BY ChildFacts DEF Sub!RunSub, Sub!NoPipe, Sub!Rule, SafeRules
<1> HIDE DEF p
<1>3. /\ pc = Sub!Idle /\ Sub!Detached(o) /\ fds[0] = Sub!Tty /\ fds[1] = Sub!Tty
      /\ Sub!Tty # Sub!Free /\ Sub!Tty[2] = "tty"
      /\ \A q \in Sub!Pipes, j \in Nums : q # 0 => fds[j] # <<q, "w">>
  BY <1>2, MayForkMeans
<1>4. /\ Sub!Source(p) \in Named /\ fds[Sub!Source(p)] = <<p, "r">> /\ Sub!Invalid \notin Named
      /\ \A q \in SubProcesses : cmd[q] # Sub!Invalid => cmd[q] # Sub!Source(p)
      /\ p # 0 /\ <<p, "r">> # Sub!Free
  BY <1>1, <1>2, LiveEnds, ChildFacts
<1>5. ToBeWired(fds, Sub!Source(p), Sub!Invalid, Sub!Invalid, <<p, "r">>, Sub!Tty)
  BY <1>1, <1>3, <1>4 DEF ToBeWired, Sub!Or
<1>6. Given(cmd, Sub!Source(p), Sub!Invalid, Sub!Invalid, flags)
  BY <1>4 DEF Given
<1> QED
  BY <1>2, <1>3, <1>5, <1>6, DorunKeeps

LEMMA CmdOpenKeeps ==
    ASSUME SafeRules \subseteq Rules, ChildInv, NEW o \in SubProcesses, NEW mode \in {"Read", "Write"},
           Sub!CmdOpen(o, mode)
    PROVE  ChildInv'
<1> DEFINE k == npipes + 1
<1>1. /\ ParentOK(fds, npipes, chan, cmd) /\ ProcsOK(proc) /\ ObjsOK(obj, proc, npipes)
      /\ ~failed /\ strays = {} /\ npipes \in 0..MaxPipes /\ npipes \in Nat
  BY ChildFacts DEF ChildInv, ParentOK
<1>2. PICK new : new = Sub!PipeOpens(fds, npipes + 1)
  OBVIOUS
<1>3. /\ Sub!MayFork(o, 0) /\ npipes < MaxPipes /\ Len(proc) < MaxProcs /\ npipes' = k
      /\ chan' = chan /\ pc' = pc /\ failed' = failed
  BY DEF Sub!CmdOpen, Sub!NoPipe
<1>4. /\ pc = Sub!Idle /\ Sub!Tty # Sub!Free /\ Sub!Tty[2] = "tty"
  BY <1>3, MayForkMeans
<1>5. /\ new.source \in Named /\ new.sink \in Named /\ new.source # new.sink
      /\ \A i \in Nums : new.table[i] = IF i = new.source THEN <<npipes + 1, "r">>
                                        ELSE IF i = new.sink THEN <<npipes + 1, "w">> ELSE fds[i]
      /\ \A i \in Nums : fds[i] # <<npipes + 1, "r">> /\ fds[i] # <<npipes + 1, "w">>
      /\ \A q \in SubProcesses : cmd[q] # Sub!Invalid => cmd[q] # new.source /\ cmd[q] # new.sink
      /\ ParentOK(new.table, npipes + 1, chan, cmd)
      /\ \A q \in SubProcesses, i \in {new.source, new.sink} :
             ParentOK(new.table, npipes + 1, chan, [cmd EXCEPT ![q] = i])
  <2>1. ParentOK(fds, npipes, chan, cmd) /\ npipes < MaxPipes
    BY <1>1, <1>3
  <2>2. /\ npipes \in Nat /\ npipes + 1 \in Sub!Pipes
        /\ new.source \in Named /\ new.sink \in Named /\ new.source # new.sink
        /\ fds[new.source] = Sub!Free /\ fds[new.sink] = Sub!Free
        /\ \A i \in Nums : new.table[i] = IF i = new.source THEN <<npipes + 1, "r">>
                                          ELSE IF i = new.sink THEN <<npipes + 1, "w">> ELSE fds[i]
        /\ \A i \in Nums : fds[i] # <<npipes + 1, "r">> /\ fds[i] # <<npipes + 1, "w">>
        /\ \A q \in SubProcesses : cmd[q] # Sub!Invalid => cmd[q] # new.source /\ cmd[q] # new.sink
        /\ ParentOK(new.table, npipes + 1, chan, cmd)
        /\ ParentOK(new.table, npipes + 1, [chan EXCEPT ![npipes + 1] = [source |-> new.source, sink |-> new.sink]], cmd)
        /\ \A q \in SubProcesses, i \in {new.source, new.sink} :
               ParentOK(new.table, npipes + 1, chan, [cmd EXCEPT ![q] = i])
    BY <1>2, <2>1, NewPipeKeeps
  <2> QED
    BY <2>2
<1>6. /\ Named \subseteq Nums /\ Sub!Invalid \notin Nums /\ <<k, "r">> # Sub!Free /\ <<k, "w">> # Sub!Free
      /\ \A e : Sub!End(k, e) = <<k, e>>
      /\ Sub!Or(Sub!Invalid, 0) = 0 /\ Sub!Or(Sub!Invalid, 1) = 1
      /\ Sub!Or(new.source, 0) = new.source /\ Sub!Or(new.sink, 1) = new.sink
  BY <1>5, ChildFacts DEF Sub!Or
<1>7. new.table[0] = Sub!Tty /\ new.table[1] = Sub!Tty
      /\ new.table[new.source] = <<k, "r">> /\ new.table[new.sink] = <<k, "w">>
  <2>1. TableOK(new.table, npipes + 1) /\ 0 \in Nums \ Named /\ 1 \in Nums \ Named
    BY <1>5, ChildFacts DEF ParentOK
  <2> QED
    BY <1>5, <1>6, <2>1 DEF TableOK
<1>8. MayRun(k)
  BY <1>1, <1>3, ObjsGrow DEF MayRun
<1>9. 0 \in 0..k
  BY <1>1
<1>10. cmd \in [SubProcesses -> Named \cup {Sub!Invalid}]
  BY <1>1 DEF ParentOK, CmdsOK
<1>11. CASE mode = "Read"
  <2>1. /\ Sub!sysrun(o, new.table, Sub!Invalid, new.sink, new.source, {"NoCloseInput"}, <<Sub!Tty, <<k, "w">>>>, 0)
        /\ cmd' = [cmd EXCEPT ![o] = new.source]
    BY <1>2, <1>6, <1>11 DEF Sub!CmdOpen, Sub!NoPipe
  <2>2. ParentOK(new.table, k, chan, cmd')
    BY <1>5, <2>1
  <2>3. Given(cmd', Sub!Invalid, new.sink, new.source, {"NoCloseInput"})
    BY <1>5, <1>6, <1>10, <2>1 DEF Given
  <2>4. ToBeWired(new.table, Sub!Invalid, new.sink, new.source, Sub!Tty, <<k, "w">>)
    BY <1>4, <1>5, <1>6, <1>7 DEF ToBeWired
  <2> HIDE DEF k
  <2>5. ParentOK(fds', k, chan, cmd') /\ ProcsOK(proc') /\ ObjsOK(obj', proc', k) /\ strays' = {}
    BY <1>8, <1>9, <2>1, <2>2, <2>3, <2>4, SysrunKeeps
  <2> QED
    BY <1>1, <1>3, <1>4, <2>5 DEF ChildInv
<1>12. CASE mode = "Write"
  <2>1. /\ Sub!sysrun(o, new.table, new.source, Sub!Invalid, new.sink, {}, <<<<k, "r">>, Sub!Tty>>, 0)
        /\ cmd' = [cmd EXCEPT ![o] = new.sink]
    BY <1>2, <1>6, <1>12 DEF Sub!CmdOpen, Sub!NoPipe
  <2>2. ParentOK(new.table, k, chan, cmd')
    BY <1>5, <2>1
  <2>3. Given(cmd', new.source, Sub!Invalid, new.sink, {})
    BY <1>5, <1>6, <1>10, <2>1 DEF Given
  <2>4. ToBeWired(new.table, new.source, Sub!Invalid, new.sink, <<k, "r">>, Sub!Tty)
    BY <1>4, <1>5, <1>6, <1>7 DEF ToBeWired
  <2> HIDE DEF k
  <2>5. ParentOK(fds', k, chan, cmd') /\ ProcsOK(proc') /\ ObjsOK(obj', proc', k) /\ strays' = {}
    BY <1>8, <1>9, <2>1, <2>2, <2>3, <2>4, SysrunKeeps
  <2> QED
    BY <1>1, <1>3, <1>4, <2>5 DEF ChildInv
<1> QED
  BY <1>11, <1>12

LEMMA NewPipeActionKeeps == ChildInv /\ Sub!NewPipe => ChildInv'
<1> SUFFICES ASSUME ChildInv, Sub!NewPipe PROVE ChildInv'
  OBVIOUS
<1>1. /\ ParentOK(fds, npipes, chan, cmd) /\ ProcsOK(proc) /\ ObjsOK(obj, proc, npipes)
      /\ ~failed /\ strays = {} /\ npipes \in 0..MaxPipes /\ npipes \in Nat /\ npipes < MaxPipes
  BY ChildFacts DEF ChildInv, ParentOK, Sub!NewPipe
<1>2. PICK new : new = Sub!PipeOpens(fds, npipes + 1)
  OBVIOUS
<1>3. /\ npipes' = npipes + 1 /\ fds' = new.table
      /\ chan' = [chan EXCEPT ![npipes + 1] = [source |-> new.source, sink |-> new.sink]]
      /\ proc' = proc /\ obj' = obj /\ cmd' = cmd /\ pc' = pc /\ failed' = failed /\ strays' = strays
  BY <1>2 DEF Sub!NewPipe
<1>4. /\ npipes \in Nat /\ npipes + 1 \in Sub!Pipes
      /\ new.source \in Named /\ new.sink \in Named /\ new.source # new.sink
      /\ fds[new.source] = Sub!Free /\ fds[new.sink] = Sub!Free
      /\ \A i \in Nums : new.table[i] = IF i = new.source THEN <<npipes + 1, "r">>
                                        ELSE IF i = new.sink THEN <<npipes + 1, "w">> ELSE fds[i]
      /\ \A i \in Nums : fds[i] # <<npipes + 1, "r">> /\ fds[i] # <<npipes + 1, "w">>
      /\ \A q \in SubProcesses : cmd[q] # Sub!Invalid => cmd[q] # new.source /\ cmd[q] # new.sink
      /\ ParentOK(new.table, npipes + 1, chan, cmd)
      /\ ParentOK(new.table, npipes + 1, [chan EXCEPT ![npipes + 1] = [source |-> new.source, sink |-> new.sink]], cmd)
  BY <1>1, <1>2, NewPipeKeeps
<1>5. ParentOK(fds', npipes', chan', cmd')
  BY <1>3, <1>4
<1>6. ObjsOK(obj, proc, npipes + 1)
  BY <1>1, ObjsGrow
<1> QED
  BY <1>1, <1>3, <1>5, <1>6 DEF ChildInv

LEMMA CloseChannelActionKeeps ==
    ASSUME SafeRules \subseteq Rules, ChildInv, NEW p \in Sub!Pipes, NEW e \in {"r", "w"}, Sub!CloseChannel(p, e)
    PROVE  ChildInv'
<1>1. PICK i : i = (IF e = "r" THEN chan[p].source ELSE chan[p].sink)
  OBVIOUS
<1>2. /\ i # Sub!Invalid /\ fds[i] = <<p, e>> /\ fds' = Sub!Closed(fds, i) /\ strays' = strays
      /\ chan' = IF e = "r" THEN [chan EXCEPT ![p].source = Sub!Invalid] ELSE [chan EXCEPT ![p].sink = Sub!Invalid]
      /\ npipes' = npipes /\ proc' = proc /\ obj' = obj /\ cmd' = cmd /\ pc' = pc /\ failed' = failed
  BY <1>1, ChildFacts DEF Sub!CloseChannel, Sub!Source, Sub!Sink, Sub!Rule, SafeRules, Sub!Hit
<1>3. ParentOK(fds, npipes, chan, cmd)
  BY DEF ChildInv
<1>4. ParentOK(Sub!Closed(fds, i), npipes,
               IF e = "r" THEN [chan EXCEPT ![p].source = Sub!Invalid] ELSE [chan EXCEPT ![p].sink = Sub!Invalid], cmd)
  BY <1>1, <1>2, <1>3, CloseChannelKeeps
<1>5. ParentOK(fds', npipes', chan', cmd')
  BY <1>2, <1>4
<1> QED
  BY <1>2, <1>5 DEF ChildInv

LEMMA CmdCloseKeeps == ASSUME ChildInv, NEW o \in SubProcesses, Sub!CmdClose(o) PROVE ChildInv'
<1> DEFINE m == [cmd EXCEPT ![o] = Sub!Invalid]
<1>1. /\ fds' = Sub!Closed(fds, cmd[o]) /\ cmd' = m /\ cmd[o] # Sub!Invalid
      /\ UNCHANGED <<chan, npipes, proc, obj, pc, failed, strays>>
  BY DEF Sub!CmdClose
<1>2. ParentOK(fds, npipes, chan, cmd) /\ CmdsOK(fds, npipes, chan, cmd)
  BY DEF ChildInv, ParentOK
<1>3. /\ \A q \in SubProcesses : m[q] = IF q = o THEN Sub!Invalid ELSE cmd[q]
      /\ m \in [SubProcesses -> Named \cup {Sub!Invalid}] /\ cmd[o] \in Named
  BY <1>1, <1>2 DEF CmdsOK
<1> HIDE DEF m
<1>4. CmdsOK(fds, npipes, chan, m)
  BY <1>2, <1>3 DEF CmdsOK
<1>5. ParentOK(fds, npipes, chan, m)
  BY <1>2, <1>4 DEF ParentOK
<1>6. \A q \in SubProcesses : m[q] # Sub!Invalid => m[q] # cmd[o]
  BY <1>2, <1>3 DEF CmdsOK
<1>7. ParentOK(Sub!Closed(fds, cmd[o]), npipes, chan, m)
  BY <1>3, <1>5, <1>6, CloseEndKeeps
<1>8. ParentOK(fds', npipes', chan', cmd')
  BY <1>1, <1>7
<1> QED
  BY <1>1, <1>8 DEF ChildInv

LEMMA DetachKeeps == ASSUME ChildInv, NEW o \in SubProcesses, Sub!Detach(o) PROVE ChildInv'
<1>1. /\ pc = Sub!Idle /\ obj' = [obj EXCEPT ![o] = Sub!Fresh]
      /\ chan' = IF obj[o].pipe = Sub!NoPipe THEN chan ELSE [chan EXCEPT ![obj[o].pipe] = Sub!NoNumbers]
      /\ UNCHANGED <<fds, npipes, proc, cmd, pc, failed, strays>>
  BY DEF Sub!Detach
<1>2. ParentOK(fds, npipes, chan, cmd) /\ ObjsOK(obj, proc, npipes)
  BY DEF ChildInv
<1>3. ParentOK(fds, npipes, [chan EXCEPT ![obj[o].pipe] = Sub!NoNumbers], cmd)
  BY <1>2, DropKeeps
<1>4. ParentOK(fds', npipes', chan', cmd')
  BY <1>1, <1>2, <1>3
<1>5. /\ Sub!Fresh \in [sub : Nat \cup {-1}, status : {Sub!NoStatus, 0, 15, 255}, pipe : 0..npipes, started : BOOLEAN]
      /\ Sub!Fresh.sub = 0
  BY <1>2, ChildFacts DEF Sub!Fresh, Sub!NoPipe, ParentOK
<1>6. ObjsOK(obj', proc', npipes')
  BY <1>1, <1>2, <1>5 DEF ObjsOK
<1> QED
  BY <1>1, <1>4, <1>6 DEF ChildInv

-----------------------------------------------------------------------------
\* A child comes to its end, by itself, by a signal or when it is waited for.
LEMMA EndKeeps ==
    ASSUME NEW pr, ProcsOK(pr), NEW k \in DOMAIN pr, NEW ch \in Child, ch.state # "running"
    PROVE  ProcsOK([pr EXCEPT ![k] = ch])
<1> DEFINE x == [pr EXCEPT ![k] = ch]
<1>1. pr \in Seq(Child) /\ Len(pr) <= MaxProcs
  BY DEF ProcsOK
<1>2. /\ x \in Seq(Child) /\ Len(x) = Len(pr) /\ DOMAIN x = DOMAIN pr
      /\ \A i \in DOMAIN pr : x[i] = IF i = k THEN ch ELSE pr[i]
  BY <1>1, ExceptSeq
<1> HIDE DEF x
<1>3. ProcsOK(x)
  BY <1>1, <1>2 DEF ProcsOK
<1> QED
  BY <1>3 DEF x

LEMMA ZombieIsChild ==
    ASSUME NEW code \in {0, 15, 255}
    PROVE  /\ Sub!Zombie(code) \in Child /\ Sub!Zombie(code).state = "zombie"
           /\ [Sub!Zombie(0) EXCEPT !.state = "reaped"] \in Child
           /\ [Sub!Zombie(0) EXCEPT !.state = "reaped"].state = "reaped"
<1>1. Sub!Tty \in Slots(MaxPipes) /\ Sub!Free \in Slots(MaxPipes)
  BY DEF Slots
<1> QED
  BY <1>1 DEF Sub!Zombie, Child, Nums

\* A child that ends is still its object's.
LEMMA StaysItsObjects ==
    ASSUME NEW ob, NEW pr, NEW n, ObjsOK(ob, pr, n), NEW k, NEW ch, ch.state # "reaped"
    PROVE  ObjsOK(ob, [pr EXCEPT ![k] = ch], n)
<1> DEFINE x == [pr EXCEPT ![k] = ch]
<1>1. DOMAIN x = DOMAIN pr /\ \A i \in DOMAIN pr : x[i] = pr[i] \/ x[i] = ch
  OBVIOUS
<1> HIDE DEF x
<1>2. ObjsOK(ob, x, n)
  BY <1>1 DEF ObjsOK
<1> QED
  BY <1>2 DEF x

LEMMA ExitKeeps == ASSUME ChildInv, NEW k \in Sub!Pids, Sub!Exit(k) PROVE ChildInv'
<1>1. /\ k \in DOMAIN proc /\ proc' = [proc EXCEPT ![k] = Sub!Zombie(0)]
      /\ UNCHANGED <<fds, chan, npipes, obj, cmd, pc, failed, strays>>
  BY DEF Sub!Exit, Sub!Alive
<1>2. Sub!Zombie(0) \in Child /\ Sub!Zombie(0).state = "zombie"
  BY ZombieIsChild
<1>3. ProcsOK(proc')
  BY <1>1, <1>2, EndKeeps DEF ChildInv
<1>4. ObjsOK(obj, proc', npipes)
  BY <1>1, <1>2, StaysItsObjects DEF ChildInv
<1> QED
  BY <1>1, <1>3, <1>4 DEF ChildInv

LEMMA TerminateKeeps ==
    ASSUME SafeRules \subseteq Rules, ChildInv, NEW o \in SubProcesses, Sub!Terminate(o)
    PROVE  ChildInv'
<1> DEFINE k == obj[o].sub
<1>1. k > 0 /\ pc = Sub!Idle
  BY DEF Sub!Terminate, Sub!Rule, SafeRules
<1>2. k \in DOMAIN proc /\ proc[k].state # "reaped" /\ proc[k].state \in {"running", "zombie", "reaped"}
  <2>1. k \in DOMAIN proc /\ proc[k].state # "reaped" /\ proc \in Seq(Child)
    BY <1>1 DEF ChildInv, ObjsOK, ProcsOK
  <2>2. proc[k] \in Child
    BY <2>1
  <2> QED
    BY <2>1, <2>2 DEF Child
<1>3. k \in Sub!Alive \cup Sub!Zombies
  BY <1>2 DEF Sub!Alive, Sub!Zombies
<1>4. /\ proc' = IF k \in Sub!Alive THEN [proc EXCEPT ![k] = Sub!Zombie(15)] ELSE proc
      /\ UNCHANGED <<fds, chan, npipes, obj, cmd, pc, failed, strays>>
  BY <1>3 DEF Sub!Terminate
<1> HIDE DEF k
<1>5. Sub!Zombie(15) \in Child /\ Sub!Zombie(15).state = "zombie"
  BY ZombieIsChild
<1>6. ProcsOK(proc) /\ ObjsOK(obj, proc, npipes)
  BY DEF ChildInv
<1>7. ProcsOK([proc EXCEPT ![k] = Sub!Zombie(15)])
  BY <1>2, <1>5, <1>6, EndKeeps
<1>8. ObjsOK(obj, [proc EXCEPT ![k] = Sub!Zombie(15)], npipes)
  BY <1>5, <1>6, StaysItsObjects
<1> QED
  BY <1>4, <1>6, <1>7, <1>8 DEF ChildInv

\* The child that is reaped is the object's own.
LEMMA ReapKeeps ==
    ASSUME ProcsOK(proc), ObjsOK(obj, proc, npipes), NEW o \in SubProcesses, obj[o].sub \in Sub!Zombies, obj[o].sub > 0,
           proc' = Sub!Reaped(obj[o].sub),
           obj' = [obj EXCEPT ![o].sub = 0, ![o].status = proc[obj[o].sub].code]
    PROVE  ProcsOK(proc') /\ ObjsOK(obj', proc', npipes)
<1> DEFINE k == obj[o].sub
           ch == [Sub!Zombie(0) EXCEPT !.state = "reaped"]
<1>1. k \in DOMAIN proc /\ proc[k] \in Child /\ k > 0
  BY DEF Sub!Zombies, ProcsOK
<1>2. ch \in Child /\ ch.state = "reaped"
  BY ZombieIsChild
<1>3. proc' = [proc EXCEPT ![k] = ch]
  BY DEF Sub!Reaped
<1> HIDE DEF ch
<1>4. ProcsOK(proc')
  <2> HIDE DEF k
  <2>1. ch.state # "running"
    BY <1>2
  <2>2. ProcsOK([proc EXCEPT ![k] = ch])
    BY <1>1, <1>2, <2>1, EndKeeps
  <2> QED
    BY <1>3, <2>2
<1>5. /\ DOMAIN proc' = DOMAIN proc /\ \A i \in DOMAIN proc : i # k => proc'[i] = proc[i]
  BY <1>3
<1>6. proc[k].code \in {0, 15, 255}
  BY <1>1 DEF Child
<1>7. /\ obj' \in [SubProcesses -> [sub : Nat \cup {-1}, status : {Sub!NoStatus, 0, 15, 255},
                               pipe : 0..npipes, started : BOOLEAN]]
      /\ obj'[o].sub = 0 /\ \A q \in SubProcesses : q # o => obj'[q] = obj[q]
  <2> DEFINE R == [sub : Nat \cup {-1}, status : {Sub!NoStatus, 0, 15, 255}, pipe : 0..npipes, started : BOOLEAN]
  <2>1. obj \in [SubProcesses -> R]
    BY DEF ObjsOK
  <2>2. PICK r : r = [obj[o] EXCEPT !.sub = 0, !.status = proc[k].code]
    OBVIOUS
  <2>3. obj[o] \in R
    BY <2>1
  <2>4. PICK code : code = proc[k].code
    OBVIOUS
  <2> HIDE DEF k
  <2>5. r = [obj[o] EXCEPT !.sub = 0, !.status = code] /\ code \in {Sub!NoStatus, 0, 15, 255}
    BY <1>6, <2>2, <2>4
  <2>6. r \in R /\ r.sub = 0
    BY <2>3, <2>5
  <2>7. obj' = [obj EXCEPT ![o] = r]
    BY <2>2 DEF k
  <2> HIDE DEF R
  <2>8. obj' \in [SubProcesses -> R] /\ obj'[o] = r /\ \A q \in SubProcesses : q # o => obj'[q] = obj[q]
    BY <2>1, <2>6, <2>7
  <2> QED
    BY <2>6, <2>8 DEF R
<1>8. \A q \in SubProcesses : q # o /\ obj[q].sub > 0 => obj[q].sub # k
  BY <1>1 DEF ObjsOK
<1>9. \A q \in SubProcesses : obj'[q].sub > 0 => obj'[q].sub \in DOMAIN proc' /\ proc'[obj'[q].sub].state # "reaped"
  BY <1>5, <1>7, <1>8 DEF ObjsOK
<1>10. \A q, s \in SubProcesses : obj'[q].sub = obj'[s].sub /\ obj'[q].sub > 0 => q = s
  BY <1>7 DEF ObjsOK
<1> QED
  BY <1>4, <1>7, <1>9, <1>10 DEF ObjsOK

LEMMA DoneKeeps ==
    ASSUME SafeRules \subseteq Rules, ChildInv, NEW o \in SubProcesses, Sub!Done(o)
    PROVE  ChildInv'
<1>1. /\ pc = Sub!Idle /\ obj[o].sub # 0 /\ obj[o].sub # -1
      /\ ProcsOK(proc) /\ ObjsOK(obj, proc, npipes)
  BY DEF Sub!Done, Sub!Rule, SafeRules, ChildInv
<1>2. /\ obj[o].sub \in Sub!Zombies /\ proc' = Sub!Reaped(obj[o].sub)
      /\ obj' = [obj EXCEPT ![o].sub = 0, ![o].status = proc[obj[o].sub].code]
      /\ UNCHANGED <<fds, chan, npipes, cmd, pc, failed, strays>>
  BY <1>1 DEF Sub!Done
<1>3. obj[o].sub > 0
  BY <1>1 DEF ObjsOK
<1>4. ProcsOK(proc') /\ ObjsOK(obj', proc', npipes)
  BY <1>1, <1>2, <1>3, ReapKeeps
<1> QED
  BY <1>1, <1>2, <1>4 DEF ChildInv

LEMMA WaitKeeps ==
    ASSUME SafeRules \subseteq Rules, ChildInv, NEW o \in SubProcesses, Sub!Wait(o)
    PROVE  ChildInv'
<1>1. /\ obj[o].sub # 0 /\ obj[o].sub # -1 /\ pc' = o
      /\ UNCHANGED <<fds, chan, npipes, proc, obj, cmd, failed, strays>>
  BY DEF Sub!Wait, Sub!Rule, SafeRules
<1> QED
  BY <1>1 DEF ChildInv

LEMMA WaitReturnsKeeps == ASSUME ChildInv, Sub!WaitReturns PROVE ChildInv'
<1>1. /\ pc \in SubProcesses /\ obj[pc].sub \notin {-1, 0} /\ ProcsOK(proc) /\ ObjsOK(obj, proc, npipes)
  BY DEF Sub!WaitReturns, ChildInv
<1>2. /\ obj[pc].sub \in Sub!Zombies /\ proc' = Sub!Reaped(obj[pc].sub)
      /\ obj' = [obj EXCEPT ![pc].sub = 0, ![pc].status = proc[obj[pc].sub].code]
      /\ pc' = Sub!Idle /\ UNCHANGED <<fds, chan, npipes, cmd, failed, strays>>
  BY <1>1 DEF Sub!WaitReturns
<1>3. obj[pc].sub > 0
  BY <1>1 DEF ObjsOK
<1>4. ProcsOK(proc') /\ ObjsOK(obj', proc', npipes)
  BY <1>1, <1>2, <1>3, ReapKeeps
<1> QED
  BY <1>2, <1>4 DEF ChildInv

-----------------------------------------------------------------------------
LEMMA ChildStep == SafeRules \subseteq Rules /\ ChildInv /\ Sub!Next => ChildInv'
<1> SUFFICES ASSUME SafeRules \subseteq Rules, ChildInv, Sub!Next PROVE ChildInv'
  OBVIOUS
<1>1. CASE \E k \in Sub!Pids : Sub!Exit(k)
  BY <1>1, ExitKeeps
<1>2. CASE Sub!NewPipe
  BY <1>2, NewPipeActionKeeps
<1>3. CASE Sub!WaitReturns
  BY <1>3, WaitReturnsKeeps
<1>4. CASE \E p \in Sub!Pipes, e \in {"r", "w"} : Sub!CloseChannel(p, e)
  BY <1>4, CloseChannelActionKeeps
<1>5. ASSUME NEW o \in SubProcesses, Sub!Done(o) \/ Sub!Wait(o) \/ Sub!Terminate(o) \/ Sub!Detach(o) \/ Sub!CmdClose(o)
      PROVE  ChildInv'
  BY <1>5, DoneKeeps, WaitKeeps, TerminateKeeps, DetachKeeps, CmdCloseKeeps
<1>6. ASSUME NEW o \in SubProcesses, NEW mode \in {"Read", "Write"}, Sub!CmdOpen(o, mode) PROVE ChildInv'
  BY <1>6, CmdOpenKeeps
<1>7. ASSUME NEW o \in SubProcesses, NEW flags \in SUBSET {"Last"}, Sub!Run(o, flags) PROVE ChildInv'
  BY <1>7, RunKeeps
<1>8. ASSUME NEW o \in SubProcesses, NEW flags \in SUBSET {"Last"}, NEW other \in SubProcesses,
             Sub!RunSub(o, other, flags)
      PROVE  ChildInv'
  BY <1>8, RunSubKeeps
<1>9. ASSUME NEW o \in SubProcesses, NEW flags \in SUBSET {"Last"}, NEW p \in Sub!Pipes,
             NEW mode \in {"Read", "Write"}, Sub!RunPipe(o, p, flags \cup {mode})
      PROVE  ChildInv'
  BY <1>9, RunPipeKeeps
<1> QED
  BY <1>1, <1>2, <1>3, <1>4, <1>5, <1>6, <1>7, <1>8, <1>9 DEF Sub!Next

LEMMA ChildInvMeans == ChildInv => ChildrenConnected
<1> SUFFICES ASSUME ChildInv PROVE ChildrenConnected
  OBVIOUS
<1>1. /\ npipes \in 0..MaxPipes /\ TableOK(fds, npipes) /\ ChannelsOK(fds, npipes, chan)
      /\ CmdsOK(fds, npipes, chan, cmd) /\ ProcsOK(proc) /\ ObjsOK(obj, proc, npipes)
      /\ pc \in SubProcesses \cup {Sub!Idle} /\ ~failed /\ strays = {}
  BY DEF ChildInv, ParentOK
<1>2. \A p \in Sub!Pipes : \A e : Sub!End(p, e) = <<p, e>>
  BY ChildFacts
<1>3. Sub!TypeOK
  <2>1. fds \in [Sub!Numbers -> {Sub!Free, Sub!Tty} \cup {Sub!End(p, e) : p \in Sub!Pipes, e \in {"r", "w"}}]
    <3>1. Slots(npipes) \subseteq {Sub!Free, Sub!Tty} \cup {Sub!End(p, e) : p \in Sub!Pipes, e \in {"r", "w"}}
      BY <1>1, <1>2, ChildFacts DEF Slots
    <3> QED
      BY <1>1, <3>1 DEF TableOK, Nums
  <2>2. Len(proc) <= MaxProcs
    BY <1>1 DEF ProcsOK
  <2>3. \A p \in Sub!Pipes : {Sub!Source(p), Sub!Sink(p)} \subseteq Sub!Numbers \cup {Sub!Invalid}
    <3>1. Named \subseteq Sub!Numbers
      BY ChildFacts DEF Nums
    <3>2. \A p \in Sub!Pipes : chan[p].source \in Named \cup {Sub!Invalid} /\ chan[p].sink \in Named \cup {Sub!Invalid}
      BY <1>1 DEF ChannelsOK
    <3> QED
      BY <3>1, <3>2 DEF Sub!Source, Sub!Sink
  <2>4. \A o \in SubProcesses : obj[o].sub \in {-1, 0} \cup DOMAIN proc /\ obj[o].pipe \in 0..npipes
    BY <1>1 DEF ObjsOK
  <2> QED
    BY <1>1, <2>1, <2>2, <2>3, <2>4 DEF Sub!TypeOK
<1>4. \A k \in Sub!Alive : proc[k] \in Child /\ Wired(proc[k])
  BY <1>1 DEF ProcsOK, Sub!Alive
<1>5. Sub!Connected
  <2>1. \A k \in Sub!Alive : proc[k].ends = <<proc[k].ends[1], proc[k].ends[2]>>
    BY <1>4 DEF Child
  <2> QED
    BY <1>4, <2>1 DEF Sub!Connected, Wired
<1>6. Sub!OtherEndsDropped
  BY <1>4, ChildFacts DEF Sub!OtherEndsDropped, Wired, Nums
<1>7. Sub!CommandsOwn
  BY <1>1, ChildFacts DEF Sub!CommandsOwn, CmdsOK
<1> QED
  BY <1>1, <1>3, <1>5, <1>6, <1>7 DEF ChildrenConnected, Sub!NobodyElseIsHit, Sub!NoAssertFails

LEMMA ChildStepKeeps == SafeRules \subseteq Rules => (ChildInv /\ [Next]_vars => ChildInv')
<1> SUFFICES ASSUME SafeRules \subseteq Rules, ChildInv, [Next]_vars PROVE ChildInv'
  OBVIOUS
<1>1. CASE part = "processes" /\ Sub!Next
  BY <1>1, ChildStep
<1>2. CASE UNCHANGED processVars
  BY <1>2 DEF processVars, ChildInv
<1>3. UNCHANGED vars => UNCHANGED processVars
  BY DEF vars, processVars
<1>4. Next => (part = "processes" /\ Sub!Next) \/ UNCHANGED processVars
  BY DEF Next
<1> QED
  BY <1>1, <1>2, <1>3, <1>4

\* A child has the ends it was to have and not the other ends of its pipes, and
\* signals, waits and closes reach the own child and the own descriptors, however
\* many objects, children and pipes there are and in whatever order the client
\* that keeps SafeRules calls (UnixSubProcess.cpp sysrun, SubProcess.cpp dorun,
\* PipeCmd.cpp).
THEOREM ChildrenCorrect ==
    ASSUME SafeRules \subseteq Rules
    PROVE  Spec => []ChildrenConnected
<1>1. Init => ChildInv
  BY ChildInitKeeps DEF Init
<1>2. ChildInv /\ [Next]_vars => ChildInv'
  BY ChildStepKeeps
<1>3. ChildInv => ChildrenConnected
  BY ChildInvMeans
<1> QED
  BY <1>1, <1>2, <1>3, PTL DEF Spec

-----------------------------------------------------------------------------
(* The bytes of a connection.                                              *)

Ordered(s, n, gone) ==
    /\ Range(s) = (1..n) \ gone
    /\ \A i, j \in DOMAIN s : i < j => s[i] < s[j]

\* A call under way has not had all its bytes yet, and readv () of the base class,
\* which is given one buffer, has had none.
ReaderOK(r) ==
    r # Nobody =>
        /\ r.sizes \in BufferLists /\ r.done = Len(r.data) /\ r.done < SumOf(r.sizes)
        /\ r.call = "readv" => Len(r.sizes) = 1

WriterOK(w) == w # Nobody => w.sizes \in BufferLists /\ w.done < SumOf(w.sizes)

StreamInv ==
    /\ wire \in Seq(Nat) /\ Len(wire) <= Capacity /\ taken \in Seq(Nat)
    /\ {sent, told, untold} \subseteq Nat /\ lost \subseteq 1..sent
    /\ reader \in [call : ReadCalls \cup {"none"}, sizes : BufferLists \cup {<<>>}, data : Seq(Nat), done : Nat]
    /\ writer \in [call : WriteCalls \cup {"none"}, sizes : BufferLists \cup {<<>>}, data : {<<>>}, done : Nat]
    /\ ReaderOK(reader) /\ WriterOK(writer)
    /\ Ordered(taken \o reader.data \o wire, sent, lost)
    /\ EveryByteTold

XStep ==
    /\ reader.call \in {"xread", "xreadv"} /\ reader' = Nobody /\ taken' # taken
          => Len(taken') - Len(taken) = SumOf(reader.sizes) \/ end = "writer closed"
    /\ writer.call \in {"xwrite", "xwritev"} /\ told' # told => told' - told = SumOf(writer.sizes)

\* Of a set of numbers one is least.
LEMMA StreamMin ==
    ASSUME NEW S \in SUBSET Nat, S # {}
    PROVE  Min(S) \in S /\ \A y \in S : Min(S) <= y
<1>1. Obj!Min(S) \in S /\ \A y \in S : Obj!Min(S) <= y
  BY NatMin
<1> QED
  BY <1>1 DEF Min

\* What SumOf computes on its way, and that there is such a function.
SumsFrom(g, s, m) == g = [n \in 0..m |-> IF n = 0 THEN 0 ELSE g[n - 1] + s[n]]
Sums(g, s) ==
    /\ g \in [0..Len(s) -> Nat] /\ g[0] = 0
    /\ \A n \in 1..Len(s) : g[n] = g[n - 1] + s[n]

LEMMA SumsFromExists ==
    ASSUME NEW s \in Seq(Nat), NEW m \in 0..Len(s)
    PROVE  \E g : SumsFrom(g, s, m)
<1> DEFINE bad == {k \in 0..Len(s) : ~(\E g : SumsFrom(g, s, k))}
<1>1. bad = {}
  <2> SUFFICES ASSUME bad # {} PROVE FALSE
    OBVIOUS
  <2>1. bad \in SUBSET Nat
    OBVIOUS
  <2>2. PICK k \in bad : \A j \in bad : k <= j
    BY <2>1, StreamMin
  <2>3. k # 0
    <3>1. SumsFrom([n \in 0..0 |-> 0], s, 0)
      BY DEF SumsFrom
    <3> QED
      BY <3>1
  <2>4. k - 1 \in 0..Len(s) /\ k - 1 \notin bad /\ k \in 1..Len(s)
    BY <2>2, <2>3
  <2>5. PICK g : SumsFrom(g, s, k - 1)
    BY <2>4
  <2> DEFINE h == [n \in 0..k |-> IF n = k THEN g[k - 1] + s[k] ELSE g[n]]
  <2>6. ASSUME NEW n \in 0..k PROVE h[n] = IF n = 0 THEN 0 ELSE h[n - 1] + s[n]
    <3>1. CASE n = k
      <4>1. h[n] = g[k - 1] + s[k] /\ h[k - 1] = g[k - 1] /\ k # 0
        BY <2>4, <3>1
      <4> QED
        BY <3>1, <4>1
    <3>2. CASE n # k
      <4>1. n \in 0..k - 1 /\ h[n] = g[n]
        BY <2>4, <3>2
      <4>2. g[n] = IF n = 0 THEN 0 ELSE g[n - 1] + s[n]
        BY <2>5, <4>1 DEF SumsFrom
      <4>3. n # 0 => n - 1 \in 0..k /\ n - 1 # k
        BY <2>4, <4>1
      <4>4. n # 0 => h[n - 1] = g[n - 1]
        BY <4>3
      <4> QED
        BY <4>1, <4>2, <4>4
    <3> QED
      BY <3>1, <3>2
  <2>7. h = [n \in 0..k |-> IF n = 0 THEN 0 ELSE h[n - 1] + s[n]]
    <3> DEFINE e == [n \in 0..k |-> IF n = 0 THEN 0 ELSE h[n - 1] + s[n]]
    <3>1. \A n \in 0..k : h[n] = e[n]
      BY <2>6
    <3>2. DOMAIN h = 0..k /\ DOMAIN e = 0..k
      OBVIOUS
    <3>3. h = e
      BY <3>1, <3>2, Zenon
    <3> QED
      BY <3>3
  <2> HIDE DEF h
  <2>8. SumsFrom(h, s, k)
    BY <2>7 DEF SumsFrom
  <2> QED
    BY <2>2, <2>8
<1> QED
  BY <1>1

LEMMA SumsExist ==
    ASSUME NEW s \in Seq(Nat)
    PROVE  \E g : Sums(g, s) /\ SumOf(s) = g[Len(s)]
<1>1. Len(s) \in Nat /\ Len(s) \in 0..Len(s) /\ \A n \in 1..Len(s) : s[n] \in Nat
  BY LenProperties
<1>2. \E g : SumsFrom(g, s, Len(s))
  BY <1>1, SumsFromExists
<1> DEFINE f == CHOOSE g : SumsFrom(g, s, Len(s))
<1>3. SumsFrom(f, s, Len(s))
  BY <1>2
<1>4. SumOf(s) = f[Len(s)]
  BY DEF SumOf, SumsFrom
<1> HIDE DEF f
<1>5. DOMAIN f = 0..Len(s) /\ \A n \in 0..Len(s) : f[n] = IF n = 0 THEN 0 ELSE f[n - 1] + s[n]
  BY <1>3 DEF SumsFrom
<1>6. f[0] = 0 /\ \A n \in 1..Len(s) : f[n] = f[n - 1] + s[n]
  BY <1>1, <1>5
<1>7. \A n \in 0..Len(s) : f[n] \in Nat
  <2> DEFINE bad == {n \in 0..Len(s) : f[n] \notin Nat}
  <2>1. bad \in SUBSET Nat
    BY <1>1
  <2> SUFFICES ASSUME bad # {} PROVE FALSE
    OBVIOUS
  <2>2. PICK n \in bad : \A k \in bad : n <= k
    BY <2>1, StreamMin
  <2>3. n \in 1..Len(s) /\ n - 1 \in 0..Len(s)
    BY <1>1, <1>6, <2>2
  <2>4. f[n - 1] \in Nat
    BY <2>2, <2>3
  <2>5. f[n] = f[n - 1] + s[n] /\ s[n] \in Nat
    BY <1>1, <1>6, <2>3
  <2>6. f[n] \in Nat
    BY <2>4, <2>5
  <2> QED
    BY <2>2, <2>6
<1>8. f \in [0..Len(s) -> Nat]
  <2>1. f = [n \in 0..Len(s) |-> IF n = 0 THEN 0 ELSE f[n - 1] + s[n]]
    BY <1>3 DEF SumsFrom
  <2>2. \A n \in 0..Len(s) : (IF n = 0 THEN 0 ELSE f[n - 1] + s[n]) \in Nat
    BY <1>5, <1>7
  <2>3. [n \in 0..Len(s) |-> IF n = 0 THEN 0 ELSE f[n - 1] + s[n]] \in [0..Len(s) -> Nat]
    BY <2>2
  <2> QED
    BY <2>1, <2>3, Zenon
<1> QED
  BY <1>4, <1>6, <1>8 DEF Sums

\* They grow, and are those of the first buffers alone.
LEMMA SumsGrow ==
    ASSUME NEW s \in Seq(Nat), NEW g, Sums(g, s), NEW k \in 0..Len(s)
    PROVE  \A n \in k..Len(s) : g[k] <= g[n]
<1>1. Len(s) \in Nat /\ \A n \in 1..Len(s) : s[n] \in Nat
  BY LenProperties
<1>2. \A n \in 0..Len(s) : g[n] \in Nat
  BY DEF Sums
<1> DEFINE bad == {n \in k..Len(s) : ~(g[k] <= g[n])}
<1>3. bad \in SUBSET Nat
  BY <1>1
<1> SUFFICES ASSUME bad # {} PROVE FALSE
  OBVIOUS
<1>4. PICK n \in bad : \A m \in bad : n <= m
  BY <1>3, StreamMin
<1>5. n # k
  BY <1>2, <1>4
<1>6. n \in 1..Len(s) /\ n - 1 \in k..Len(s) /\ n - 1 \in 0..Len(s)
  BY <1>1, <1>4, <1>5
<1>7. g[k] <= g[n - 1]
  BY <1>4, <1>6
<1>8. g[n] = g[n - 1] + s[n]
  BY <1>6 DEF Sums
<1>9. g[n - 1] \in Nat /\ s[n] \in Nat /\ g[k] \in Nat
  BY <1>1, <1>2, <1>6
<1>10. g[k] <= g[n]
  BY <1>7, <1>8, <1>9
<1> QED
  BY <1>4, <1>10

LEMMA SumsOfFirst ==
    ASSUME NEW s \in Seq(Nat), NEW g, Sums(g, s), NEW k \in 1..Len(s)
    PROVE  SumOf(SubSeq(s, 1, k)) = g[k]
<1>1. Len(s) \in Nat /\ k \in Nat
  BY LenProperties
<1>2. /\ SubSeq(s, 1, k) \in Seq(Nat) /\ Len(SubSeq(s, 1, k)) = k
      /\ \A n \in 1..k : SubSeq(s, 1, k)[n] = s[n]
  BY <1>1, SubSeqProperties
<1>3. PICK f : Sums(f, SubSeq(s, 1, k)) /\ SumOf(SubSeq(s, 1, k)) = f[k]
  BY <1>2, SumsExist
<1>4. \A n \in 1..k : f[n] = f[n - 1] + s[n]
  BY <1>2, <1>3 DEF Sums
<1>5. f[0] = 0 /\ g[0] = 0 /\ \A n \in 1..k : g[n] = g[n - 1] + s[n]
  BY SMTT(30), <1>1, <1>3 DEF Sums
<1> DEFINE bad == {n \in 0..k : f[n] # g[n]}
<1>6. bad = {}
  <2> SUFFICES ASSUME bad # {} PROVE FALSE
    OBVIOUS
  <2>1. bad \in SUBSET Nat
    BY <1>1
  <2>2. PICK n \in bad : \A m \in bad : n <= m
    BY <2>1, StreamMin
  <2>3. n \in 1..k /\ n - 1 \in 0..k
    BY <1>1, <1>5, <2>2
  <2>4. f[n - 1] = g[n - 1]
    BY <2>2, <2>3
  <2> QED
    BY <1>4, <1>5, <2>2, <2>3, <2>4
<1>7. k \in 0..k
  BY <1>1
<1> QED
  BY <1>3, <1>6, <1>7

LEMMA BufferFacts ==
    ASSUME NEW s \in BufferLists
    PROVE  /\ s \in Seq(Nat) \ {<<>>} /\ SumOf(s) \in Nat \ {0}
           /\ \A k \in DOMAIN s : SumOf(SubSeq(s, 1, k)) \in 0..SumOf(s)
<1>1. s \in Seq(Nat) /\ Len(s) \in Nat /\ DOMAIN s = 1..Len(s)
  BY BuffersAssumption, LenProperties
<1>2. PICK m \in 1..Len(s) : s[m] > 0
  BY <1>1, BuffersAssumption
<1>3. PICK g : Sums(g, s) /\ SumOf(s) = g[Len(s)]
  BY <1>1, SumsExist
<1>4. \A n \in 0..Len(s) : g[n] \in Nat
  BY <1>3 DEF Sums
<1>5. \A n \in 1..Len(s) : SumOf(SubSeq(s, 1, n)) = g[n] /\ g[n] <= SumOf(s)
  <2> TAKE n \in 1..Len(s)
  <2>1. SumOf(SubSeq(s, 1, n)) = g[n]
    BY <1>1, <1>3, SumsOfFirst
  <2>2. n \in 0..Len(s) /\ Len(s) \in n..Len(s)
    BY <1>1
  <2>3. \A j \in n..Len(s) : g[n] <= g[j]
    BY <1>1, <1>3, <2>2, SumsGrow
  <2> QED
    BY <1>3, <2>1, <2>2, <2>3
<1>6. SumOf(s) \in Nat /\ Len(s) \in 0..Len(s)
  BY <1>1, <1>3, <1>4
<1>7. SumOf(s) # 0
  <2>1. m - 1 \in 0..Len(s) /\ m \in 0..Len(s) /\ s[m] \in Nat
    BY <1>1, <1>2
  <2>2. g[m] = g[m - 1] + s[m]
    BY <1>3 DEF Sums
  <2>3. g[m] > 0
    BY <1>2, <1>4, <2>1, <2>2
  <2> QED
    BY <1>4, <1>5, <1>6, <2>1, <2>3
<1>8. s # <<>>
  BY <1>1, <1>2, EmptySeq
<1>9. \A k \in DOMAIN s : SumOf(SubSeq(s, 1, k)) \in 0..SumOf(s)
  BY <1>1, <1>4, <1>5, <1>6
<1> QED
  BY <1>1, <1>6, <1>7, <1>8, <1>9

LEMMA BufferEndProperties ==
    ASSUME NEW s \in BufferLists, NEW i \in Nat, i < SumOf(s)
    PROVE  /\ BufferEnd(s, i) \in Nat /\ i < BufferEnd(s, i) /\ BufferEnd(s, i) <= SumOf(s)
           /\ Len(s) = 1 => BufferEnd(s, i) = SumOf(s)
<1> DEFINE ends == {SumOf(SubSeq(s, 1, k)) : k \in DOMAIN s}
           above == {e \in ends : e > i}
<1>1. s \in Seq(Nat) /\ s # <<>> /\ SumOf(s) \in Nat \ {0}
      /\ \A k \in DOMAIN s : SumOf(SubSeq(s, 1, k)) \in 0..SumOf(s)
  BY BufferFacts
<1>2. SubSeq(s, 1, Len(s)) = s
  BY <1>1
<1>3. Len(s) \in DOMAIN s /\ Len(s) \in Nat
  BY <1>1
<1>4. ends \subseteq 0..SumOf(s) /\ SumOf(s) \in ends
  BY <1>1, <1>2, <1>3
<1>5. Len(s) = 1 => ends = {SumOf(s)}
  <2> SUFFICES ASSUME Len(s) = 1 PROVE ends = {SumOf(s)}
    OBVIOUS
  <2>1. DOMAIN s = {1} /\ SubSeq(s, 1, 1) = s
    BY <1>1, <1>2
  <2> QED
    BY <2>1
<1>6. BufferEnd(s, i) = Min(above)
  BY DEF BufferEnd
<1> HIDE DEF ends
<1>7. above \in SUBSET Nat /\ above # {} /\ (Len(s) = 1 => above = {SumOf(s)})
  <2>1. SumOf(s) \in above
    BY <1>4
  <2>2. Len(s) = 1 => above = {SumOf(s)}
    BY <1>5
  <2>3. above \subseteq 0..SumOf(s)
    BY <1>4
  <2>4. 0..SumOf(s) \subseteq Nat
    BY <1>1
  <2> HIDE DEF above
  <2> QED
    BY <2>1, <2>2, <2>3, <2>4
<1>8. Min(above) \in above
  BY <1>7, StreamMin
<1> HIDE DEF above
<1>9. above \subseteq {e \in 0..SumOf(s) : e > i}
  BY <1>4 DEF above
<1> QED
  <2>1. PICK e : e = Min(above)
    OBVIOUS
  <2>a. e \in above
    BY <1>8, <2>1
  <2>b. Len(s) = 1 => e = SumOf(s)
    BY <1>7, <2>a
  <2>2. e \in 0..SumOf(s) /\ e > i /\ (Len(s) = 1 => e = SumOf(s))
    BY <1>9, <2>a, <2>b
  <2> QED
    BY <1>1, <1>6, <2>1, <2>2

\* What is left out at the end is gone; what is added is what was sent last.
LEMMA OrderedDrop ==
    ASSUME NEW a \in Seq(Nat), NEW b \in Seq(Nat), NEW n, NEW gone, Ordered(a \o b, n, gone)
    PROVE  Ordered(a, n, gone \cup Range(b)) /\ Range(b) \subseteq 1..n
<1>1. /\ a \o b \in Seq(Nat) /\ Len(a \o b) = Len(a) + Len(b) /\ DOMAIN (a \o b) = 1..(Len(a) + Len(b))
      /\ DOMAIN a = 1..Len(a) /\ DOMAIN b = 1..Len(b) /\ Len(a) \in Nat /\ Len(b) \in Nat
      /\ \A i \in 1..Len(a) : (a \o b)[i] = a[i]
      /\ \A i \in 1..Len(b) : (a \o b)[Len(a) + i] = b[i]
  OBVIOUS
<1> DEFINE s == a \o b
<1>2. \A x : x \in Range(s) <=> x \in Range(a) \/ x \in Range(b)
  <2>1. ASSUME NEW i \in DOMAIN s PROVE s[i] \in Range(a) \/ s[i] \in Range(b)
    <3>1. CASE i \in 1..Len(a)
      BY <1>1, <3>1 DEF Range
    <3>2. CASE i \notin 1..Len(a)
      <4>1. i - Len(a) \in 1..Len(b) /\ i = Len(a) + (i - Len(a))
        BY <1>1, <3>2
      <4>2. s[i] = b[i - Len(a)]
        BY <1>1, <4>1
      <4> QED
        BY <1>1, <4>1, <4>2 DEF Range
    <3> QED
      BY <3>1, <3>2
  <2>2. ASSUME NEW i \in DOMAIN a PROVE a[i] \in Range(s)
    BY <1>1 DEF Range
  <2>3. ASSUME NEW i \in DOMAIN b PROVE b[i] \in Range(s)
    <3>1. Len(a) + i \in DOMAIN s /\ s[Len(a) + i] = b[i]
      BY <1>1
    <3> QED
      BY <3>1 DEF Range
  <2> HIDE DEF s
  <2> QED
    BY <2>1, <2>2, <2>3 DEF Range
<1>3. \A i, j \in DOMAIN a : i < j => a[i] < a[j]
  <2> SUFFICES ASSUME NEW i \in DOMAIN a, NEW j \in DOMAIN a, i < j PROVE a[i] < a[j]
    OBVIOUS
  <2>1. i \in DOMAIN s /\ j \in DOMAIN s /\ s[i] = a[i] /\ s[j] = a[j]
    BY <1>1
  <2>2. s[i] < s[j]
    BY <2>1 DEF Ordered
  <2> QED
    BY <2>1, <2>2
<1>4. \A i \in DOMAIN a, j \in DOMAIN b : a[i] # b[j]
  <2> SUFFICES ASSUME NEW i \in DOMAIN a, NEW j \in DOMAIN b PROVE a[i] # b[j]
    OBVIOUS
  <2>1. i \in DOMAIN s /\ Len(a) + j \in DOMAIN s /\ i < Len(a) + j /\ s[i] = a[i] /\ s[Len(a) + j] = b[j]
    BY <1>1
  <2>2. s[i] < s[Len(a) + j] /\ s[i] \in Nat /\ s[Len(a) + j] \in Nat
    BY <1>1, <2>1 DEF Ordered
  <2> QED
    BY <2>1, <2>2
<1>5. Range(a) \cap Range(b) = {}
  BY <1>4 DEF Range
<1> HIDE DEF s
<1>6. Range(s) = (1..n) \ gone
  BY DEF Ordered, s
<1> QED
  BY <1>2, <1>3, <1>5, <1>6 DEF Ordered

LEMMA OrderedGrow ==
    ASSUME NEW s \in Seq(Nat), NEW n \in Nat, NEW gone \in SUBSET (1..n), Ordered(s, n, gone), NEW k \in Nat
    PROVE  Ordered(s \o [i \in 1..k |-> n + i], n + k, gone)
<1> DEFINE b == [i \in 1..k |-> n + i]
           t == s \o b
<1>1. b \in Seq(Nat) /\ Len(b) = k /\ \A i \in 1..k : b[i] = n + i
  <2>1. b \in [1..k -> Nat]
    OBVIOUS
  <2> QED
    BY <2>1, SeqDef
<1> HIDE DEF b
<1>2. /\ t \in Seq(Nat) /\ DOMAIN t = 1..(Len(s) + k) /\ DOMAIN s = 1..Len(s) /\ Len(s) \in Nat
      /\ \A i \in 1..Len(s) : t[i] = s[i]
      /\ \A i \in 1..k : t[Len(s) + i] = n + i
  <2>a. t \in Seq(Nat) /\ Len(t) = Len(s) + Len(b)
    BY <1>1, ConcatProperties
  <2>1. t \in Seq(Nat) /\ Len(t) = Len(s) + k /\ Len(s) \in Nat /\ DOMAIN s = 1..Len(s)
    BY <1>1, <2>a, LenProperties
  <2>2. DOMAIN t = 1..(Len(s) + k)
    BY <2>1
  <2>3. \A i \in 1..Len(s) : t[i] = s[i]
    BY <1>1
  <2>4. \A i \in 1..Len(b) : t[Len(s) + i] = b[i]
    BY <1>1
  <2>5. \A i \in 1..k : t[Len(s) + i] = n + i
    BY <1>1, <2>4
  <2> QED
    BY <2>1, <2>2, <2>3, <2>5
<1> HIDE DEF t
<1>3. \A i \in DOMAIN s : s[i] \in 1..n /\ s[i] \notin gone
  BY DEF Ordered, Range
<1>4. \A i \in DOMAIN t : i \notin DOMAIN s => i - Len(s) \in 1..k /\ t[i] = n + (i - Len(s))
  <2> SUFFICES ASSUME NEW i \in DOMAIN t, i \notin DOMAIN s
               PROVE  i - Len(s) \in 1..k /\ t[i] = n + (i - Len(s))
    OBVIOUS
  <2>1. i - Len(s) \in 1..k /\ i = Len(s) + (i - Len(s))
    BY <1>2
  <2> QED
    BY <1>2, <2>1
<1>5. ASSUME NEW i \in DOMAIN t, NEW j \in DOMAIN t, i < j PROVE t[i] < t[j]
  <2>1. CASE j \in DOMAIN s
    <3>1. i \in DOMAIN s
      BY <1>2, <1>5, <2>1
    <3> QED
      BY <1>2, <1>5, <2>1, <3>1 DEF Ordered
  <2>2. CASE j \notin DOMAIN s /\ i \in DOMAIN s
    BY <1>2, <1>3, <1>4, <2>2
  <2>3. CASE j \notin DOMAIN s /\ i \notin DOMAIN s
    BY <1>2, <1>4, <1>5, <2>3
  <2> QED
    BY <2>1, <2>2, <2>3
<1>6. Range(t) \subseteq (1..(n + k)) \ gone
  <2> SUFFICES ASSUME NEW i \in DOMAIN t PROVE t[i] \in 1..(n + k) /\ t[i] \notin gone
    BY DEF Range
  <2>1. CASE i \in DOMAIN s
    BY <1>2, <1>3, <2>1
  <2>2. CASE i \notin DOMAIN s
    <3>1. t[i] \in (n + 1)..(n + k)
      BY <1>4, <2>2
    <3> QED
      BY <3>1
  <2> QED
    BY <2>1, <2>2
<1>7. ASSUME NEW x \in (1..(n + k)) \ gone PROVE x \in Range(t)
  <2>1. CASE x \in 1..n
    <3>1. x \in Range(s)
      BY <1>7, <2>1 DEF Ordered
    <3> QED
      BY <1>2, <3>1 DEF Range
  <2>2. CASE x \notin 1..n
    <3>1. x - n \in 1..k
      BY <2>2
    <3>2. Len(s) + (x - n) \in DOMAIN t
      BY <1>2, <3>1
    <3>3. t[Len(s) + (x - n)] = n + (x - n)
      BY <1>2, <3>1
    <3>4. n + (x - n) = x
      BY <1>7
    <3> QED
      BY <3>2, <3>3, <3>4 DEF Range
  <2> QED
    BY <2>1, <2>2
<1>8. Range(t) = (1..(n + k)) \ gone
  BY <1>6, <1>7
<1> QED
  BY <1>5, <1>8 DEF Ordered, t, b
-----------------------------------------------------------------------------
LEMMA NobodyFacts ==
    /\ Nobody.call = "none" /\ Nobody.sizes = <<>> /\ Nobody.data = <<>> /\ Nobody.done = 0
    /\ Nobody \in [call : ReadCalls \cup {"none"}, sizes : BufferLists \cup {<<>>}, data : Seq(Nat), done : Nat]
    /\ Nobody \in [call : WriteCalls \cup {"none"}, sizes : BufferLists \cup {<<>>}, data : {<<>>}, done : Nat]
BY EmptySeq DEF Nobody

LEMMA StreamInitKeeps == IOInit => StreamInv
<1> SUFFICES ASSUME IOInit PROVE StreamInv
  OBVIOUS
<1>1. /\ wire = <<>> /\ taken = <<>> /\ reader = Nobody /\ writer = Nobody /\ lost = {} /\ sent = 0
      /\ told = 0 /\ untold = 0
  BY DEF IOInit
<1>2. wire \in Seq(Nat) /\ Len(wire) = 0 /\ taken \in Seq(Nat) /\ Capacity \in Nat
  BY <1>1, EmptySeq, BuffersAssumption
<1>3. taken \o reader.data \o wire = <<>>
  BY <1>1, NobodyFacts
<1>4. Ordered(taken \o reader.data \o wire, sent, lost)
  BY <1>1, <1>3 DEF Ordered, Range
<1>5. EveryByteTold
  BY <1>1, NobodyFacts DEF EveryByteTold
<1> QED
  BY <1>1, <1>2, <1>4, <1>5, NobodyFacts DEF StreamInv, ReaderOK, WriterOK

\* What a read () of a call may fill.
LEMMA RoomProperties ==
    ASSUME StreamInv, reader # Nobody
    PROVE  LET e == Room(reader)[2] IN
           /\ Room(reader)[1] = Len(reader.data) /\ e \in Nat /\ Len(reader.data) < e /\ e <= SumOf(reader.sizes)
           /\ reader.call # "xreadv" => e = SumOf(reader.sizes)
<1>1. /\ reader.sizes \in BufferLists /\ Len(reader.data) \in Nat /\ Len(reader.data) < SumOf(reader.sizes)
      /\ reader.call = "readv" => Len(reader.sizes) = 1
  BY DEF StreamInv, ReaderOK
<1>2. SumOf(reader.sizes) \in Nat
  BY <1>1, BufferFacts
<1>3. /\ BufferEnd(reader.sizes, Len(reader.data)) \in Nat
      /\ Len(reader.data) < BufferEnd(reader.sizes, Len(reader.data))
      /\ BufferEnd(reader.sizes, Len(reader.data)) <= SumOf(reader.sizes)
      /\ Len(reader.sizes) = 1 => BufferEnd(reader.sizes, Len(reader.data)) = SumOf(reader.sizes)
  BY <1>1, BufferEndProperties
<1>4. CASE reader.call \in {"readv", "xreadv"}
  <2>1. Room(reader) = <<Len(reader.data), BufferEnd(reader.sizes, Len(reader.data))>>
    BY <1>4 DEF Room
  <2> QED
    BY <1>1, <1>3, <1>4, <2>1
<1>5. CASE reader.call \notin {"readv", "xreadv"}
  <2>1. Room(reader) = <<Len(reader.data), SumOf(reader.sizes)>>
    BY <1>5 DEF Room
  <2> QED
    BY <1>1, <1>2, <2>1
<1> QED
  BY <1>4, <1>5

\* read () moves bytes from the wire to the buffers of the call; a call that has
\* had enough hands over just those.
LEMMA ReadSomeMoves ==
    ASSUME StreamInv, ReadSome
    PROVE  \E n \in 1..Len(wire) :
             LET got == reader.data \o SubSeq(wire, 1, n) IN
             /\ wire' = SubSeq(wire, n + 1, Len(wire)) /\ lost' = lost
             /\ \/ /\ reader' = [reader EXCEPT !.data = got, !.done = Len(got)] /\ taken' = taken
                   /\ Len(got) < SumOf(reader.sizes) /\ reader.call # "readv"
                \/ /\ reader' = Nobody /\ taken' = taken \o got
                   /\ reader.call \in {"xread", "xreadv"} => Len(got) = SumOf(reader.sizes)
<1>1. reader # Nobody /\ wire # <<>>
  BY DEF ReadSome
<1>2. PICK r : r = Room(reader)[2]
  OBVIOUS
<1>3. /\ Room(reader)[1] = Len(reader.data) /\ r \in Nat /\ Len(reader.data) < r /\ r <= SumOf(reader.sizes)
      /\ reader.call # "xreadv" => r = SumOf(reader.sizes)
  BY <1>1, <1>2, RoomProperties
<1>4. /\ wire \in Seq(Nat) /\ Len(wire) \in Nat /\ reader.data \in Seq(Nat) /\ Len(reader.data) \in Nat
      /\ reader.done = Len(reader.data) /\ SumOf(reader.sizes) \in Nat
      /\ reader \in [call : ReadCalls \cup {"none"}, sizes : BufferLists \cup {<<>>}, data : Seq(Nat), done : Nat]
  BY <1>1, BufferFacts DEF StreamInv, ReaderOK
<1>5. PICK n \in 1..Min({Len(wire), r - Len(reader.data)}) :
          LET b == [reader EXCEPT !.data = Into(reader, SubSeq(wire, 1, n)), !.done = @ + n]
              c == IF Leaves(b) THEN [b EXCEPT !.data = Padded(b, r)] ELSE b
          IN  /\ wire' = SubSeq(wire, n + 1, Len(wire))
              /\ IF ReadOn(c) THEN reader' = c /\ UNCHANGED <<taken, lost>> ELSE Returned(c)
  BY <1>2, <1>3 DEF ReadSome
<1>6. n \in 1..Len(wire) /\ n <= r - Len(reader.data)
  <2>1. {Len(wire), r - Len(reader.data)} \in SUBSET Nat /\ {Len(wire), r - Len(reader.data)} # {}
    BY <1>3, <1>4
  <2>2. PICK m : m = Min({Len(wire), r - Len(reader.data)})
    OBVIOUS
  <2>3. m \in Nat /\ m <= Len(wire) /\ m <= r - Len(reader.data)
    BY <2>1, <2>2, StreamMin
  <2> QED
    BY <1>3, <1>4, <2>2, <2>3
<1>7. PICK got : got = reader.data \o SubSeq(wire, 1, n)
  OBVIOUS
<1>8. got \in Seq(Nat) /\ Len(got) = Len(reader.data) + n /\ Len(got) \in Nat /\ Len(got) <= r
  <2>1. SubSeq(wire, 1, n) \in Seq(Nat) /\ Len(SubSeq(wire, 1, n)) = n
    BY <1>4, <1>6, SubSeqProperties
  <2>2. got \in Seq(Nat) /\ Len(got) = Len(reader.data) + Len(SubSeq(wire, 1, n))
    BY <1>4, <1>7, <2>1, ConcatProperties
  <2> QED
    BY <1>3, <1>4, <1>6, <2>1, <2>2
<1>9. PICK b : b = [reader EXCEPT !.data = got, !.done = Len(got)]
  OBVIOUS
<1>10. b.data = got /\ b.done = Len(got) /\ b.call = reader.call /\ b.sizes = reader.sizes
  BY <1>4, <1>9
<1>11. PICK c : c = IF Leaves(b) THEN [b EXCEPT !.data = Padded(b, r)] ELSE b
  OBVIOUS
<1>12. /\ wire' = SubSeq(wire, n + 1, Len(wire))
       /\ IF ReadOn(c) THEN reader' = c /\ UNCHANGED <<taken, lost>> ELSE Returned(c)
  BY <1>4, <1>5, <1>7, <1>8, <1>9, <1>11 DEF Into
<1>13. CASE reader.call = "readv"
  <2>1. c = [b EXCEPT !.data = Padded(b, r)]
    BY <1>10, <1>11, <1>13 DEF Leaves
  <2>2. PICK pad : pad = [k \in 1..r - Len(got) |-> Hole]
    OBVIOUS
  <2>3. pad \in Seq(Nat) /\ Len(pad) = r - Len(got)
    BY <1>3, <1>8, <2>2 DEF Hole
  <2>4. c.data = got \o pad /\ c.done = Len(got) /\ c.sizes = reader.sizes
    BY <1>4, <1>9, <1>10, <2>1, <2>2 DEF Padded
  <2>5. Len(c.data) = r
    <3>1. Len(got \o pad) = Len(got) + Len(pad)
      BY <1>8, <2>3, ConcatProperties
    <3>2. \A x, y \in Nat : x + (y - x) = y
      OBVIOUS
    <3>3. Len(got) \in Nat /\ r \in Nat
      BY <1>3, <1>8
    <3>4. Len(c.data) = Len(got) + (r - Len(got))
      BY <2>3, <2>4, <3>1, Zenon
    <3> QED
      BY <3>2, <3>3, <3>4, Zenon
  <2>6. ~ReadOn(c)
    BY <1>3, <1>4, <1>13, <2>4, <2>5 DEF ReadOn
  <2>7. SubSeq(c.data, 1, c.done) = got
    <3>1. \A i \in 1..Len(got) : (got \o pad)[i] = got[i]
      BY <1>8, <2>3
    <3>2. SubSeq(got \o pad, 1, Len(got)) \in Seq(Nat) /\ Len(SubSeq(got \o pad, 1, Len(got))) = Len(got)
          /\ \A i \in 1..Len(got) : SubSeq(got \o pad, 1, Len(got))[i] = (got \o pad)[i]
      BY <1>8, <2>3
    <3> QED
      BY <1>8, <2>4, <3>1, <3>2, SeqEqual
  <2> QED
    BY <1>6, <1>7, <1>12, <1>13, <2>6, <2>7 DEF Returned
<1>14. CASE reader.call # "readv"
  <2>1. c = b
    BY <1>10, <1>11, <1>14 DEF Leaves
  <2>2. CASE ReadOn(c)
    <3>1. Len(got) < SumOf(reader.sizes)
      BY <1>10, <2>1, <2>2 DEF ReadOn
    <3> QED
      BY <1>6, <1>7, <1>9, <1>12, <1>14, <2>1, <2>2, <3>1
  <2>3. CASE ~ReadOn(c)
    <3>1. SubSeq(c.data, 1, c.done) = got
      BY <1>8, <1>10, <2>1
    <3>2. reader.call \in {"xread", "xreadv"} => Len(got) = SumOf(reader.sizes)
      <4>1. reader.call \in {"xread", "xreadv"} => ~(Len(got) < SumOf(reader.sizes))
        BY <1>10, <2>1, <2>3 DEF ReadOn
      <4>2. Len(got) <= SumOf(reader.sizes)
        BY <1>3, <1>4, <1>8
      <4>3. \A x, y \in Nat : ~(x < y) /\ x <= y => x = y
        OBVIOUS
      <4>4. Len(got) \in Nat /\ SumOf(reader.sizes) \in Nat
        BY <1>4, <1>8
      <4> QED
        BY <4>1, <4>2, <4>3, <4>4, Zenon
    <3> QED
      BY <1>6, <1>7, <1>12, <2>3, <3>1, <3>2 DEF Returned
  <2> QED
    BY <2>2, <2>3
<1> QED
  BY <1>13, <1>14

LEMMA ConcatAll ==
    ASSUME NEW s \in Seq(Nat), NEW t \in Seq(Nat)
    PROVE  s \o t \in Seq(Nat) /\ Len(s \o t) = Len(s) + Len(t) /\ Len(s) \in Nat /\ Len(t) \in Nat
BY ConcatProperties, LenProperties

LEMMA ConcatAgain ==
    ASSUME NEW s \in Seq(Nat), NEW t \in Seq(Nat), NEW u \in Seq(Nat)
    PROVE  (s \o t) \o u = s \o (t \o u)
<1>1. \A S : \A a, b, c \in Seq(S) : (a \o b) \o c = a \o (b \o c)
  BY ConcatAssociative
<1> QED
  BY SMTT(30), <1>1

\* The provers instantiate what is said of a defined operator more readily.
Joined(s, t) == s \o t

LEMMA JoinedAgain ==
    \A s, t, u \in Seq(Nat) : Joined(Joined(s, t), u) = Joined(s, Joined(t, u))
BY ConcatAgain DEF Joined

LEMMA MovedAlong ==
    ASSUME NEW a \in Seq(Nat), NEW b \in Seq(Nat), NEW x \in Seq(Nat), NEW y \in Seq(Nat)
    PROVE  Joined(Joined(a, Joined(b, x)), y) = Joined(Joined(a, b), Joined(x, y))
<1>1. Joined(b, x) \in Seq(Nat) /\ Joined(x, y) \in Seq(Nat)
  BY ConcatAll DEF Joined
<1>2. Joined(Joined(a, Joined(b, x)), y) = Joined(a, Joined(Joined(b, x), y))
  BY <1>1, JoinedAgain
<1>3. Joined(Joined(b, x), y) = Joined(b, Joined(x, y))
  BY JoinedAgain
<1>4. Joined(Joined(a, b), Joined(x, y)) = Joined(a, Joined(b, Joined(x, y)))
  BY <1>1, JoinedAgain
<1> QED
  BY <1>2, <1>3, <1>4

CutAt(w, n, x, y) == x = SubSeq(w, 1, n) /\ y = SubSeq(w, n + 1, Len(w))

LEMMA CutInTwo ==
    ASSUME NEW w \in Seq(Nat), NEW n \in 1..Len(w), NEW x, NEW y, CutAt(w, n, x, y)
    PROVE  x \in Seq(Nat) /\ y \in Seq(Nat) /\ Joined(x, y) = w /\ Len(y) <= Len(w)
<1>1. Len(w) \in Nat /\ n \in Nat /\ x \in Seq(Nat) /\ y \in Seq(Nat) /\ Len(y) = Len(w) - n
  BY SMTT(30), SubSeqProperties DEF CutAt
<1>2. 1 \in 1..(Len(w) + 1) /\ n \in (1 - 1)..Len(w) /\ Len(w) \in n..Len(w)
  BY <1>1
<1>3. SubSeq(w, 1, n) \o SubSeq(w, n + 1, Len(w)) = SubSeq(w, 1, Len(w))
  BY <1>2, ConcatAdjacentSubSeq
<1>4. x \o y = w
  BY <1>3, SubSeqFull DEF CutAt
<1> QED
  BY <1>1, <1>4 DEF Joined

LEMMA ReadSomeKeeps == ASSUME StreamInv, ReadSome PROVE StreamInv' /\ XStep
<1>1. PICK n \in 1..Len(wire) :
             LET got == reader.data \o SubSeq(wire, 1, n) IN
             /\ wire' = SubSeq(wire, n + 1, Len(wire)) /\ lost' = lost
             /\ \/ /\ reader' = [reader EXCEPT !.data = got, !.done = Len(got)] /\ taken' = taken
                   /\ Len(got) < SumOf(reader.sizes) /\ reader.call # "readv"
                \/ /\ reader' = Nobody /\ taken' = taken \o got
                   /\ reader.call \in {"xread", "xreadv"} => Len(got) = SumOf(reader.sizes)
  BY ReadSomeMoves
<1>2. reader # Nobody /\ UNCHANGED <<end, nonblock, writer, sent, told, untold>>
  BY DEF ReadSome
<1>3. PICK got : got = reader.data \o SubSeq(wire, 1, n)
  OBVIOUS
<1>4. /\ wire \in Seq(Nat) /\ taken \in Seq(Nat) /\ reader.data \in Seq(Nat) /\ Len(wire) \in Nat
      /\ Len(wire) <= Capacity /\ Capacity \in Nat
      /\ reader \in [call : ReadCalls \cup {"none"}, sizes : BufferLists \cup {<<>>}, data : Seq(Nat), done : Nat]
      /\ reader.sizes \in BufferLists
  BY <1>2, BuffersAssumption DEF StreamInv, ReaderOK
<1>5. /\ taken \o got \o wire' = taken \o reader.data \o wire
      /\ got \in Seq(Nat) /\ wire' \in Seq(Nat) /\ Len(wire') <= Len(wire)
  <2>1. PICK x, y : x = SubSeq(wire, 1, n) /\ y = SubSeq(wire, n + 1, Len(wire))
    OBVIOUS
  <2>2. wire' = y
    BY <1>1, <2>1
  <2>3. x \in Seq(Nat) /\ y \in Seq(Nat) /\ Joined(x, y) = wire /\ Len(y) <= Len(wire)
    <3>1. wire \in Seq(Nat) /\ CutAt(wire, n, x, y)
      BY <1>4, <2>1 DEF CutAt
    <3> QED
      BY <3>1, CutInTwo
  <2>4. got = reader.data \o x /\ got \in Seq(Nat)
    BY <1>3, <1>4, <2>1, <2>3, ConcatAll
  <2>5. Joined(Joined(taken, Joined(reader.data, x)), y) = Joined(Joined(taken, reader.data), Joined(x, y))
    BY <1>4, <2>3, MovedAlong
  <2>6. (taken \o got) \o y = (taken \o reader.data) \o wire
    BY <2>3, <2>4, <2>5 DEF Joined
  <2> QED
    BY <2>2, <2>3, <2>4, <2>6
<1>6. Len(got) \in Nat /\ Len(wire') <= Capacity
  BY <1>4, <1>5
<1>7. EveryByteTold'
  BY <1>2 DEF StreamInv, EveryByteTold
<1>8. {sent', told', untold'} \subseteq Nat /\ lost' \subseteq 1..sent'
  BY <1>1, <1>2 DEF StreamInv
<1>9. /\ writer' \in [call : WriteCalls \cup {"none"}, sizes : BufferLists \cup {<<>>}, data : {<<>>}, done : Nat]
      /\ WriterOK(writer')
  BY <1>2 DEF StreamInv
<1>10. CASE /\ reader' = [reader EXCEPT !.data = got, !.done = Len(got)] /\ taken' = taken
            /\ Len(got) < SumOf(reader.sizes) /\ reader.call # "readv"
  <2>1. /\ reader' \in [call : ReadCalls \cup {"none"}, sizes : BufferLists \cup {<<>>}, data : Seq(Nat), done : Nat]
        /\ reader'.data = got /\ reader'.done = Len(got) /\ reader'.sizes = reader.sizes /\ reader'.call = reader.call
    BY <1>4, <1>5, <1>6, <1>10
  <2>2. ReaderOK(reader')
    BY <1>4, <1>10, <2>1 DEF ReaderOK
  <2>3. Ordered(taken' \o reader'.data \o wire', sent', lost')
    BY <1>1, <1>2, <1>5, <1>10, <2>1 DEF StreamInv
  <2>4. XStep
    BY <1>2, <1>10 DEF XStep
  <2> QED
    BY <1>4, <1>5, <1>6, <1>7, <1>8, <1>9, <1>10, <2>1, <2>2, <2>3, <2>4 DEF StreamInv
<1>11. CASE /\ reader' = Nobody /\ taken' = taken \o got
            /\ reader.call \in {"xread", "xreadv"} => Len(got) = SumOf(reader.sizes)
  <2>1. taken' \in Seq(Nat) /\ Len(taken') = Len(taken) + Len(got) /\ Len(taken) \in Nat
    BY <1>4, <1>5, <1>11, ConcatProperties
  <2>2. taken' \o reader'.data \o wire' = taken \o got \o wire'
    BY <1>5, <1>11, <2>1, NobodyFacts, ConcatEmptySeq
  <2>3. Ordered(taken' \o reader'.data \o wire', sent', lost')
    BY <1>1, <1>2, <1>5, <2>2 DEF StreamInv
  <2>4. XStep
    <3>1. Len(taken') - Len(taken) = Len(got)
      BY <1>6, <2>1
    <3> QED
      BY <1>2, <1>11, <3>1 DEF XStep
  <2>5. ReaderOK(reader')
    BY <1>11 DEF ReaderOK
  <2> QED
    BY <1>4, <1>5, <1>6, <1>7, <1>8, <1>9, <1>11, <2>1, <2>3, <2>4, <2>5, NobodyFacts DEF StreamInv
<1> QED
  BY <1>1, <1>3, <1>10, <1>11
-----------------------------------------------------------------------------
ReaderType == [call : ReadCalls \cup {"none"}, sizes : BufferLists \cup {<<>>}, data : Seq(Nat), done : Nat]
WriterType == [call : WriteCalls \cup {"none"}, sizes : BufferLists \cup {<<>>}, data : {<<>>}, done : Nat]

LEMMA StreamFacts ==
    ASSUME StreamInv
    PROVE  /\ wire \in Seq(Nat) /\ Len(wire) \in Nat /\ Len(wire) <= Capacity /\ Capacity \in Nat
           /\ taken \in Seq(Nat) /\ Len(taken) \in Nat /\ reader.data \in Seq(Nat) /\ Len(reader.data) \in Nat
           /\ sent \in Nat /\ told \in Nat /\ untold \in Nat /\ lost \in SUBSET (1..sent)
           /\ reader \in ReaderType /\ writer \in WriterType /\ ReaderOK(reader) /\ WriterOK(writer)
           /\ writer.done \in Nat
           /\ taken \o reader.data \in Seq(Nat)
           /\ Ordered((taken \o reader.data) \o wire, sent, lost)
           /\ told + writer.done + untold = sent
<1>1. reader.data \in Seq(Nat) /\ taken \in Seq(Nat) /\ writer.done \in Nat
  BY DEF StreamInv
<1>2. taken \o reader.data \in Seq(Nat) /\ Len(reader.data) \in Nat /\ Len(taken) \in Nat
  BY <1>1, ConcatAll
<1>3. wire \in Seq(Nat) /\ Len(wire) \in Nat
  BY LenProperties DEF StreamInv
<1> QED
  BY <1>1, <1>2, <1>3, BuffersAssumption DEF StreamInv, EveryByteTold, ReaderType, WriterType

\* A step that leaves the writer's side alone.
LEMMA ReaderMoved ==
    ASSUME StreamInv, UNCHANGED <<writer, sent, told, untold>>,
           wire' \in Seq(Nat), Len(wire') <= Capacity, taken' \in Seq(Nat),
           reader' \in ReaderType, ReaderOK(reader'), lost' \subseteq 1..sent,
           Ordered((taken' \o reader'.data) \o wire', sent, lost')
    PROVE  StreamInv'
<1>1. writer' \in WriterType /\ WriterOK(writer') /\ EveryByteTold' /\ {sent', told', untold'} \subseteq Nat
  BY DEF StreamInv, WriterType, EveryByteTold
<1> QED
  BY <1>1 DEF StreamInv, ReaderType, WriterType

\* A step that only moves the writer on.
LEMMA WriterMoved ==
    ASSUME StreamInv, UNCHANGED <<wire, reader, sent, taken, lost>>,
           writer' \in WriterType, WriterOK(writer'), told' \in Nat, untold' \in Nat,
           told' + writer'.done + untold' = sent
    PROVE  StreamInv'
<1>1. /\ reader' \in ReaderType /\ ReaderOK(reader')
      /\ wire' \in Seq(Nat) /\ Len(wire') <= Capacity /\ taken' \in Seq(Nat) /\ lost' \subseteq 1..sent'
      /\ Ordered((taken' \o reader'.data) \o wire', sent', lost')
  BY StreamFacts
<1>2. EveryByteTold' /\ {sent', told', untold'} \subseteq Nat
  BY StreamFacts DEF EveryByteTold
<1> QED
  BY <1>1, <1>2 DEF StreamInv, ReaderType, WriterType

LEMMA NobodyTypes == Nobody \in ReaderType /\ Nobody \in WriterType /\ ReaderOK(Nobody) /\ WriterOK(Nobody)
BY NobodyFacts DEF ReaderType, WriterType, ReaderOK, WriterOK

LEMMA ConcatEmpty == ASSUME NEW s \in Seq(Nat) PROVE s \o <<>> = s
BY ConcatEmptySeq

\* A call that returns hands over what its buffers hold.
LEMMA ReturnsAll ==
    ASSUME StreamInv, reader # Nobody, Returned(reader), UNCHANGED <<wire, writer, sent, told, untold>>
    PROVE  StreamInv'
<1>1. taken' = taken \o reader.data /\ reader' = Nobody /\ lost' = lost
  <2>1. reader.done = Len(reader.data) /\ reader.data \in Seq(Nat)
    BY StreamFacts DEF ReaderOK
  <2>2. SubSeq(reader.data, 1, Len(reader.data)) = reader.data
    BY <2>1, SubSeqFull
  <2> QED
    BY <2>1, <2>2 DEF Returned
<1>2. taken' \in Seq(Nat)
  BY <1>1, StreamFacts
<1>3. taken' \o reader'.data = taken \o reader.data
  BY <1>1, <1>2, NobodyFacts, ConcatEmpty
<1>4. Ordered((taken' \o reader'.data) \o wire', sent, lost')
  BY <1>1, <1>3, StreamFacts
<1>5. reader' \in ReaderType /\ ReaderOK(reader')
  BY <1>1, NobodyTypes
<1> QED
  BY <1>1, <1>2, <1>4, <1>5, StreamFacts, ReaderMoved

LEMMA ReadEndKeeps == ASSUME StreamInv, ReadEnd PROVE StreamInv' /\ XStep
<1>1. StreamInv'
  BY ReturnsAll DEF ReadEnd
<1>2. XStep
  BY DEF ReadEnd, XStep
<1> QED
  BY <1>1, <1>2

LEMMA ReadFailsKeeps == ASSUME StreamInv, ReadFails PROVE StreamInv' /\ XStep
<1>1. reader # Nobody /\ wire = <<>> /\ UNCHANGED <<wire, end, nonblock, writer, sent, told, untold>>
  BY DEF ReadFails
<1>2. CASE reader.call = "readv" /\ Returned(reader)
  <2>1. StreamInv'
    BY <1>1, <1>2, ReturnsAll
  <2>2. XStep
    BY <1>1, <1>2 DEF XStep
  <2> QED
    BY <2>1, <2>2
<1>3. CASE lost' = lost \cup Range(reader.data) /\ reader' = Nobody /\ UNCHANGED taken
  <2>1. (taken \o reader.data) \o wire = taken \o reader.data
    BY <1>1, StreamFacts, ConcatEmpty
  <2>2. Ordered(taken \o reader.data, sent, lost)
    BY <2>1, StreamFacts
  <2>3. Ordered(taken, sent, lost \cup Range(reader.data)) /\ Range(reader.data) \subseteq 1..sent
    BY <2>2, StreamFacts, OrderedDrop
  <2>4. (taken' \o reader'.data) \o wire' = taken
    BY <1>1, <1>3, StreamFacts, NobodyFacts, ConcatEmpty
  <2>5. Ordered((taken' \o reader'.data) \o wire', sent, lost')
    BY <1>3, <2>3, <2>4
  <2>6. reader' \in ReaderType /\ ReaderOK(reader')
    BY <1>3, NobodyTypes
  <2>7. lost' \subseteq 1..sent
    BY <1>3, <2>3, StreamFacts
  <2>8. wire' \in Seq(Nat) /\ Len(wire') <= Capacity /\ taken' \in Seq(Nat)
    BY <1>1, <1>3, StreamFacts
  <2>9. StreamInv'
    BY <1>1, <2>5, <2>6, <2>7, <2>8, ReaderMoved
  <2>10. XStep
    BY <1>1, <1>3 DEF XStep
  <2> QED
    BY <2>9, <2>10
<1> QED
  BY <1>2, <1>3 DEF ReadFails

LEMMA StartReadKeeps ==
    ASSUME StreamInv, ReadvWhole, NEW call \in ReadCalls, NEW sizes \in BufferLists, StartRead(call, sizes)
    PROVE  StreamInv' /\ XStep
<1>1. /\ reader = Nobody /\ reader' = [call |-> call, sizes |-> sizes, data |-> <<>>, done |-> 0]
      /\ call = "readv" => Len(sizes) = 1
      /\ UNCHANGED <<wire, end, nonblock, writer, sent, taken, lost, told, untold>>
  BY DEF StartRead
<1>2. sizes # <<>> /\ SumOf(sizes) \in Nat \ {0} /\ <<>> \in Seq(Nat) /\ Len(<<>>) = 0
  BY BufferFacts, EmptySeq
<1>3. reader' \in ReaderType /\ ReaderOK(reader')
  BY <1>1, <1>2 DEF ReaderType, ReaderOK
<1>4. reader'.data = reader.data
  BY <1>1, NobodyFacts
<1>5. Ordered((taken' \o reader'.data) \o wire', sent, lost')
  BY <1>1, <1>4, StreamFacts
<1>6. wire' \in Seq(Nat) /\ Len(wire') <= Capacity /\ taken' \in Seq(Nat) /\ lost' \subseteq 1..sent
  BY <1>1, StreamFacts
<1>7. StreamInv'
  BY <1>1, <1>3, <1>5, <1>6, ReaderMoved
<1>8. XStep
  BY <1>1 DEF XStep
<1> QED
  BY <1>7, <1>8

LEMMA StartWriteKeeps ==
    ASSUME StreamInv, NEW call \in WriteCalls, NEW sizes \in BufferLists, StartWrite(call, sizes)
    PROVE  StreamInv' /\ XStep
<1>1. /\ writer = Nobody /\ writer' = [call |-> call, sizes |-> sizes, data |-> <<>>, done |-> 0]
      /\ UNCHANGED <<wire, end, nonblock, reader, sent, taken, lost, told, untold>>
  BY DEF StartWrite
<1>2. SumOf(sizes) \in Nat \ {0}
  BY BufferFacts
<1>3. writer' \in WriterType /\ WriterOK(writer') /\ writer'.done = writer.done
  BY <1>1, <1>2, NobodyFacts DEF WriterType, WriterOK
<1>4. told' + writer'.done + untold' = sent /\ told' \in Nat /\ untold' \in Nat
  BY <1>1, <1>3, StreamFacts
<1>5. StreamInv'
  BY <1>1, <1>3, <1>4, WriterMoved
<1>6. XStep
  BY <1>1 DEF XStep
<1> QED
  BY <1>5, <1>6

LEMMA WriteFailsKeeps == ASSUME StreamInv, WriteFails PROVE StreamInv' /\ XStep
<1>1. /\ writer # Nobody /\ writer' = Nobody /\ UNCHANGED <<wire, end, nonblock, reader, sent, taken, lost>>
      /\ \/ told' = told + writer.done /\ UNCHANGED untold /\ writer.call = "writev"
         \/ untold' = untold + writer.done /\ UNCHANGED told
  BY DEF WriteFails, Wrote
<1>2. writer' \in WriterType /\ WriterOK(writer') /\ writer'.done = 0
  BY <1>1, NobodyTypes, NobodyFacts
<1>3. told' + writer'.done + untold' = sent /\ told' \in Nat /\ untold' \in Nat
  BY <1>1, <1>2, StreamFacts
<1>4. StreamInv'
  BY <1>1, <1>2, <1>3, WriterMoved
<1>5. XStep
  BY <1>1 DEF XStep
<1> QED
  BY <1>4, <1>5

\* What was under way is lost when the wire goes.
LEMMA WireDropped ==
    ASSUME StreamInv, wire' = <<>>, lost' = lost \cup Range(wire), UNCHANGED <<reader, writer, sent, taken, told, untold>>
    PROVE  StreamInv' /\ XStep
<1>1. PICK seen : seen = taken \o reader.data
  OBVIOUS
<1>2. seen \in Seq(Nat) /\ Ordered(seen \o wire, sent, lost)
  BY <1>1, StreamFacts
<1>3. Ordered(seen, sent, lost \cup Range(wire)) /\ Range(wire) \subseteq 1..sent
  BY <1>2, StreamFacts, OrderedDrop
<1>4. (taken' \o reader'.data) \o wire' = seen
  BY <1>1, <1>2, ConcatEmpty
<1>5. Ordered((taken' \o reader'.data) \o wire', sent, lost') /\ lost' \subseteq 1..sent
  BY <1>3, <1>4, StreamFacts
<1>6. wire' \in Seq(Nat) /\ Len(wire') <= Capacity /\ taken' \in Seq(Nat) /\ reader' \in ReaderType /\ ReaderOK(reader')
  BY StreamFacts, EmptySeq
<1>7. StreamInv'
  BY <1>5, <1>6, ReaderMoved
<1>8. XStep
  BY DEF XStep
<1> QED
  BY <1>7, <1>8

LEMMA WriteToProperties ==
    ASSUME StreamInv, writer # Nobody
    PROVE  /\ WriteTo(writer) \in Nat /\ writer.done < WriteTo(writer) /\ WriteTo(writer) <= SumOf(writer.sizes)
           /\ SumOf(writer.sizes) \in Nat /\ writer.sizes \in BufferLists
<1>1. writer.sizes \in BufferLists /\ writer.done < SumOf(writer.sizes) /\ writer.done \in Nat
  BY StreamFacts DEF WriterOK
<1>2. SumOf(writer.sizes) \in Nat
  BY <1>1, BufferFacts
<1>3. /\ BufferEnd(writer.sizes, writer.done) \in Nat /\ writer.done < BufferEnd(writer.sizes, writer.done)
      /\ BufferEnd(writer.sizes, writer.done) <= SumOf(writer.sizes)
  BY <1>1, BufferEndProperties
<1> QED
  BY <1>1, <1>2, <1>3 DEF WriteTo

LEMMA WriteSomeKeeps == ASSUME StreamInv, WriteSome PROVE StreamInv' /\ XStep
<1>1. writer # Nobody /\ UNCHANGED <<end, nonblock, reader, taken, lost>>
  BY DEF WriteSome
<1>2. PICK t, total : t = WriteTo(writer) /\ total = SumOf(writer.sizes)
  OBVIOUS
<1>3. t \in Nat /\ total \in Nat /\ writer.done < t /\ t <= total /\ writer.sizes \in BufferLists
  BY <1>1, <1>2, WriteToProperties
<1>4. PICK room : room = Min({Capacity - Len(wire), t - writer.done})
  OBVIOUS
<1>5. room \in Nat /\ room <= Capacity - Len(wire) /\ room <= t - writer.done
  <2>1. {Capacity - Len(wire), t - writer.done} \in SUBSET Nat /\ {Capacity - Len(wire), t - writer.done} # {}
    BY <1>3, StreamFacts
  <2> QED
    BY <1>4, <2>1, StreamMin
<1>6. PICK n \in (IF room > 0 THEN 1 ELSE 0)..room :
          LET c == [writer EXCEPT !.done = @ + n]
          IN  /\ wire' = wire \o [k \in 1..n |-> sent + k] /\ sent' = sent + n
              /\ IF WriteOn(c, c.done = WriteTo(writer))
                 THEN writer' = c /\ UNCHANGED <<told, untold>> ELSE Wrote(c)
  BY <1>2, <1>4 DEF WriteSome
<1>7. n \in Nat /\ n <= room
  BY <1>5, <1>6
<1>8. PICK c : c = [writer EXCEPT !.done = @ + n]
  OBVIOUS
<1>9. c \in WriterType /\ c.done = writer.done + n /\ c.sizes = writer.sizes /\ c.call = writer.call
      /\ c.done \in Nat /\ c.done <= total
  <2>1. writer \in WriterType /\ writer.done \in Nat
    BY StreamFacts
  <2>2. c \in WriterType /\ c.done = writer.done + n /\ c.sizes = writer.sizes /\ c.call = writer.call
    BY <1>7, <1>8, <2>1 DEF WriterType
  <2> QED
    BY <1>3, <1>5, <1>7, <2>1, <2>2
<1>10. PICK b : b = [k \in 1..n |-> sent + k]
  OBVIOUS
<1>11. b \in Seq(Nat) /\ Len(b) = n
  <2>1. sent \in Nat
    BY StreamFacts
  <2>2. \A k \in 1..n : sent + k \in Nat
    BY <1>7, <2>1
  <2>3. b \in [1..n -> Nat]
    BY <1>10, <2>2
  <2> QED
    BY <1>7, <2>3, SeqDef
<1>12. wire' = wire \o b /\ wire' \in Seq(Nat) /\ Len(wire') <= Capacity
  <2>1. wire' = wire \o b
    BY <1>6, <1>10
  <2>2. wire \o b \in Seq(Nat) /\ Len(wire \o b) = Len(wire) + n
    BY <1>11, StreamFacts, ConcatAll
  <2> QED
    BY <1>5, <1>7, <2>1, <2>2, StreamFacts
<1>13. Ordered((taken' \o reader'.data) \o wire', sent', lost')
  <2>1. PICK seen : seen = taken \o reader.data
    OBVIOUS
  <2>2. seen \in Seq(Nat) /\ Ordered(seen \o wire, sent, lost)
    BY <2>1, StreamFacts
  <2>3. PICK s \in Seq(Nat) : s = seen \o wire
    BY <2>2, StreamFacts, ConcatAll
  <2>4. Ordered(s \o [i \in 1..n |-> sent + i], sent + n, lost)
    BY <1>7, <2>2, <2>3, StreamFacts, OrderedGrow
  <2>5. s \o b = seen \o (wire \o b)
    <3>1. PICK w \in Seq(Nat) : w = wire
      BY StreamFacts
    <3> QED
      BY SMTT(30), <1>11, <2>2, <2>3, <3>1, ConcatAgain
  <2>6. (taken' \o reader'.data) \o wire' = s \o b
    BY <1>1, <1>12, <2>1, <2>5
  <2>7. sent' = sent + n /\ lost' = lost
    BY <1>1, <1>6
  <2> QED
    BY <1>10, <2>4, <2>6, <2>7
<1>14. /\ reader' \in ReaderType /\ ReaderOK(reader') /\ taken' \in Seq(Nat) /\ sent' = sent + n
       /\ lost' \subseteq 1..sent' /\ sent' \in Nat
  <2>1. reader' \in ReaderType /\ ReaderOK(reader') /\ taken' \in Seq(Nat) /\ sent' = sent + n /\ lost' = lost
    BY <1>1, <1>6, StreamFacts
  <2> QED
    BY SMTT(30), <1>7, <2>1, StreamFacts
<1>15. ASSUME writer' \in WriterType, WriterOK(writer'), told' \in Nat, untold' \in Nat,
              told' + writer'.done + untold' = sent + n
       PROVE  StreamInv'
  <2>1. EveryByteTold' /\ {sent', told', untold'} \subseteq Nat
    BY <1>14, <1>15 DEF EveryByteTold
  <2> QED
    BY <1>12, <1>13, <1>14, <1>15, <2>1 DEF StreamInv, ReaderType, WriterType
<1>16. CASE WriteOn(c, c.done = WriteTo(writer))
  <2>1. writer' = c /\ UNCHANGED <<told, untold>>
    BY <1>6, <1>8, <1>16
  <2>2. WriterOK(writer')
    BY <1>3, <1>9, <1>16, <2>1 DEF WriterOK, WriteOn
  <2>3. told' + writer'.done + untold' = sent + n /\ told' \in Nat /\ untold' \in Nat
    BY SMTT(30), <1>7, <1>9, <2>1, StreamFacts
  <2>4. StreamInv'
    BY <1>9, <1>15, <2>1, <2>2, <2>3
  <2>5. XStep
    BY <1>1, <2>1 DEF XStep
  <2> QED
    BY <2>4, <2>5
<1>17. CASE ~WriteOn(c, c.done = WriteTo(writer))
  <2>1. told' = told + c.done /\ writer' = Nobody /\ untold' = untold
    BY <1>6, <1>8, <1>17 DEF Wrote
  <2>2. writer' \in WriterType /\ WriterOK(writer') /\ writer'.done = 0
    BY <2>1, NobodyTypes, NobodyFacts
  <2>3. told' + writer'.done + untold' = sent + n /\ told' \in Nat /\ untold' \in Nat
    <3>1. n \in Nat /\ told \in Nat /\ untold \in Nat /\ writer.done \in Nat /\ told + writer.done + untold = sent
      BY <1>7, StreamFacts
    <3>2. \A x, d, u, m \in Nat : (x + (d + m)) + 0 + u = (x + d + u) + m /\ x + (d + m) \in Nat
      OBVIOUS
    <3>3. told' = told + (writer.done + n) /\ writer'.done = 0 /\ untold' = untold
      BY <1>9, <2>1, <2>2
    <3> QED
      BY <3>1, <3>2, <3>3
  <2>4. StreamInv'
    BY <1>15, <2>2, <2>3
  <2>5. writer.call \in {"xwrite", "xwritev"} => c.done = total
    <3>1. writer.call \in {"xwrite", "xwritev"} => ~(c.done < total)
      BY <1>2, <1>9, <1>17 DEF WriteOn
    <3>2. \A x, y \in Nat : ~(x < y) /\ x <= y => x = y
      OBVIOUS
    <3>3. c.done \in Nat /\ total \in Nat /\ c.done <= total
      BY <1>3, <1>9
    <3> QED
      BY <3>1, <3>2, <3>3, Zenon
  <2>6. told' - told = c.done
    BY SMTT(30), <1>9, <2>1, StreamFacts
  <2>7. XStep
    BY <1>1, <1>2, <2>5, <2>6 DEF XStep
  <2> QED
    BY <2>4, <2>7
<1> QED
  BY <1>16, <1>17

LEMMA SetBlockingKeeps ==
    ASSUME StreamInv, UNCHANGED <<wire, reader, writer, sent, taken, lost, told, untold>>
    PROVE  StreamInv' /\ XStep
<1>1. writer' \in WriterType /\ WriterOK(writer') /\ told' \in Nat /\ untold' \in Nat
  BY StreamFacts
<1>2. told' + writer'.done + untold' = sent
  BY StreamFacts
<1>3. StreamInv'
  BY <1>1, <1>2, WriterMoved
<1> QED
  BY <1>3 DEF XStep

LEMMA StreamStepKeeps == ASSUME ReadvWhole, StreamInv, IONext PROVE StreamInv' /\ XStep
<1>1. CASE \E side \in {"r", "w"} : SetBlocking(side)
  BY <1>1, SetBlockingKeeps DEF SetBlocking
<1>2. CASE \E call \in ReadCalls, sizes \in BufferLists : StartRead(call, sizes)
  BY <1>2, StartReadKeeps
<1>3. CASE \E call \in WriteCalls, sizes \in BufferLists : StartWrite(call, sizes)
  BY <1>3, StartWriteKeeps
<1>4. CASE ReadSome
  BY <1>4, ReadSomeKeeps
<1>5. CASE ReadEnd
  BY <1>5, ReadEndKeeps
<1>6. CASE ReadFails
  BY <1>6, ReadFailsKeeps
<1>7. CASE WriteSome
  BY <1>7, WriteSomeKeeps
<1>8. CASE WriteFails
  BY <1>8, WriteFailsKeeps
<1>9. CASE CloseWriter
  BY <1>9, SetBlockingKeeps DEF CloseWriter
<1>10. CASE CloseReader
  BY <1>10, WireDropped DEF CloseReader
<1>11. CASE Break
  BY <1>11, WireDropped DEF Break
<1> QED
  BY <1>1, <1>2, <1>3, <1>4, <1>5, <1>6, <1>7, <1>8, <1>9, <1>10, <1>11 DEF IONext

\* The bytes of a connection arrive in the order they were written in, without a
\* hole, whatever the sizes of the wire, of the buffers and of what each system
\* call moves, and every byte is told once, if readv () of the base class is given
\* one buffer (IOInput.cpp readv, xread, xreadv, IOOutput.cpp writev, xwrite).
THEOREM BytesCorrect == ASSUME ReadvWhole PROVE Spec => []BytesKept
<1>1. Init => StreamInv
  BY StreamInitKeeps DEF Init
<1>2. StreamInv /\ [Next]_vars => StreamInv'
  <2>1. SUFFICES ASSUME StreamInv, [Next]_vars PROVE StreamInv'
    OBVIOUS
  <2>2. IONext \/ UNCHANGED streamVars
    BY <2>1 DEF Next, vars
  <2> QED
    BY <2>1, <2>2, StreamStepKeeps, SetBlockingKeeps DEF streamVars
<1>3. StreamInv => BytesKept
  <2> SUFFICES ASSUME StreamInv PROVE BytesKept
    OBVIOUS
  <2>1. InOrder
    BY DEF InOrder, StreamInv, Ordered
  <2>2. NoHoles
    <3>1. PICK rest : rest = reader.data \o wire
      OBVIOUS
    <3>2. rest \in Seq(Nat) /\ Ordered(taken \o rest, sent, lost)
      <4>1. rest \in Seq(Nat)
        BY <3>1, StreamFacts, ConcatAll
      <4>2. PICK a, b, c \in Seq(Nat) : a = taken /\ b = reader.data /\ c = wire
        BY StreamFacts
      <4>3. (a \o b) \o c = a \o (b \o c)
        BY ConcatAgain
      <4> QED
        BY <3>1, <4>1, <4>2, <4>3, StreamFacts
    <3>3. Ordered(taken, sent, lost \cup Range(rest))
      BY <3>2, StreamFacts, OrderedDrop
    <3> QED
      BY <3>3 DEF NoHoles, Ordered, Hole
  <2>3. EveryByteTold
    BY DEF StreamInv
  <2> QED
    BY <2>1, <2>2, <2>3 DEF BytesKept
<1> QED
  BY <1>1, <1>2, <1>3, PTL DEF Spec

\* A call of the x family that returns has filled or written all its buffers,
\* but for one that met the end of the input (IOInput::xread, IOOutput::xwrite).
THEOREM XCallsCorrect == ASSUME ReadvWhole PROVE Spec => XCallsAreComplete
<1>1. Init => StreamInv
  BY StreamInitKeeps DEF Init
<1>2. StreamInv /\ [Next]_vars => StreamInv' /\ [XStep]_streamVars
  <2>1. SUFFICES ASSUME StreamInv, [Next]_vars PROVE StreamInv' /\ [XStep]_streamVars
    OBVIOUS
  <2>2. IONext \/ UNCHANGED streamVars
    BY <2>1 DEF Next, vars
  <2> QED
    BY <2>1, <2>2, StreamStepKeeps, SetBlockingKeeps DEF streamVars
<1>3. [XStep]_streamVars <=>
        [/\ reader.call \in {"xread", "xreadv"} /\ reader' = Nobody /\ taken' # taken
              => Len(taken') - Len(taken) = SumOf(reader.sizes) \/ end = "writer closed"
         /\ writer.call \in {"xwrite", "xwritev"} /\ told' # told => told' - told = SumOf(writer.sizes)]_streamVars
  BY DEF XStep
<1> QED
  BY <1>1, <1>2, <1>3, PTL DEF Spec, XCallsAreComplete
=============================================================================
