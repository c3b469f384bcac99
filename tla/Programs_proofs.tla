-------------------------- MODULE Programs_proofs --------------------------
(***************************************************************************)
(* Proofs about the lock on a file name: it excludes and names its holder, *)
(* for any number of processes, hosts, deaths and reboots, as long as the  *)
(* boot time is known, deaths and overlapping calls keep apart (Orderly),  *)
(* and a process locks the name through one object: the lock is that of    *)
(* the process, so that a second object would lose it to the first one's   *)
(* unlock () without being told.  That an owner is dead is decided rightly *)
(* without the last two.                                                   *)
(***************************************************************************)
EXTENDS MCPrograms, TLAPS

OneEach == \A o1, o2 \in Objects : ProcOf[o1] = ProcOf[o2] => o1 = o2

Owned(l) == \E x \in Procs : l.host = HostOf[x] /\ l.pid = pid[x] /\ l.time = boot[HostOf[x]]

\* Processes that run on one host have different ids, and only those that run
\* are in a call or rely on the lock.
ProcessesApart ==
    /\ \A h \in Hosts : boot[h] <= crashes + 1
    /\ \A x, y \in Procs : HostOf[x] = HostOf[y] /\ pid[x] = pid[y] /\ Alive(x) => x = y
    /\ \A o \in Objects : holds[o] \/ pc[o] # "idle" => Alive(ProcOf[o])
    /\ crashes = 0 => \A x \in Procs : Alive(x)

\* What a call knows of the link between two system calls: the owner it is about
\* to ask for runs, or the link is still the one that was read; a link that is
\* about to be removed is stale, or that of the caller.
CallOK(o) ==
    /\ holds[o] => link = Now(o)
    /\ pc[o] = "kill" => /\ info[o].host = HostOfObject(o)
                         /\ IF crashes = 0 THEN Owned(info[o]) ELSE info[o] = link
    /\ pc[o] = "zap" => crashes > 0 /\ \A o2 \in Objects : ~holds[o2]
    /\ pc[o] = "unlink" => link = Now(o) /\ op[o] \in {"unlock", "destroy"}

\* Before anyone has died every link is that of a process that runs; afterwards
\* one call at a time is made.
LockInv ==
    /\ TypeOK /\ ProcessesApart
    /\ crashes = 0 /\ link \in Links => Owned(link)
    /\ \A o \in Objects : CallOK(o)
    /\ crashes > 0 => \A o1, o2 \in Objects : pc[o1] # "idle" /\ pc[o2] # "idle" => o1 = o2

-----------------------------------------------------------------------------
LEMMA LinksDiffer == NoLink \notin Links /\ Strange \notin Links /\ NoLink # Strange
BY OwnersAssumption DEF NoLink, Strange, Links

LEMMA NowProperties ==
    ASSUME TypeOK, BootKnown, NEW o \in Objects
    PROVE  /\ ProcOf[o] \in Procs /\ HostOfObject(o) \in Hosts
           /\ Now(o).host = HostOfObject(o) /\ Now(o).pid = pid[ProcOf[o]]
           /\ Now(o).time = boot[HostOfObject(o)] /\ Now(o).time # 0
           /\ Alive(ProcOf[o]) => Now(o) \in Links
<1>1. ProcOf[o] \in Procs /\ HostOfObject(o) \in Hosts
  BY OwnersAssumption DEF HostOfObject
<1>2. pid[ProcOf[o]] \in Pids \cup {0} /\ boot[HostOfObject(o)] \in 1..(MaxCrashes + 1)
  BY <1>1 DEF TypeOK
<1>3. Now(o) = [host |-> HostOfObject(o), pid |-> pid[ProcOf[o]], time |-> boot[HostOfObject(o)]]
  BY DEF Now, BootTime
<1>4. boot[HostOfObject(o)] \in 0..(MaxCrashes + 1) /\ boot[HostOfObject(o)] # 0
  BY <1>2, OwnersAssumption
<1>5. Alive(ProcOf[o]) => Now(o) \in Links
  BY <1>1, <1>2, <1>3, <1>4 DEF Links, Alive
<1> QED
  BY <1>1, <1>3, <1>4, <1>5

\* Two that rely on the lock are one.
LEMMA HoldersAreOne ==
    ASSUME BootKnown, LockInv, NEW o1 \in Objects, NEW o2 \in Objects,
           Alive(ProcOf[o1]), Now(o1) = Now(o2)
    PROVE  ProcOf[o1] = ProcOf[o2]
<1>1. TypeOK /\ ProcessesApart
  BY DEF LockInv
<1>2. /\ ProcOf[o1] \in Procs /\ ProcOf[o2] \in Procs
      /\ HostOfObject(o1) = HostOfObject(o2) /\ pid[ProcOf[o1]] = pid[ProcOf[o2]]
  BY <1>1, NowProperties
<1> QED
  BY <1>1, <1>2 DEF ProcessesApart, HostOfObject

LEMMA LockInitKeeps == Init => LockInv
<1> SUFFICES ASSUME Init PROVE LockInv
  OBVIOUS
<1>1. pid \in [Procs -> Pids] /\ \A x, y \in Procs : x # y /\ HostOf[x] = HostOf[y] => pid[x] # pid[y]
  BY DEF Init
<1>2. TypeOK
  <2>1. boot \in [Hosts -> 1..(MaxCrashes + 1)] /\ crashes \in 0..MaxCrashes
    BY OwnersAssumption DEF Init
  <2>2. pid \in [Procs -> Pids \cup {0}]
    BY <1>1
  <2> QED
    BY <2>1, <2>2 DEF Init, TypeOK, Calls
<1>3. ProcessesApart
  <2>1. \A x \in Procs : Alive(x)
    BY <1>1, OwnersAssumption DEF Alive
  <2>2. \A o \in Objects : ProcOf[o] \in Procs
    BY OwnersAssumption
  <2>3. \A h \in Hosts : boot[h] <= crashes + 1
    BY DEF Init
  <2> QED
    BY <1>1, <2>1, <2>2, <2>3 DEF ProcessesApart
<1>4. link \notin Links
  BY LinksDiffer DEF Init
<1>5. \A o \in Objects : CallOK(o)
  BY DEF Init, CallOK
<1> QED
  BY <1>2, <1>3, <1>4, <1>5 DEF LockInv, Init

-----------------------------------------------------------------------------
(* A step of object o leaves what the others know true.                    *)
LEMMA OthersKeep ==
    ASSUME LockInv, NEW o \in Objects, UNCHANGED system, TypeOK', Alive(ProcOf[o]),
           \A x \in Objects \ {o} : /\ pc'[x] = pc[x] /\ op'[x] = op[x]
                                    /\ info'[x] = info[x] /\ holds'[x] = holds[x],
           crashes > 0 => \A x \in Objects \ {o} : pc[x] = "idle",
           \A x \in Objects \ {o} : holds[x] \/ pc[x] = "unlink" => link' = link,
           crashes = 0 /\ link' \in Links => Owned(link)',
           CallOK(o)'
    PROVE  LockInv'
<1>1. pid' = pid /\ boot' = boot /\ crashes' = crashes
  BY DEF system
<1>2. \A x \in Procs : Alive(x)' = Alive(x)
  BY <1>1 DEF Alive
<1>3. \A x \in Objects : Now(x)' = Now(x)
  BY <1>1 DEF Now, BootTime
<1>4. ProcessesApart'
  <2>1. \A x \in Objects : holds'[x] \/ pc'[x] # "idle" => Alive(ProcOf[x])'
    <3> SUFFICES ASSUME NEW x \in Objects, holds'[x] \/ pc'[x] # "idle" PROVE Alive(ProcOf[x])'
      OBVIOUS
    <3>1. ProcOf[x] \in Procs
      BY OwnersAssumption
    <3>2. Alive(ProcOf[x])
      BY DEF LockInv, ProcessesApart
    <3> QED
      BY <1>1, <3>2 DEF Alive
  <2>2. ProcessesApart
    BY DEF LockInv
  <2> QED
    BY <1>1, <2>1, <2>2 DEF ProcessesApart, Alive
<1>5. ASSUME NEW x \in Objects \ {o}
      PROVE  CallOK(x)'
  <2>1. CallOK(x) /\ Now(x)' = Now(x) /\ TypeOK
    BY <1>3 DEF LockInv
  <2>2. holds'[x] => link' = Now(x)'
    BY <2>1 DEF CallOK
  <2>3. pc'[x] = "unlink" => link' = Now(x)' /\ op'[x] \in {"unlock", "destroy"}
    BY <2>1 DEF CallOK
  <2>4. crashes \in Nat
    BY <2>1, OwnersAssumption DEF TypeOK
  <2>5. ASSUME pc'[x] = "kill"
        PROVE  info'[x].host = HostOfObject(x) /\ crashes = 0 /\ Owned(info[x])
    BY <2>1, <2>4, <2>5 DEF CallOK
  <2>6. pc'[x] # "zap"
    BY <2>1, <2>4 DEF CallOK
  <2>7. ASSUME pc'[x] = "kill"
        PROVE  /\ info'[x].host = HostOfObject(x)'
               /\ crashes' = 0 /\ Owned(info[x])'
    BY <1>1, <2>5, <2>7 DEF Owned, HostOfObject
  <2> QED
    BY <2>2, <2>3, <2>6, <2>7 DEF CallOK
<1>6. \A x \in Objects : CallOK(x)'
  BY <1>5
<1>7. crashes' > 0 => \A o1, o2 \in Objects : pc'[o1] # "idle" /\ pc'[o2] # "idle" => o1 = o2
  BY <1>1
<1> QED
  BY <1>1, <1>4, <1>6, <1>7 DEF LockInv

\* Who is in a call is alone there once someone died.
LEMMA AloneInCall ==
    ASSUME LockInv, NEW o \in Objects, pc[o] # "idle"
    PROVE  /\ Alive(ProcOf[o])
           /\ crashes > 0 => \A x \in Objects \ {o} : pc[x] = "idle"
BY DEF LockInv, ProcessesApart

\* The end of a call.
LEMMA LeaveProperties ==
    ASSUME TypeOK, NEW o \in Objects, NEW kind, Leave(o, kind), link' \in Links \cup {NoLink, Strange}
    PROVE  /\ TypeOK' /\ UNCHANGED system
           /\ \A x \in Objects \ {o} : /\ pc'[x] = pc[x] /\ op'[x] = op[x]
                                       /\ info'[x] = info[x] /\ holds'[x] = holds[x]
           /\ pc'[o] = "idle"
           /\ holds'[o] => /\ kind = "LockSelf" \/ holds[o]
                           /\ op[o] \notin {"unlock", "destroy"}
<1> DEFINE h == IF Locking(o) THEN kind = "LockSelf" ELSE IF op[o] = "isLocked" THEN holds[o] ELSE FALSE
           m == IF op[o] = "destroy" \/ (op[o] = "unlock" /\ kind = "LockSelf") THEN FALSE ELSE named[o]
<1>1. /\ pc' = [pc EXCEPT ![o] = "idle"] /\ op' = [op EXCEPT ![o] = "none"]
      /\ info' = [info EXCEPT ![o] = NoInfo] /\ UNCHANGED system
      /\ holds' = [holds EXCEPT ![o] = h] /\ named' = [named EXCEPT ![o] = m]
  BY DEF Leave, Goto
<1>2. h \in BOOLEAN /\ m \in BOOLEAN
  BY DEF TypeOK
<1>3. h => (kind = "LockSelf" \/ holds[o]) /\ op[o] \notin {"unlock", "destroy"}
  BY DEF Locking
<1> HIDE DEF h, m
<1>4. "idle" \in Calls
  BY DEF Calls
<1>5. TypeOK'
  <2>1. pc' \in [Objects -> Calls]
    BY <1>1, <1>4 DEF TypeOK
  <2>2. op' \in [Objects -> {"none", "tryLock", "lock", "unlock", "destroy", "isLocked"}]
    BY <1>1 DEF TypeOK
  <2>3. info' \in [Objects -> Links \cup {NoInfo}]
    BY <1>1 DEF TypeOK
  <2>4. holds' \in [Objects -> BOOLEAN] /\ named' \in [Objects -> BOOLEAN]
    BY <1>1, <1>2 DEF TypeOK
  <2>5. pid' = pid /\ boot' = boot /\ crashes' = crashes
    BY <1>1 DEF system
  <2> QED
    BY <2>1, <2>2, <2>3, <2>4, <2>5 DEF TypeOK
<1>6. holds'[o] = h /\ pc'[o] = "idle"
  BY <1>1 DEF TypeOK
<1> QED
  BY <1>1, <1>3, <1>5, <1>6 DEF TypeOK

LEMMA AnswerProperties ==
    ASSUME TypeOK, NEW o \in Objects, NEW kind, Answer(o, kind), link' \in Links \cup {NoLink, Strange}
    PROVE  /\ TypeOK' /\ UNCHANGED system
           /\ \A x \in Objects \ {o} : /\ pc'[x] = pc[x] /\ op'[x] = op[x]
                                       /\ info'[x] = info[x] /\ holds'[x] = holds[x]
           /\ pc'[o] \in {"idle", "symlink", "unlink"}
           /\ pc'[o] = "unlink" => kind = "LockSelf" /\ op'[o] \in {"unlock", "destroy"}
           /\ holds'[o] => kind = "LockSelf" \/ holds[o]
<1>1. ASSUME NEW c \in {"symlink", "unlink"}, Goto(o, c), info' = [info EXCEPT ![o] = NoInfo],
             UNCHANGED <<system, op, named, holds>>
      PROVE  /\ TypeOK' /\ pc'[o] = c
             /\ \A x \in Objects \ {o} : pc'[x] = pc[x] /\ info'[x] = info[x]
  <2>1. pc' = [pc EXCEPT ![o] = c] /\ c \in Calls
    BY <1>1 DEF Goto, Calls
  <2>2. pc' \in [Objects -> Calls] /\ info' \in [Objects -> Links \cup {NoInfo}]
    BY <1>1, <2>1 DEF TypeOK
  <2>3. pid' = pid /\ boot' = boot /\ crashes' = crashes
    BY <1>1 DEF system
  <2> QED
    BY <1>1, <2>1, <2>2, <2>3 DEF TypeOK
<1>2. CASE Locking(o) /\ kind = "LockNone" /\ Goto(o, "symlink")
           /\ info' = [info EXCEPT ![o] = NoInfo] /\ UNCHANGED <<system, op, named, holds>>
  BY <1>1, <1>2
<1>3. CASE op[o] \in {"unlock", "destroy"} /\ kind = "LockSelf" /\ Goto(o, "unlink")
           /\ info' = [info EXCEPT ![o] = NoInfo] /\ UNCHANGED <<system, op, named, holds>>
  BY <1>1, <1>3
<1>4. CASE Leave(o, kind)
  BY <1>4, LeaveProperties
<1> QED
  BY <1>2, <1>3, <1>4 DEF Answer

\* A step that only goes on to the next system call.
LEMMA GotoProperties ==
    ASSUME TypeOK, NEW o \in Objects, NEW c \in Calls, Goto(o, c),
           UNCHANGED <<link, system, op, info, named, holds>>
    PROVE  /\ TypeOK' /\ pc'[o] = c
           /\ \A x \in Objects \ {o} : /\ pc'[x] = pc[x] /\ op'[x] = op[x]
                                       /\ info'[x] = info[x] /\ holds'[x] = holds[x]
<1>1. pc' = [pc EXCEPT ![o] = c] /\ pid' = pid /\ boot' = boot /\ crashes' = crashes
  BY DEF Goto, system
<1> QED
  BY <1>1 DEF TypeOK

LEMMA NowKept == UNCHANGED system => \A o \in Objects : Now(o)' = Now(o) /\ Alive(ProcOf[o])' = Alive(ProcOf[o])
BY DEF system, Now, BootTime, Alive

LEMMA OwnedKept == ASSUME UNCHANGED <<link, system>>, LockInv
                   PROVE  crashes = 0 /\ link' \in Links => Owned(link)'
BY DEF system, LockInv, Owned

-----------------------------------------------------------------------------
LEMMA EnterKeeps == ASSUME Orderly, LockInv, NEW o \in Objects, Enter(o) PROVE LockInv'
<1>1. MayCall(o) /\ TypeOK
  BY DEF Enter, StartLock, StartUnlock, StartIsLocked, LockInv
<1>2. PICK c \in {"symlink", "readlink"} : Goto(o, c)
  BY DEF Enter, StartLock, StartUnlock, StartIsLocked
<1>3. PICK how \in {"tryLock", "lock", "unlock", "destroy", "isLocked"} : op' = [op EXCEPT ![o] = how]
  BY DEF Enter, StartLock, StartUnlock, StartIsLocked
<1>4. UNCHANGED <<link, system, info, holds>> /\ named' \in [Objects -> BOOLEAN]
  BY <1>1 DEF Enter, StartLock, StartUnlock, StartIsLocked, TypeOK
<1>5. /\ pc' \in [Objects -> Calls] /\ pc'[o] = c
      /\ \A x \in Objects \ {o} : pc'[x] = pc[x] /\ op'[x] = op[x]
  BY <1>1, <1>2, <1>3 DEF Goto, TypeOK, Calls
<1>6. TypeOK'
  <2>1. pid' = pid /\ boot' = boot /\ crashes' = crashes
    BY <1>4 DEF system
  <2>2. op' \in [Objects -> {"none", "tryLock", "lock", "unlock", "destroy", "isLocked"}]
    BY <1>1, <1>3 DEF TypeOK
  <2> QED
    BY <1>1, <1>4, <1>5, <2>1, <2>2 DEF TypeOK
<1>7. \A x \in Objects \ {o} : crashes > 0 => pc[x] = "idle"
  BY <1>1, OwnersAssumption DEF MayCall, InCall
<1>8. CallOK(o)'
  BY <1>4, <1>5, NowKept DEF CallOK, LockInv
<1>9. crashes = 0 /\ link' \in Links => Owned(link)'
  BY <1>4, OwnedKept
<1> QED
  BY <1>1, <1>4, <1>5, <1>6, <1>7, <1>8, <1>9, OthersKeep DEF MayCall

LEMMA SymlinkKeeps == ASSUME BootKnown, LockInv, NEW o \in Objects, Symlink(o) PROVE LockInv'
<1>1. TypeOK /\ pc[o] = "symlink"
  BY DEF LockInv, Symlink, At
<1>2. Alive(ProcOf[o]) /\ (crashes > 0 => \A x \in Objects \ {o} : pc[x] = "idle")
  BY <1>1, AloneInCall
<1>3. CASE link = NoLink /\ link' = Now(o) /\ Leave(o, "LockSelf")
  <2>1. Now(o) \in Links
    BY <1>1, <1>2, NowProperties
  <2>2. /\ TypeOK' /\ UNCHANGED system /\ pc'[o] = "idle"
        /\ \A x \in Objects \ {o} : /\ pc'[x] = pc[x] /\ op'[x] = op[x]
                                    /\ info'[x] = info[x] /\ holds'[x] = holds[x]
    BY <1>1, <1>3, <2>1, LeaveProperties
  <2>3. \A x \in Objects \ {o} : ~holds[x] /\ pc[x] # "unlink"
    <3> SUFFICES ASSUME NEW x \in Objects, holds[x] \/ pc[x] = "unlink" PROVE FALSE
      OBVIOUS
    <3>1. link = Now(x) /\ Alive(ProcOf[x])
      BY DEF LockInv, CallOK, ProcessesApart
    <3> QED
      BY <3>1, <1>1, <1>3, NowProperties, LinksDiffer
  <2>4. CallOK(o)'
    BY <1>3, <2>2, NowKept DEF CallOK
  <2>5. crashes = 0 /\ link' \in Links => Owned(link)'
    <3>1. /\ ProcOf[o] \in Procs /\ link'.host = HostOf[ProcOf[o]] /\ link'.pid = pid'[ProcOf[o]]
          /\ link'.time = boot'[HostOf[ProcOf[o]]]
      BY <1>1, <1>3, <2>2, NowProperties DEF system, HostOfObject
    <3> QED
      BY <3>1 DEF Owned
  <2> QED
    BY <1>2, <2>2, <2>3, <2>4, <2>5, OthersKeep
<1>4. CASE link = NoLink /\ UNCHANGED link /\ Leave(o, "LockUnknown")
  <2>1. /\ TypeOK' /\ UNCHANGED system /\ pc'[o] = "idle"
        /\ \A x \in Objects \ {o} : /\ pc'[x] = pc[x] /\ op'[x] = op[x]
                                    /\ info'[x] = info[x] /\ holds'[x] = holds[x]
        /\ holds'[o] => holds[o]
    BY <1>1, <1>4, LeaveProperties DEF TypeOK
  <2>2. CallOK(o)'
    BY <1>4, <2>1, NowKept DEF CallOK, LockInv
  <2> QED
    BY <1>2, <1>4, <2>1, <2>2, OwnedKept, OthersKeep
<1>5. CASE Goto(o, "readlink") /\ UNCHANGED <<link, system, op, info, named, holds>>
  <2>1. /\ TypeOK' /\ pc'[o] = "readlink"
        /\ \A x \in Objects \ {o} : /\ pc'[x] = pc[x] /\ op'[x] = op[x]
                                    /\ info'[x] = info[x] /\ holds'[x] = holds[x]
    BY <1>1, <1>5, GotoProperties DEF Calls
  <2>2. CallOK(o)'
    BY <1>5, <2>1, NowKept DEF CallOK, LockInv
  <2> QED
    BY <1>2, <1>5, <2>1, <2>2, OwnedKept, OthersKeep
<1> QED
  BY <1>3, <1>4, <1>5 DEF Symlink

\* An answer that does not touch the link.
LEMMA AnswerKeeps ==
    ASSUME LockInv, NEW o \in Objects, pc[o] # "idle", NEW kind, Answer(o, kind),
           link' = link, kind = "LockSelf" => link = Now(o)
    PROVE  LockInv'
<1>1. TypeOK /\ link' \in Links \cup {NoLink, Strange}
  BY DEF LockInv, TypeOK
<1>2. Alive(ProcOf[o]) /\ (crashes > 0 => \A x \in Objects \ {o} : pc[x] = "idle")
  BY <1>1, AloneInCall
<1>3. /\ TypeOK' /\ UNCHANGED system
      /\ \A x \in Objects \ {o} : /\ pc'[x] = pc[x] /\ op'[x] = op[x]
                                  /\ info'[x] = info[x] /\ holds'[x] = holds[x]
      /\ pc'[o] \in {"idle", "symlink", "unlink"}
      /\ pc'[o] = "unlink" => kind = "LockSelf" /\ op'[o] \in {"unlock", "destroy"}
      /\ holds'[o] => kind = "LockSelf" \/ holds[o]
  BY <1>1, AnswerProperties
<1>4. CallOK(o)'
  BY <1>3, NowKept DEF CallOK, LockInv
<1> QED
  BY <1>2, <1>3, <1>4, OwnedKept, OthersKeep

LEMMA ReadLinkKeeps == ASSUME BootKnown, LockInv, NEW o \in Objects, ReadLink(o) PROVE LockInv'
<1>1. TypeOK /\ pc[o] = "readlink" /\ link' = link
  BY DEF LockInv, ReadLink, At
<1>2. Alive(ProcOf[o]) /\ (crashes > 0 => \A x \in Objects \ {o} : pc[x] = "idle")
  BY <1>1, AloneInCall
<1>3. CASE Goto(o, "stat") /\ UNCHANGED <<system, op, info, named, holds>>
  <2>1. /\ TypeOK' /\ pc'[o] = "stat"
        /\ \A x \in Objects \ {o} : /\ pc'[x] = pc[x] /\ op'[x] = op[x]
                                    /\ info'[x] = info[x] /\ holds'[x] = holds[x]
    BY <1>1, <1>3, GotoProperties DEF Calls
  <2>2. CallOK(o)'
    BY <1>1, <1>3, <2>1, NowKept DEF CallOK, LockInv
  <2> QED
    BY <1>1, <1>2, <1>3, <2>1, <2>2, OwnedKept, OthersKeep
<1>4. CASE Answer(o, "LockOther")
  BY <1>1, <1>4, AnswerKeeps
<1>5. CASE link \in Links /\ link.host = HostOfObject(o) /\ SameBoot(o, link)
           /\ link.pid = pid[ProcOf[o]] /\ Answer(o, "LockSelf")
  <2>1. link = Now(o)
    BY <1>5 DEF Links, SameBoot, Now
  <2> QED
    BY <1>1, <1>5, <2>1, AnswerKeeps
<1>6. CASE /\ link \in Links /\ link.host = HostOfObject(o)
           /\ ~(SameBoot(o, link) /\ link.pid = pid[ProcOf[o]])
           /\ info' = [info EXCEPT ![o] = link]
           /\ Goto(o, IF SameBoot(o, link) THEN "kill" ELSE "zap")
           /\ UNCHANGED <<system, op, named, holds>>
  <2>1. PICK c \in {"kill", "zap"} : pc' = [pc EXCEPT ![o] = c] /\ (c = "kill" <=> SameBoot(o, link))
    BY <1>6 DEF Goto
  <2>2. /\ pc' \in [Objects -> Calls] /\ info' \in [Objects -> Links \cup {NoInfo}]
        /\ pc'[o] = c /\ info'[o] = link
        /\ \A x \in Objects \ {o} : pc'[x] = pc[x] /\ info'[x] = info[x]
    BY <1>1, <1>6, <2>1 DEF TypeOK, Calls
  <2>3. TypeOK'
    <3>1. pid' = pid /\ boot' = boot /\ crashes' = crashes
      BY <1>6 DEF system
    <3> QED
      BY <1>1, <1>6, <2>2, <3>1 DEF TypeOK
  <2>4. crashes \in Nat
    BY <1>1, OwnersAssumption DEF TypeOK
  <2>5. ASSUME c = "kill"
        PROVE  /\ info'[o].host = HostOfObject(o)'
               /\ IF crashes' = 0 THEN Owned(info[o])' ELSE info'[o] = link'
    <3>1. CASE crashes = 0
      <4>1. Owned(link)'
        BY <1>1, <1>6, <3>1, OwnedKept
      <4>2. Owned(info[o])'
        BY <1>1, <2>2, <4>1 DEF Owned
      <4> QED
        BY <1>6, <2>2, <3>1, <4>2 DEF system, HostOfObject
    <3>2. CASE crashes # 0
      BY <1>1, <1>6, <2>2, <3>2 DEF system, HostOfObject
    <3> QED
      BY <3>1, <3>2
  <2>6. ASSUME c = "zap"
        PROVE  crashes' > 0 /\ \A o2 \in Objects : ~holds'[o2]
    <3>1. link.time # boot[HostOfObject(o)]
      <4>1. ~SameBoot(o, link) /\ boot[HostOfObject(o)] # 0
        BY <1>1, <2>1, <2>6, NowProperties
      <4> QED
        BY <4>1 DEF SameBoot, BootTime
    <3>2. ~Owned(link)
      BY <1>6, <3>1 DEF Owned
    <3>3. crashes > 0
      <4>1. crashes # 0
        BY <1>6, <3>2 DEF LockInv
      <4> QED
        BY <2>4, <4>1
    <3>4. ASSUME NEW o2 \in Objects, holds[o2]
          PROVE  FALSE
      <4>1. link = Now(o2)
        BY <3>4 DEF LockInv, CallOK
      <4>2. HostOfObject(o2) = HostOfObject(o) /\ link.time = boot[HostOfObject(o2)]
        BY <4>1, <1>1, <1>6, NowProperties
      <4> QED
        BY <3>1, <4>2
    <3> QED
      BY <1>6, <3>3, <3>4 DEF system
  <2>7. CallOK(o)'
    <3>1. holds'[o] => link' = Now(o)'
      BY <1>1, <1>6, NowKept DEF CallOK, LockInv
    <3> QED
      BY <2>2, <2>5, <2>6, <3>1 DEF CallOK
  <2> QED
    BY <1>1, <1>2, <1>6, <2>2, <2>3, <2>7, OwnedKept, OthersKeep
<1> QED
  BY <1>3, <1>4, <1>5, <1>6 DEF ReadLink

LEMMA StatKeeps == ASSUME LockInv, NEW o \in Objects, Stat(o) PROVE LockInv'
<1>1. PICK kind \in {"LockUnknown", "LockNone"} : Answer(o, kind)
  BY DEF Stat
<1> QED
  BY <1>1, AnswerKeeps DEF Stat, At

LEMMA KillKeeps == ASSUME BootKnown, LockInv, NEW o \in Objects, Kill(o) PROVE LockInv'
<1> DEFINE Runs == \E x \in Procs : HostOf[x] = HostOfObject(o) /\ pid[x] = info[o].pid
<1>1. TypeOK /\ pc[o] = "kill" /\ link' = link
  BY DEF LockInv, Kill, At
<1>2. Alive(ProcOf[o]) /\ (crashes > 0 => \A x \in Objects \ {o} : pc[x] = "idle")
  BY <1>1, AloneInCall
<1>3. CASE Runs
  BY <1>1, <1>3, AnswerKeeps DEF Kill
<1>4. CASE ~Runs
  <2>1. Goto(o, "zap") /\ UNCHANGED <<link, system, op, info, named, holds>>
    BY <1>1, <1>4 DEF Kill
  <2>2. /\ TypeOK' /\ pc'[o] = "zap"
        /\ \A x \in Objects \ {o} : /\ pc'[x] = pc[x] /\ op'[x] = op[x]
                                    /\ info'[x] = info[x] /\ holds'[x] = holds[x]
    BY <1>1, <2>1, GotoProperties DEF Calls
  <2>3. crashes > 0 /\ info[o] = link
    <3>1. ~Owned(info[o])
      BY <1>1, <1>4 DEF Owned, LockInv, CallOK
    <3>2. crashes \in Nat
      BY <1>1, OwnersAssumption DEF TypeOK
    <3> QED
      BY <1>1, <3>1, <3>2 DEF LockInv, CallOK
  <2>4. ASSUME NEW o2 \in Objects, holds[o2]
        PROVE  FALSE
    <3>1. link = Now(o2)
      BY <2>4 DEF LockInv, CallOK
    <3>2. /\ ProcOf[o2] \in Procs /\ HostOfObject(o2) = info[o].host
          /\ pid[ProcOf[o2]] = info[o].pid
      BY <1>1, <2>3, <3>1, NowProperties
    <3>3. info[o].host = HostOfObject(o)
      BY <1>1 DEF LockInv, CallOK
    <3> QED
      BY <1>4, <3>2, <3>3 DEF HostOfObject
  <2>5. CallOK(o)'
    BY <2>1, <2>2, <2>3, <2>4 DEF CallOK, system
  <2> QED
    BY <1>2, <2>1, <2>2, <2>5, OwnedKept, OthersKeep
<1> QED
  BY <1>3, <1>4

LEMMA ZapKeeps == ASSUME LockInv, NEW o \in Objects, Zap(o) PROVE LockInv'
<1>1. TypeOK /\ pc[o] = "zap" /\ link' = NoLink
  BY DEF LockInv, Zap, At
<1>2. Alive(ProcOf[o]) /\ (crashes > 0 => \A x \in Objects \ {o} : pc[x] = "idle")
  BY <1>1, AloneInCall
<1>3. crashes > 0 /\ \A o2 \in Objects : ~holds[o2]
  BY <1>1 DEF LockInv, CallOK
<1>4. PICK kind \in {"LockUnknown", "LockNone"} : Answer(o, kind)
  BY DEF Zap
<1>5. /\ TypeOK' /\ UNCHANGED system
      /\ \A x \in Objects \ {o} : /\ pc'[x] = pc[x] /\ op'[x] = op[x]
                                  /\ info'[x] = info[x] /\ holds'[x] = holds[x]
      /\ pc'[o] \in {"idle", "symlink"}
      /\ holds'[o] => holds[o]
  BY <1>1, <1>4, AnswerProperties
<1>6. CallOK(o)'
  BY <1>3, <1>5 DEF CallOK
<1>7. \A x \in Objects \ {o} : ~holds[x] /\ pc[x] # "unlink"
  BY <1>2, <1>3
<1>8. link' \notin Links
  BY <1>1, LinksDiffer
<1> QED
  BY <1>2, <1>5, <1>6, <1>7, <1>8, OthersKeep

LEMMA UnlinkKeeps == ASSUME BootKnown, OneEach, LockInv, NEW o \in Objects, Unlink(o) PROVE LockInv'
<1>1. TypeOK /\ pc[o] = "unlink" /\ link' = NoLink /\ Leave(o, "LockSelf")
  BY DEF LockInv, Unlink, At
<1>2. Alive(ProcOf[o]) /\ (crashes > 0 => \A x \in Objects \ {o} : pc[x] = "idle")
  BY <1>1, AloneInCall
<1>3. link = Now(o) /\ op[o] \in {"unlock", "destroy"}
  BY <1>1 DEF LockInv, CallOK
<1>4. /\ TypeOK' /\ UNCHANGED system /\ pc'[o] = "idle" /\ ~holds'[o]
      /\ \A x \in Objects \ {o} : /\ pc'[x] = pc[x] /\ op'[x] = op[x]
                                  /\ info'[x] = info[x] /\ holds'[x] = holds[x]
  BY <1>1, <1>3, LeaveProperties
<1>5. CallOK(o)'
  BY <1>4 DEF CallOK
<1>6. ASSUME NEW x \in Objects \ {o}, holds[x] \/ pc[x] = "unlink"
      PROVE  FALSE
  <2>1. link = Now(x)
    BY <1>6 DEF LockInv, CallOK
  <2>2. ProcOf[o] = ProcOf[x]
    BY <1>2, <1>3, <2>1, HoldersAreOne
  <2> QED
    BY <2>2 DEF OneEach
<1>7. link' \notin Links
  BY <1>1, LinksDiffer
<1> QED
  BY <1>2, <1>4, <1>5, <1>6, <1>7, OthersKeep

-----------------------------------------------------------------------------
(* Deaths, reboots and restarts.                                           *)

\* The dead forget; who lives was in no call.
LEMMA ForgetKeeps ==
    ASSUME Orderly, LockInv, NEW dead \in SUBSET Procs, Forget(dead),
           \A h \in Hosts : boot'[h] <= boot[h] + 1 /\ boot'[h] \in Nat \ {0},
           DOMAIN boot' = Hosts /\ boot' = [h \in Hosts |-> boot'[h]],
           \A x \in Procs \ dead : boot'[HostOf[x]] = boot[HostOf[x]]
    PROVE  LockInv'
<1>1. TypeOK /\ ProcessesApart /\ crashes \in Nat /\ crashes' = crashes + 1 /\ crashes < MaxCrashes /\ link' = link
  BY OwnersAssumption DEF LockInv, TypeOK, Forget
<1>2. /\ pid' = [x \in Procs |-> IF x \in dead THEN 0 ELSE pid[x]]
      /\ pc' = [o \in Objects |-> IF ProcOf[o] \in dead THEN "idle" ELSE pc[o]]
      /\ op' = [o \in Objects |-> IF ProcOf[o] \in dead THEN "none" ELSE op[o]]
      /\ info' = [o \in Objects |-> IF ProcOf[o] \in dead THEN NoInfo ELSE info[o]]
      /\ named' = [o \in Objects |-> named[o] /\ ProcOf[o] \notin dead]
      /\ holds' = [o \in Objects |-> holds[o] /\ ProcOf[o] \notin dead]
  BY DEF Forget
<1>3. TypeOK'
  <2>1. boot' \in [Hosts -> 1..(MaxCrashes + 1)]
    <3>1. ASSUME NEW h \in Hosts
          PROVE  boot'[h] \in 1..(MaxCrashes + 1)
      <4>1. boot[h] \in Nat /\ boot[h] <= crashes + 1
        BY <1>1 DEF TypeOK, ProcessesApart
      <4>2. boot'[h] <= boot[h] + 1 /\ boot'[h] \in Nat \ {0}
        OBVIOUS
      <4> QED
        BY <1>1, <4>1, <4>2, OwnersAssumption
    <3> QED
      BY <3>1
  <2>2. pid' \in [Procs -> Pids \cup {0}] /\ crashes' \in 0..MaxCrashes
    BY <1>1, <1>2, OwnersAssumption DEF TypeOK
  <2>3. pc' \in [Objects -> Calls] /\ info' \in [Objects -> Links \cup {NoInfo}]
    BY <1>1, <1>2 DEF TypeOK, Calls
  <2>4. op' \in [Objects -> {"none", "tryLock", "lock", "unlock", "destroy", "isLocked"}]
    BY <1>1, <1>2 DEF TypeOK
  <2>5. named' \in [Objects -> BOOLEAN] /\ holds' \in [Objects -> BOOLEAN]
    BY <1>1, <1>2 DEF TypeOK
  <2> QED
    BY <1>1, <2>1, <2>2, <2>3, <2>4, <2>5 DEF TypeOK
<1>4. \A o \in Objects : pc'[o] = "idle"
  <2> SUFFICES ASSUME NEW o \in Objects, ProcOf[o] \notin dead PROVE pc[o] = "idle"
    BY <1>2
  <2>1. ~InCall(ProcOf[o])
    BY OwnersAssumption DEF Forget
  <2> QED
    BY <2>1 DEF InCall
<1>5. ProcessesApart'
  <2>1. \A h \in Hosts : boot'[h] <= crashes' + 1
    <3> SUFFICES ASSUME NEW h \in Hosts PROVE boot'[h] <= crashes' + 1
      OBVIOUS
    <3>1. boot[h] \in Nat /\ boot[h] <= crashes + 1
      BY <1>1 DEF TypeOK, ProcessesApart
    <3>2. boot'[h] <= boot[h] + 1 /\ boot'[h] \in Nat
      OBVIOUS
    <3> QED
      BY <1>1, <3>1, <3>2
  <2>2. \A x, y \in Procs : HostOf[x] = HostOf[y] /\ pid'[x] = pid'[y] /\ pid'[x] # 0 => x = y
    BY <1>1, <1>2 DEF ProcessesApart, Alive
  <2>3. \A o \in Objects : holds'[o] \/ pc'[o] # "idle" => pid'[ProcOf[o]] # 0
    BY <1>1, <1>2, <1>4, OwnersAssumption DEF ProcessesApart, Alive
  <2>4. crashes' # 0
    BY <1>1
  <2> QED
    BY <2>1, <2>2, <2>3, <2>4 DEF ProcessesApart, Alive
<1>6. ASSUME NEW o \in Objects
      PROVE  CallOK(o)'
  <2>1. ASSUME holds'[o]
        PROVE  link' = Now(o)'
    <3>1. holds[o] /\ ProcOf[o] \in Procs \ dead
      BY <1>2, <2>1, OwnersAssumption
    <3>2. pid'[ProcOf[o]] = pid[ProcOf[o]] /\ boot'[HostOfObject(o)] = boot[HostOfObject(o)]
      BY <1>2, <3>1 DEF HostOfObject
    <3>3. link = Now(o)
      BY <3>1 DEF LockInv, CallOK
    <3> QED
      BY <1>1, <3>2, <3>3 DEF Now, BootTime, HostOfObject
  <2> QED
    BY <1>4, <2>1 DEF CallOK
<1>7. crashes' # 0
  BY <1>1
<1> QED
  BY <1>3, <1>4, <1>5, <1>6, <1>7 DEF LockInv

LEMMA CrashKeeps == ASSUME Orderly, LockInv, NEW x \in Procs, Crash(x) PROVE LockInv'
<1>1. Forget({x}) /\ boot' = boot /\ TypeOK
  BY DEF Crash, LockInv
<1>2. \A h \in Hosts : boot'[h] <= boot[h] + 1 /\ boot'[h] \in Nat \ {0}
  BY <1>1, OwnersAssumption DEF TypeOK
<1>3. DOMAIN boot' = Hosts /\ boot' = [h \in Hosts |-> boot'[h]]
  BY <1>1 DEF TypeOK
<1> QED
  BY <1>1, <1>2, <1>3, ForgetKeeps

LEMMA RebootKeeps == ASSUME Orderly, LockInv, NEW h \in Hosts, Reboot(h) PROVE LockInv'
<1>1. /\ Forget({x \in Procs : HostOf[x] = h}) /\ boot' = [boot EXCEPT ![h] = @ + 1] /\ TypeOK
      /\ {x \in Procs : HostOf[x] = h} \in SUBSET Procs
  BY DEF Reboot, LockInv
<1>2. \A k \in Hosts : boot'[k] <= boot[k] + 1 /\ boot'[k] \in Nat \ {0}
  BY <1>1, OwnersAssumption DEF TypeOK
<1>3. DOMAIN boot' = Hosts /\ boot' = [k \in Hosts |-> boot'[k]]
  BY <1>1 DEF TypeOK
<1>4. \A x \in Procs \ {y \in Procs : HostOf[y] = h} : boot'[HostOf[x]] = boot[HostOf[x]]
  BY <1>1, OwnersAssumption DEF TypeOK
<1> QED
  BY <1>1, <1>2, <1>3, <1>4, ForgetKeeps

LEMMA RestartKeeps == ASSUME LockInv, NEW x \in Procs, Restart(x) PROVE LockInv'
<1>1. TypeOK /\ ProcessesApart /\ pid[x] = 0 /\ UNCHANGED <<link, boot, crashes, pc, op, info, named, holds>>
  BY DEF Restart, LockInv, Alive
<1>2. PICK id \in Pids : /\ \A y \in Procs : HostOf[y] = HostOf[x] => pid[y] # id
                         /\ pid' = [pid EXCEPT ![x] = id]
  BY DEF Restart
<1>3. id # 0 /\ crashes # 0
  BY <1>1, OwnersAssumption DEF ProcessesApart, Alive
<1>4. TypeOK'
  BY <1>1, <1>2 DEF TypeOK
<1>5. \A y \in Procs : pid'[y] = IF y = x THEN id ELSE pid[y]
  BY <1>1, <1>2 DEF TypeOK
<1>6. ProcessesApart'
  <2>1. \A y, z \in Procs : HostOf[y] = HostOf[z] /\ pid'[y] = pid'[z] /\ pid'[y] # 0 => y = z
    BY <1>1, <1>2, <1>5 DEF ProcessesApart, Alive
  <2>2. \A o \in Objects : holds'[o] \/ pc'[o] # "idle" => pid'[ProcOf[o]] # 0
    BY <1>1, <1>3, <1>5, OwnersAssumption DEF ProcessesApart, Alive
  <2> QED
    BY <1>1, <1>3, <2>1, <2>2 DEF ProcessesApart, Alive
<1>7. ASSUME NEW o \in Objects
      PROVE  CallOK(o)'
  <2>1. CallOK(o) /\ ProcOf[o] \in Procs
    BY OwnersAssumption DEF LockInv
  <2>2. holds[o] \/ pc[o] = "unlink" => Now(o)' = Now(o)
    <3> SUFFICES ASSUME holds[o] \/ pc[o] = "unlink" PROVE Now(o)' = Now(o)
      OBVIOUS
    <3>1. ProcOf[o] # x
      BY <1>1 DEF ProcessesApart, Alive
    <3> QED
      BY <1>1, <1>5, <2>1, <3>1 DEF Now, BootTime
  <2> QED
    BY <1>1, <1>3, <2>1, <2>2 DEF CallOK, HostOfObject
<1> QED
  BY <1>1, <1>3, <1>4, <1>6, <1>7 DEF LockInv

-----------------------------------------------------------------------------
LEMMA LockNextKeeps ==
    ASSUME Orderly, BootKnown, OneEach, LockInv, [Next]_vars
    PROVE  LockInv'
<1>1. ASSUME NEW o \in Objects, Step(o)
      PROVE  LockInv'
  BY <1>1, SymlinkKeeps, ReadLinkKeeps, StatKeeps, KillKeeps, ZapKeeps, UnlinkKeeps DEF Step
<1>2. CASE UNCHANGED vars
  <2>1. UNCHANGED <<link, pid, boot, crashes, pc, op, info, named, holds>>
    BY <1>2 DEF vars, system
  <2>2. \A o \in Objects : CallOK(o)'
    BY <2>1 DEF LockInv, CallOK, Now, BootTime, HostOfObject, Owned
  <2>3. TypeOK' /\ ProcessesApart'
    BY <2>1 DEF LockInv, TypeOK, ProcessesApart, Alive
  <2> QED
    BY <2>1, <2>2, <2>3 DEF LockInv, Owned
<1> QED
  BY <1>1, <1>2, EnterKeeps, CrashKeeps, RestartKeeps, RebootKeeps DEF Next

LEMMA LockInvariant == ASSUME Orderly, BootKnown, OneEach PROVE MCSpec => []LockInv
<1>1. MCInit => LockInv
  BY LockInitKeeps DEF MCInit
<1>2. [Locks \/ Trees]_<<part, vars, treeVars>> => [Next]_vars
  BY DEF Locks, Trees
<1>3. LockInv /\ [Locks \/ Trees]_<<part, vars, treeVars>> => LockInv'
  BY <1>2, LockNextKeeps
<1> QED
  BY <1>1, <1>3, PTL DEF MCSpec

(* No two processes rely on the lock at a time, and the link names the one *)
(* that does: through deaths, restarts under the id of another, and        *)
(* reboots (FileNameLock.cpp tryLock, locker, unlock).                     *)
THEOREM LockCorrect == ASSUME Orderly, BootKnown, OneEach PROVE MCSpec => []LockHeld
<1>1. LockInv => LockHeld
  <2> SUFFICES ASSUME LockInv PROVE LockHeld
    OBVIOUS
  <2>1. ASSUME NEW o1 \in Objects, NEW o2 \in Objects, holds[o1], holds[o2]
        PROVE  ProcOf[o1] = ProcOf[o2]
    <3>1. Alive(ProcOf[o1]) /\ Now(o1) = Now(o2)
      BY <2>1 DEF LockInv, ProcessesApart, CallOK
    <3> QED
      BY <3>1, HoldersAreOne
  <2> QED
    BY <2>1 DEF LockHeld, LockInv, CallOK, MutualExclusion, HolderIsNamed
<1> QED
  BY <1>1, LockInvariant, PTL

(* The decision that an owner is dead needs neither Orderly nor one object *)
(* for each process: what a call is about to ask kill () for is an owner   *)
(* on its own host.                                                        *)
AskInv ==
    /\ boot \in [Hosts -> Nat \ {0}] /\ DOMAIN pc = Objects /\ DOMAIN info = Objects
    /\ \A o \in Objects : pc[o] = "kill" => info[o].host = HostOfObject(o)

Decided ==
    \A o \in Objects : ~At(o, "zap") /\ pc'[o] = "zap" =>
        \A x \in Objects : Alive(ProcOf[x]) => info'[o] # Now(x)

\* A step that leads o to anything but kill () and unlink ().
LEMMA NothingDecided ==
    ASSUME AskInv, NEW o \in Objects, NEW c, c \notin {"kill", "zap"}, pc' = [pc EXCEPT ![o] = c],
           info' = info \/ info' = [info EXCEPT ![o] = NoInfo], boot' = boot
    PROVE  AskInv' /\ Decided
<1>1. \A x \in Objects : x # o => pc'[x] = pc[x] /\ info'[x] = info[x]
  BY DEF AskInv
<1>2. pc'[o] = c
  BY DEF AskInv
<1>3. DOMAIN pc' = Objects /\ DOMAIN info' = Objects
  BY DEF AskInv
<1>4. \A x \in Objects : pc'[x] = "kill" => info'[x].host = HostOfObject(x)
  BY <1>1, <1>2 DEF AskInv
<1>5. Decided
  BY <1>1, <1>2 DEF Decided, At
<1> QED
  BY <1>3, <1>4, <1>5 DEF AskInv, HostOfObject

LEMMA LeaveDecides == ASSUME AskInv, NEW o \in Objects, NEW kind, Leave(o, kind) PROVE AskInv' /\ Decided
<1>1. pc' = [pc EXCEPT ![o] = "idle"] /\ info' = [info EXCEPT ![o] = NoInfo] /\ boot' = boot
  BY DEF Leave, Goto, system
<1> QED
  BY <1>1, NothingDecided

LEMMA AnswerDecides == ASSUME AskInv, NEW o \in Objects, NEW kind, Answer(o, kind) PROVE AskInv' /\ Decided
<1>1. CASE Leave(o, kind)
  BY <1>1, LeaveDecides
<1>2. CASE /\ Goto(o, "symlink") \/ Goto(o, "unlink")
           /\ info' = [info EXCEPT ![o] = NoInfo] /\ UNCHANGED system
  <2>1. boot' = boot /\ \E c \in {"symlink", "unlink"} : pc' = [pc EXCEPT ![o] = c]
    BY <1>2 DEF Goto, system
  <2> QED
    BY <1>2, <2>1, NothingDecided
<1> QED
  BY <1>1, <1>2 DEF Answer

\* readlink () tells what the link says: the owner of another boot is dead, and
\* so is one that this process would be.
LEMMA ReadLinkDecides == ASSUME BootKnown, AskInv, NEW o \in Objects, ReadLink(o) PROVE AskInv' /\ Decided
<1>1. CASE Goto(o, "stat") /\ UNCHANGED <<system, op, info, named, holds>>
  <2>1. boot' = boot /\ info' = info /\ pc' = [pc EXCEPT ![o] = "stat"]
    BY <1>1 DEF Goto, system
  <2> QED
    BY <2>1, NothingDecided
<1>2. CASE Answer(o, "LockOther") \/ Answer(o, "LockSelf")
  BY <1>2, AnswerDecides
<1>3. CASE /\ link.host = HostOfObject(o)
           /\ ~(SameBoot(o, link) /\ link.pid = pid[ProcOf[o]])
           /\ info' = [info EXCEPT ![o] = link]
           /\ Goto(o, IF SameBoot(o, link) THEN "kill" ELSE "zap")
           /\ UNCHANGED <<system, op, named, holds>>
  <2>1. /\ boot' = boot /\ info'[o] = link /\ (pc'[o] = "kill" \/ (pc'[o] = "zap" /\ ~SameBoot(o, link)))
        /\ \A x \in Objects \ {o} : pc'[x] = pc[x] /\ info'[x] = info[x]
        /\ DOMAIN pc' = Objects /\ DOMAIN info' = Objects
    BY <1>3 DEF Goto, system, AskInv
  <2>2. AskInv'
    BY <1>3, <2>1 DEF AskInv, HostOfObject
  <2>3. ASSUME ~SameBoot(o, link), NEW x \in Objects, link = Now(x) PROVE FALSE
    <3>1. link.host = HostOfObject(x) /\ link.time = BootTime(HostOfObject(x))
      BY <2>3 DEF Now
    <3>2. HostOfObject(x) \in Hosts
      BY OwnersAssumption DEF HostOfObject
    <3>3. BootTime(HostOfObject(x)) # 0
      BY <3>2 DEF BootTime, AskInv
    <3> QED
      BY <1>3, <2>3, <3>1, <3>3 DEF SameBoot
  <2>4. Decided
    BY <2>1, <2>3 DEF Decided, At
  <2> QED
    BY <2>2, <2>4
<1> QED
  BY <1>1, <1>2, <1>3 DEF ReadLink

LEMMA KillDecides == ASSUME AskInv, NEW o \in Objects, Kill(o) PROVE AskInv' /\ Decided
<1>1. CASE Answer(o, "LockOther")
  BY <1>1, AnswerDecides
<1>2. CASE /\ ~\E y \in Procs : HostOf[y] = HostOfObject(o) /\ pid[y] = info[o].pid
           /\ Goto(o, "zap") /\ UNCHANGED <<system, op, info, named, holds>>
  <2>1. /\ boot' = boot /\ info' = info /\ pc'[o] = "zap"
        /\ \A x \in Objects \ {o} : pc'[x] = pc[x]
        /\ DOMAIN pc' = Objects /\ info[o].host = HostOfObject(o)
    BY <1>2 DEF Goto, system, AskInv, Kill, At
  <2>2. AskInv'
    BY <2>1 DEF AskInv, HostOfObject
  <2>3. ASSUME NEW x \in Objects, info[o] = Now(x) PROVE FALSE
    <3>1. info[o].host = HostOf[ProcOf[x]] /\ info[o].pid = pid[ProcOf[x]] /\ ProcOf[x] \in Procs
      BY <2>3, OwnersAssumption DEF Now, HostOfObject
    <3> QED
      BY <1>2, <2>1, <3>1
  <2>4. Decided
    BY <2>1, <2>3 DEF Decided, At
  <2> QED
    BY <2>2, <2>4
<1> QED
  BY <1>1, <1>2 DEF Kill

\* Deaths, reboots and restarts decide nothing.
LEMMA OthersDecide ==
    ASSUME AskInv, boot' \in [Hosts -> Nat \ {0}], DOMAIN pc' = Objects, DOMAIN info' = Objects,
           \A o \in Objects : pc'[o] = "idle" \/ (pc'[o] = pc[o] /\ info'[o] = info[o])
    PROVE  AskInv' /\ Decided
<1>1. AskInv'
  BY DEF AskInv, HostOfObject
<1>2. Decided
  BY DEF Decided, At
<1> QED
  BY <1>1, <1>2

LEMMA ForgetDecides ==
    ASSUME AskInv, NEW dead, Forget(dead), boot' \in [Hosts -> Nat \ {0}]
    PROVE  AskInv' /\ Decided
<1>1. \A o \in Objects : pc'[o] = "idle" \/ (pc'[o] = pc[o] /\ info'[o] = info[o])
  BY DEF Forget
<1>2. DOMAIN pc' = Objects /\ DOMAIN info' = Objects
  BY DEF Forget
<1> QED
  BY <1>1, <1>2, OthersDecide

LEMMA NextDecides == ASSUME BootKnown, AskInv, [Next]_vars PROVE AskInv' /\ Decided
<1>1. ASSUME NEW o \in Objects, Enter(o) PROVE AskInv' /\ Decided
  <2>1. info' = info /\ boot' = boot /\ \E c \in {"symlink", "readlink"} : pc' = [pc EXCEPT ![o] = c]
    BY <1>1 DEF Enter, StartLock, StartUnlock, StartIsLocked, Goto, system
  <2> QED
    BY <2>1, NothingDecided
<1>2. ASSUME NEW o \in Objects, Symlink(o) PROVE AskInv' /\ Decided
  <2>1. CASE \E kind : Leave(o, kind)
    BY <2>1, LeaveDecides
  <2>2. CASE Goto(o, "readlink") /\ UNCHANGED <<link, system, op, info, named, holds>>
    <3>1. pc' = [pc EXCEPT ![o] = "readlink"] /\ info' = info /\ boot' = boot
      BY <2>2 DEF Goto, system
    <3> QED
      BY <3>1, NothingDecided
  <2> QED
    BY <1>2, <2>1, <2>2 DEF Symlink
<1>3. ASSUME NEW o \in Objects, Stat(o) \/ Zap(o) PROVE AskInv' /\ Decided
  BY <1>3, AnswerDecides DEF Stat, Zap
<1>4. ASSUME NEW o \in Objects, Unlink(o) PROVE AskInv' /\ Decided
  BY <1>4, LeaveDecides DEF Unlink
<1>5. ASSUME NEW x \in Procs, Crash(x) PROVE AskInv' /\ Decided
  BY <1>5, ForgetDecides DEF Crash, AskInv
<1>6. ASSUME NEW h \in Hosts, Reboot(h) PROVE AskInv' /\ Decided
  <2>1. boot' \in [Hosts -> Nat \ {0}]
    <3>1. boot' = [boot EXCEPT ![h] = @ + 1] /\ boot \in [Hosts -> Nat \ {0}]
      BY <1>6 DEF Reboot, AskInv
    <3>2. boot[h] + 1 \in Nat \ {0}
      BY <3>1
    <3> QED
      BY <3>1, <3>2
  <2> QED
    BY <1>6, <2>1, ForgetDecides DEF Reboot
<1>7. CASE UNCHANGED <<boot, pc, info>>
  BY <1>7, OthersDecide DEF AskInv
<1>8. (\E x \in Procs : Restart(x)) \/ UNCHANGED vars => UNCHANGED <<boot, pc, info>>
  BY DEF Restart, vars, system
<1> QED
  BY <1>1, <1>2, <1>3, <1>4, <1>5, <1>6, <1>7, <1>8, ReadLinkDecides, KillDecides DEF Next, Step

(* Whatever dies, reboots, starts again and calls meanwhile, and through   *)
(* any number of objects: an owner is taken for dead only when no process  *)
(* that runs is that owner.  When deaths and overlapping calls keep apart  *)
(* (Orderly), so that nothing comes between the decision and the removal,  *)
(* what is removed is the link of nobody who relies on the lock            *)
(* (FileNameLock.cpp locker, zap).                                         *)
THEOREM ZapsCorrect ==
    ASSUME BootKnown
    PROVE  MCSpec => DeadWhenDecided /\ (Orderly /\ OneEach => OnlyStaleIsZapped)
<1>1. MCInit => AskInv
  <2>1. 1 \in Nat \ {0}
    OBVIOUS
  <2> QED
    BY <2>1 DEF MCInit, Init, AskInv
<1>2. AskInv /\ [Locks \/ Trees]_<<part, vars, treeVars>> => AskInv' /\ Decided
  <2>1. [Locks \/ Trees]_<<part, vars, treeVars>> => [Next]_vars
    BY DEF Locks, Trees
  <2> QED
    BY <2>1, NextDecides
<1>3. MCSpec => DeadWhenDecided
  <2>1. MCSpec => [][Decided]_vars
    BY <1>1, <1>2, PTL DEF MCSpec
  <2> QED
    BY <2>1 DEF DeadWhenDecided, Decided
<1>4. ASSUME Orderly, OneEach PROVE MCSpec => OnlyStaleIsZapped
  <2>1. MCSpec => []LockInv
    BY <1>4, LockInvariant
  <2>2. LockInv => (\A o \in Objects : At(o, "zap") /\ pc'[o] # "zap" /\ link # NoLink /\ link' = NoLink =>
                        \A x \in Objects : holds[x] => link # Now(x))
    BY DEF LockInv, CallOK, At
  <2> QED
    BY <1>3, <2>1, <2>2, PTL DEF OnlyStaleIsZapped
<1> QED
  BY <1>3, <1>4
=============================================================================
