---------------------------- MODULE FileNameLock ----------------------------
(***************************************************************************)
(* FileNameLock: a lock on a file name, kept as the symbolic link          *)
(* ".#name" -> "user@host.pid:boottime".  The lock for one name is         *)
(* modelled; a step is one system call (symlink, readlink, stat, kill,     *)
(* unlink), and the calls of different processes interleave.  The objects  *)
(* of one process are used by one thread.                                  *)
(*                                                                         *)
(* Processes die without unlocking, come back with another process id, and *)
(* hosts reboot, at most MaxCrashes times together.  The user name plays   *)
(* no part in any decision and is left out of the link.                    *)
(***************************************************************************)
EXTENDS Integers, FiniteSets

CONSTANTS
    Objects,        \* the FileNameLock objects for this name
    Procs, Hosts,   \* processes and the hosts they run on
    ProcOf, HostOf, \* the process of an object, the host of a process
    Pids,           \* process ids
    MaxCrashes,     \* bound on deaths and reboots
    Restarts,       \* whether a dead process is started again
    BootKnown,      \* whether getBootTime () finds a boot time
    Orderly         \* whether death and overlapping calls keep apart: a process
                    \* dies while no other is inside a call, and after a death
                    \* one process at a time is

ASSUME OwnersAssumption ==
    /\ ProcOf \in [Objects -> Procs]
    /\ HostOf \in [Procs -> Hosts]
    /\ Pids \subseteq Nat \ {0}
    /\ MaxCrashes \in Nat
    /\ Restarts \in BOOLEAN
    /\ BootKnown \in BOOLEAN
    /\ Orderly \in BOOLEAN

VARIABLES
    link,       \* what readlink on the lock name gives
    pid,        \* per process: the id it runs under, 0 while it does not run
    boot,       \* per host: how often it booted
    crashes,
    pc,         \* per object: the system call it makes next
    op,         \* per object: the member function it is in
    info,       \* per object: m_host, m_pid and m_time, while in a call
    named,      \* per object: m_filename is not empty
    holds       \* history, per object: tryLock returned LockSelf

system == <<pid, boot, crashes>>
vars == <<link, system, pc, op, info, named, holds>>

NoLink == [host |-> "none", pid |-> 0, time |-> 0]
Strange == [host |-> "strange", pid |-> 0, time |-> 0]   \* no link of ours
Links == [host : Hosts, pid : Pids, time : 0..(MaxCrashes + 1)]
NoInfo == NoLink

Calls == {"idle", "symlink", "readlink", "stat", "kill", "zap", "unlink"}

TypeOK ==
    /\ link \in Links \cup {NoLink, Strange}
    /\ pid \in [Procs -> Pids \cup {0}]
    /\ boot \in [Hosts -> 1..(MaxCrashes + 1)]
    /\ crashes \in 0..MaxCrashes
    /\ pc \in [Objects -> Calls]
    /\ op \in [Objects -> {"none", "tryLock", "lock", "unlock", "destroy", "isLocked"}]
    /\ info \in [Objects -> Links \cup {NoInfo}]
    /\ named \in [Objects -> BOOLEAN]
    /\ holds \in [Objects -> BOOLEAN]

Init ==
    /\ link \in {NoLink, Strange}
    /\ pid \in {f \in [Procs -> Pids] :
                    \A p, q \in Procs : p # q /\ HostOf[p] = HostOf[q] => f[p] # f[q]}
    /\ boot = [h \in Hosts |-> 1]
    /\ crashes = 0
    /\ pc = [o \in Objects |-> "idle"]
    /\ op = [o \in Objects |-> "none"]
    /\ info = [o \in Objects |-> NoInfo]
    /\ named = [o \in Objects |-> FALSE]
    /\ holds = [o \in Objects |-> FALSE]

-----------------------------------------------------------------------------
HostOfObject(o) == HostOf[ProcOf[o]]

\* getBootTime (); zero if there is no record of it.
BootTime(h) == IF BootKnown THEN boot[h] ELSE 0

\* now (): what the link of a lock created by o says.
Now(o) == [host |-> HostOfObject(o), pid |-> pid[ProcOf[o]],
           time |-> BootTime(HostOfObject(o))]

Alive(p) == pid[p] # 0

InCall(p) == \E o \in Objects : ProcOf[o] = p /\ pc[o] # "idle"

MayCall(o) ==
    /\ Alive(ProcOf[o])
    /\ ~InCall(ProcOf[o])
    /\ Orderly /\ crashes > 0 => \A p \in Procs : ~InCall(p)

At(o, call) == pc[o] = call

Goto(o, call) == pc' = [pc EXCEPT ![o] = call]

-----------------------------------------------------------------------------
(* Entering a call.                                                        *)

\* tryLock (name), on its own or from lock (name), which returns whatever
\* tryLock () answers: it throws on LockNone only, and that is never returned.
StartLock(o, how) ==
    /\ MayCall(o)
    /\ how \in {"tryLock", "lock"}
    /\ op' = [op EXCEPT ![o] = how]
    /\ named' = [named EXCEPT ![o] = TRUE]
    /\ Goto(o, "symlink")
    /\ UNCHANGED <<link, system, info, holds>>

\* unlock (), on its own or from the destructor.
StartUnlock(o, how) ==
    /\ MayCall(o)
    /\ named[o]
    /\ how \in {"unlock", "destroy"}
    /\ op' = [op EXCEPT ![o] = how]
    /\ Goto(o, "readlink")
    /\ UNCHANGED <<link, system, info, named, holds>>

\* isLocked asks through an object of its own.
StartIsLocked(o) ==
    /\ MayCall(o)
    /\ ~named[o]
    /\ op' = [op EXCEPT ![o] = "isLocked"]
    /\ Goto(o, "readlink")
    /\ UNCHANGED <<link, system, info, named, holds>>

-----------------------------------------------------------------------------
(* What the caller of locker () does with its answer.                      *)

Locking(o) == op[o] \in {"tryLock", "lock"}

\* The call is over.  Whoever unlocks no longer relies on the lock.
Leave(o, kind) ==
    /\ Goto(o, "idle")
    /\ op' = [op EXCEPT ![o] = "none"]
    /\ holds' = [holds EXCEPT ![o] = IF Locking(o) THEN kind = "LockSelf"
                                     ELSE IF op[o] = "isLocked" THEN holds[o]
                                     ELSE FALSE]
    /\ named' = [named EXCEPT ![o] =
                     IF op[o] = "destroy" \/ (op[o] = "unlock" /\ kind = "LockSelf")
                     THEN FALSE ELSE named[o]]
    /\ info' = [info EXCEPT ![o] = NoInfo]
    /\ UNCHANGED system

\* locker () came to kind: tryLock tries again if nobody has the lock,
\* unlock removes the link if this process has it.
Answer(o, kind) ==
    \/ /\ Locking(o) /\ kind = "LockNone"
       /\ Goto(o, "symlink")
       /\ info' = [info EXCEPT ![o] = NoInfo]
       /\ UNCHANGED <<system, op, named, holds>>
    \/ /\ op[o] \in {"unlock", "destroy"} /\ kind = "LockSelf"
       /\ Goto(o, "unlink")
       /\ info' = [info EXCEPT ![o] = NoInfo]
       /\ UNCHANGED <<system, op, named, holds>>
    \/ /\ Locking(o) => kind # "LockNone"
       /\ op[o] \in {"unlock", "destroy"} => kind # "LockSelf"
       /\ Leave(o, kind)

-----------------------------------------------------------------------------
(* The system calls.                                                       *)

\* A mutant of Symlink: a link that is there already is replaced.
SymlinkReplaces(o) ==
    /\ At(o, "symlink")
    /\ link' = Now(o)
    /\ Leave(o, "LockSelf")

\* A link that cannot be made for another reason than EEXIST ends the loop.
Symlink(o) ==
    /\ At(o, "symlink")
    /\ \/ link = NoLink /\ link' = Now(o) /\ Leave(o, "LockSelf")
       \/ link = NoLink /\ UNCHANGED link /\ Leave(o, "LockUnknown")
       \/ /\ link # NoLink
          /\ Goto(o, "readlink")
          /\ UNCHANGED <<link, system, op, info, named, holds>>

SameBoot(o, l) == l.time # 0 /\ l.time = BootTime(HostOfObject(o))

\* readlink and what locker () decides from the link alone.
ReadLink(o) ==
    /\ At(o, "readlink")
    /\ UNCHANGED link
    /\ \/ /\ link \in {NoLink, Strange}
          /\ Goto(o, "stat")
          /\ UNCHANGED <<system, op, info, named, holds>>
       \/ /\ link \in Links
          /\ \/ link.host # HostOfObject(o) /\ Answer(o, "LockOther")
             \/ /\ link.host = HostOfObject(o)
                /\ SameBoot(o, link)
                /\ link.pid = pid[ProcOf[o]]
                /\ Answer(o, "LockSelf")
             \/ /\ link.host = HostOfObject(o)
                /\ ~(SameBoot(o, link) /\ link.pid = pid[ProcOf[o]])
                /\ info' = [info EXCEPT ![o] = link]
                /\ Goto(o, IF SameBoot(o, link) THEN "kill" ELSE "zap")
                /\ UNCHANGED <<system, op, named, holds>>

\* exists () after a failed readlink.  It follows links, and a lock made in
\* the meantime leads nowhere.
Stat(o) ==
    /\ At(o, "stat")
    /\ Answer(o, IF link = Strange THEN "LockUnknown" ELSE "LockNone")
    /\ UNCHANGED link

\* A mutant of Kill: EPERM, for the process of another user, counts as none.
KillOwn(o) ==
    /\ At(o, "kill")
    /\ \/ /\ \E p \in Procs : HostOf[p] = HostOfObject(o) /\ pid[p] = info[o].pid
          /\ Answer(o, "LockOther")
       \/ Goto(o, "zap") /\ UNCHANGED <<system, op, info, named, holds>>
    /\ UNCHANGED link

\* kill (pid, 0): any process of that id will do.
Kill(o) ==
    /\ At(o, "kill")
    /\ IF \E p \in Procs : HostOf[p] = HostOfObject(o) /\ pid[p] = info[o].pid
       THEN Answer(o, "LockOther")
       ELSE Goto(o, "zap") /\ UNCHANGED <<system, op, info, named, holds>>
    /\ UNCHANGED link

\* unlink of a lock found stale: it removes what is there by now.
Zap(o) ==
    /\ At(o, "zap")
    /\ link' = NoLink
    /\ Answer(o, IF link = NoLink THEN "LockUnknown" ELSE "LockNone")

\* unlink and reset () in unlock.
Unlink(o) ==
    /\ At(o, "unlink")
    /\ link' = NoLink
    /\ Leave(o, "LockSelf")

-----------------------------------------------------------------------------
(* Processes die, are started again, and hosts reboot.                     *)

Forget(dead) ==
    /\ pid' = [p \in Procs |-> IF p \in dead THEN 0 ELSE pid[p]]
    /\ pc' = [o \in Objects |-> IF ProcOf[o] \in dead THEN "idle" ELSE pc[o]]
    /\ op' = [o \in Objects |-> IF ProcOf[o] \in dead THEN "none" ELSE op[o]]
    /\ info' = [o \in Objects |-> IF ProcOf[o] \in dead THEN NoInfo ELSE info[o]]
    /\ named' = [o \in Objects |-> named[o] /\ ProcOf[o] \notin dead]
    /\ holds' = [o \in Objects |-> holds[o] /\ ProcOf[o] \notin dead]
    /\ crashes < MaxCrashes
    /\ Orderly => \A p \in Procs \ dead : ~InCall(p)
    /\ crashes' = crashes + 1
    /\ UNCHANGED link

Crash(p) == Alive(p) /\ Forget({p}) /\ UNCHANGED boot

Reboot(h) ==
    /\ Forget({p \in Procs : HostOf[p] = h})
    /\ boot' = [boot EXCEPT ![h] = @ + 1]

Restart(p) ==
    /\ Restarts
    /\ ~Alive(p)
    /\ \E id \in Pids :
           /\ \A q \in Procs : HostOf[q] = HostOf[p] => pid[q] # id
           /\ pid' = [pid EXCEPT ![p] = id]
    /\ UNCHANGED <<link, boot, crashes, pc, op, info, named, holds>>

-----------------------------------------------------------------------------
Enter(o) ==
    \/ \E how \in {"tryLock", "lock"} : StartLock(o, how)
    \/ \E how \in {"unlock", "destroy"} : StartUnlock(o, how)
    \/ StartIsLocked(o)

Step(o) ==
    Symlink(o) \/ ReadLink(o) \/ Stat(o) \/ Kill(o) \/ Zap(o) \/ Unlink(o)

Next ==
    \/ \E o \in Objects : Enter(o) \/ Step(o)
    \/ \E p \in Procs : Crash(p) \/ Restart(p)
    \/ \E h \in Hosts : Reboot(h)

Spec == Init /\ [][Next]_vars


-----------------------------------------------------------------------------
(* tryLock answers LockSelf only "if the lock was successfully acquired":  *)
(* no two processes rely on the lock at a time.                            *)
MutualExclusion ==
    \A o, q \in Objects : holds[o] /\ holds[q] => ProcOf[o] = ProcOf[q]

(* Whoever relies on the lock is the owner that the link names, so that    *)
(* the next one to look finds it.                                          *)
HolderIsNamed == \A o \in Objects : holds[o] => link = Now(o)

(* The owner that a link names is taken for dead only when no process that *)
(* runs is that owner, whatever dies, reboots, starts under the id of      *)
(* another and calls meanwhile (locker).                                   *)
DeadWhenDecided ==
    [][\A o \in Objects : ~At(o, "zap") /\ pc'[o] = "zap" =>
          \A x \in Objects : Alive(ProcOf[x]) => info'[o] # Now(x)]_vars

(* Nor does any other process remove the link of one that relies on it:    *)
(* what was taken for a dead owner's link is one when it is removed.       *)
OnlyStaleIsZapped ==
    /\ DeadWhenDecided
    /\ [][\A o \in Objects : At(o, "zap") /\ pc'[o] # "zap" /\ link # NoLink /\ link' = NoLink =>
          \A x \in Objects : holds[x] => link # Now(x)]_vars

(* The retry loop of tryLock ends: a call goes on for ever only while the  *)
(* lock is made and removed for ever by others, whatever was found at the  *)
(* name and whoever died.                                                  *)
CallsReturn ==
    \A o \in Objects : []<>(pc[o] = "idle") \/ []<><<link' # link>>_vars
=============================================================================
