------------------------------- MODULE DirLock -------------------------------
(***************************************************************************)
(* The directory lock: scripts/vault_lock.py (the vault mutex of the       *)
(* Python writers) and daemon/internal/dreaming/lock.go (the singleton of  *)
(* the dreaming pass).  mkdir takes the lock, the directory's mtime is the *)
(* heartbeat, and a waiter that finds it older than `stale` removes the    *)
(* directory and goes back to mkdir.  The Go holder also leaves its pid in *)
(* the directory, and a Go waiter takes over from a dead pid at once.      *)
(* lock.go:44-58 means both to contend on one directory, so the processes  *)
(* here may be of either kind.  RemoveAll is taken as one step.            *)
(*                                                                         *)
(* Time is a counter of ticks.  It may only pass while every running       *)
(* holder is on time with its heartbeat, so a heartbeat is late exactly    *)
(* when its process crashed or was suspended.                              *)
(***************************************************************************)
EXTENDS Integers, FiniteSets

CONSTANTS Procs,
          None,
          GoProcs,         \* the processes that run lock.go, the others vault_lock.py
          Stale,           \* the age, in ticks, past which a holder counts as crashed
          HeartbeatEvery,  \* stale / 2 in the code
          FaultKinds,      \* the faults of a run, of "crash", "pause", "interrupt"
          MaxFaults        \* BOUND: faults in a behaviour

ASSUME DirLockAssumption ==
  /\ None \notin Procs
  /\ GoProcs \subseteq Procs
  /\ Stale \in Nat
  /\ HeartbeatEvery \in Nat
  /\ HeartbeatEvery <= Stale
  /\ MaxFaults \in Nat

VARIABLES dir,      \* the process whose mkdir made the directory, None without one
          age,      \* ticks since the directory's mtime
          pid,      \* the pid file in it
          pc,       \* where each process is in acquire / release
          beating,  \* the processes whose heartbeat thread runs
          beat,     \* ticks since the last heartbeat of each of them
          late,     \* the processes whose deadline has passed
          alive,    \* the processes that have not been killed
          asleep,   \* the processes that are suspended
          faults,   \* faults so far
          overlap   \* history: a takeover met another one, or a holder stopped
                    \* holding without knowing it

lock == <<dir, age, pid>>
thread == <<beating, beat>>
world == <<alive, asleep, faults>>
lockVars == <<lock, pc, thread, late, world, overlap>>

Waiting == {"mkdir", "stat", "readpid", "remove", "wait"}
Holding == {"mark", "hold", "unwind"}
Running(p) == p \in alive /\ p \notin asleep

LockInit ==
  /\ dir = None /\ age = 0 /\ pid = None
  /\ pc = [p \in Procs |-> "idle"]
  /\ beating = {} /\ beat = [p \in Procs |-> 0]
  /\ late = {}
  /\ alive = Procs /\ asleep = {} /\ faults = 0
  /\ overlap = FALSE

MoveTo(p, to) == pc' = [pc EXCEPT ![p] = to]

-----------------------------------------------------------------------------
(* Acquire.                                                                *)

Start(p) ==
  /\ Running(p) /\ pc[p] = "idle"
  /\ MoveTo(p, "mkdir")
  /\ late' = late \ {p}
  /\ UNCHANGED <<lock, thread, world, overlap>>

\* mkdir either makes the directory or finds one
MkdirCall(p) ==
  IF dir = None
    THEN dir' = p /\ age' = 0 /\ pid' = None /\ MoveTo(p, "mark")
    ELSE MoveTo(p, "stat") /\ UNCHANGED lock

Mkdir(p) ==
  /\ Running(p) /\ pc[p] = "mkdir"
  /\ MkdirCall(p)
  /\ UNCHANGED <<thread, late, world, overlap>>

\* (mutant) the pid is written wherever the directory is
PidWrittenBlindly(p) == p

\* the pid file cannot be written into a directory that was taken away
PidWritten(p) == IF dir = None THEN None ELSE p

\* the holder's first write: the pid file (Go), whose creation is a fresh mtime
\* too, or a fresh mtime (Python); then the heartbeat thread starts
Mark(p) ==
  /\ Running(p) /\ pc[p] = "mark"
  /\ pid' = IF p \in GoProcs THEN PidWritten(p) ELSE pid
  /\ age' = IF p \in GoProcs /\ pid # None THEN age ELSE 0
  /\ MoveTo(p, "hold")
  /\ beating' = beating \cup {p} /\ beat' = [beat EXCEPT ![p] = 0]
  /\ UNCHANGED <<dir, late, world, overlap>>

\* (mutant) a holder is declared crashed one heartbeat too early
StaleTooEarly == age >= HeartbeatEvery

IsStale == age > Stale

\* from here on p removes whatever directory it finds
DecideToRemove(p) ==
  /\ MoveTo(p, "remove")
  /\ overlap' = (overlap \/ \E q \in Procs \ {p} : pc[q] = "remove")

\* the age of the directory that is there now: gone, stale, or fresh
Stat(p) ==
  /\ Running(p) /\ pc[p] = "stat"
  /\ \/ dir = None /\ MoveTo(p, "mkdir") /\ UNCHANGED overlap
     \/ dir # None /\ IsStale /\ DecideToRemove(p)
     \/ /\ dir # None /\ ~IsStale
        /\ MoveTo(p, IF p \in GoProcs THEN "readpid" ELSE "wait")
        /\ UNCHANGED overlap
  /\ UNCHANGED <<lock, thread, late, world>>

\* (mutant) an unreadable pid file reads as a dead holder
HolderDeadWhenUnknown == pid \notin alive

\* holderDead: a pid file naming a process that is gone
HolderDead == pid \in Procs /\ pid \notin alive

ReadPid(p) ==
  /\ Running(p) /\ pc[p] = "readpid"
  /\ IF HolderDead THEN DecideToRemove(p)
                   ELSE MoveTo(p, "wait") /\ UNCHANGED overlap
  /\ UNCHANGED <<lock, thread, late, world>>

\* (mutant) a takeover that never removes the directory it found
RemoveNothing(p) == UNCHANGED lock

\* RemoveAll (Go) or rmdir (Python) of the path, whoever made the directory
\* there; rmdir fails, and is ignored, on a directory with a pid file in it
RemoveDir(p) ==
  IF p \in GoProcs \/ pid = None
    THEN dir' = None /\ age' = 0 /\ pid' = None
    ELSE UNCHANGED lock

Remove(p) ==
  /\ Running(p) /\ pc[p] = "remove"
  /\ RemoveDir(p)
  /\ MoveTo(p, "mkdir")
  /\ UNCHANGED <<thread, late, world, overlap>>

\* a fresh lock: give up past the deadline (LockTimeout, ErrHeld), else back off
Wait(p) ==
  /\ Running(p) /\ pc[p] = "wait"
  /\ MoveTo(p, IF p \in late THEN "idle" ELSE "mkdir")
  /\ UNCHANGED <<lock, thread, late, world, overlap>>

DeadlinePasses(p) ==
  /\ pc[p] \in Waiting /\ p \notin late
  /\ late' = late \cup {p}
  /\ UNCHANGED <<lock, pc, thread, world, overlap>>

-----------------------------------------------------------------------------
(* The holder.                                                             *)

\* the heartbeat touches the path; Python's thread ends when it is not there,
\* Go's ignores that
Heartbeat(p) ==
  /\ Running(p) /\ p \in beating
  /\ age' = 0
  /\ beat' = [beat EXCEPT ![p] = 0]
  /\ beating' = IF dir = None /\ p \notin GoProcs THEN beating \ {p} ELSE beating
  /\ UNCHANGED <<dir, pid, pc, late, world, overlap>>

\* the heartbeat stops and the path is removed, whoever made it
Release(p) ==
  /\ Running(p) /\ pc[p] \in {"hold", "unwind"}
  /\ RemoveDir(p)
  /\ MoveTo(p, "idle")
  /\ beating' = beating \ {p}
  /\ UNCHANGED <<beat, late, world, overlap>>

-----------------------------------------------------------------------------
(* Time and faults.                                                        *)

TimePasses ==
  /\ \A p \in Procs : Running(p) =>
       pc[p] # "mark" /\ (p \in beating => beat[p] < HeartbeatEvery)
  /\ age' = IF dir # None /\ age <= Stale THEN age + 1 ELSE age
  /\ beat' = [p \in Procs |-> IF p \in beating /\ beat[p] < HeartbeatEvery
                                THEN beat[p] + 1 ELSE beat[p]]
  /\ UNCHANGED <<dir, pid, pc, beating, late, world, overlap>>

Fault(kind) == kind \in FaultKinds /\ faults < MaxFaults /\ faults' = faults + 1

\* kill -9: no cleanup runs
Crash(p) ==
  /\ Fault("crash") /\ p \in alive
  /\ alive' = alive \ {p}
  /\ MoveTo(p, "dead")
  /\ beating' = beating \ {p}
  /\ UNCHANGED <<lock, beat, late, asleep, overlap>>

\* the holder is suspended (a closed laptop, SIGSTOP) and later goes on
Pause(p) ==
  /\ Fault("pause") /\ Running(p) /\ pc[p] \in Holding
  /\ asleep' = asleep \cup {p}
  /\ overlap' = TRUE
  /\ UNCHANGED <<lock, pc, thread, late, alive>>

Resume(p) ==
  /\ p \in asleep /\ p \in alive
  /\ asleep' = asleep \ {p}
  /\ UNCHANGED <<lock, pc, thread, late, alive, faults, overlap>>

\* SIGINT in a Python holder: _cleanup_all removes its lock directories, and the
\* KeyboardInterrupt then unwinds through __exit__, which releases again
Interrupt(p) ==
  /\ Fault("interrupt") /\ p \notin GoProcs
  /\ Running(p) /\ pc[p] = "hold"
  /\ RemoveDir(p)
  /\ MoveTo(p, "unwind")
  /\ overlap' = TRUE
  /\ UNCHANGED <<thread, late, alive, asleep>>

Acquire(p) ==
  Mkdir(p) \/ Mark(p) \/ Stat(p) \/ ReadPid(p) \/ Remove(p) \/ Wait(p)

LockNext ==
  \/ TimePasses
  \/ \E p \in Procs :
       \/ Start(p) \/ Acquire(p) \/ DeadlinePasses(p)
       \/ Heartbeat(p) \/ Release(p)
       \/ Crash(p) \/ Pause(p) \/ Resume(p) \/ Interrupt(p)

LockSpec == LockInit /\ [][LockNext]_lockVars

\* Callers come back, a process that is neither dead nor suspended runs, a
\* suspended one is resumed, a critical section ends, and time passes.
LockFairSpec ==
  /\ LockSpec
  /\ WF_lockVars(TimePasses)
  /\ \A p \in Procs : WF_lockVars(Start(p)) /\ WF_lockVars(Acquire(p))
                      /\ WF_lockVars(Heartbeat(p)) /\ WF_lockVars(Release(p))
                      /\ WF_lockVars(Resume(p))

-----------------------------------------------------------------------------
Holders == {p \in alive : pc[p] \in Holding}

\* The lock's directory and the processes have the types the code gives them.
LockTypeOK ==
  /\ dir \in Procs \cup {None} /\ age \in 0..Stale + 1 /\ pid \in Procs \cup {None}
  /\ pc \in [Procs -> {"idle", "dead"} \cup Waiting \cup Holding]
  /\ beating \subseteq Procs /\ beat \in [Procs -> 0..HeartbeatEvery]
  /\ late \subseteq Procs /\ alive \subseteq Procs /\ asleep \subseteq Procs
  /\ faults \in 0..MaxFaults /\ overlap \in BOOLEAN
  /\ dir = None => pid = None

\* vault_lock.py:373, "mkdir's atomicity below is the real guard if two waiters
\* race here", and lock.go:120, "a concurrent taker loses the mkdir race
\* cleanly": whatever crashes, at most one process is in the critical section.
MutualExclusion == \A p, q \in Holders : p = q

\* What the protocol does guarantee: at most one holder as long as no two
\* waiters decided on the same takeover, no holder was suspended and none was
\* interrupted; crashed holders alone do not break it.
ExclusiveUnlessOverlap == ~overlap => MutualExclusion

\* vault_lock.py:41-43: the lock of a crashed holder does not stay for ever.
CrashedLockIsReclaimed ==
  \A p \in Procs : (dir = p /\ p \notin alive) ~> dir # p
=============================================================================
