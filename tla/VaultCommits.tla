---------------------------- MODULE VaultCommits ----------------------------
(***************************************************************************)
(* The vault committer: daemon/internal/watch/watch.go asks git what is    *)
(* dirty, attributes each path, and records one commit per origin through  *)
(* daemon/internal/vcs/git.go, under git's own index.lock (indexlock.go),  *)
(* with one repair and one retry when an object is missing (heal.go).  A   *)
(* path that is missing is quarantined, and its removal recorded only when *)
(* a second look after the grace finds it missing too.                     *)
(*                                                                         *)
(* The vault is a cloud-sync mount: files change and vanish under the      *)
(* committer, some come back.  A git client stages in the same index.      *)
(* Time is what the code can tell of it: a mark counts or not, an absence  *)
(* is ripe or not.  A commit records the whole index.                      *)
(***************************************************************************)
EXTENDS Integers, FiniteSets

CONSTANTS Paths,
          PhonePaths,   \* those inside the phone's sync set
          Own,          \* the origins the daemon marks its writes with
          None,
          MaxChanges,   \* BOUND: changes of files
          MaxFaults     \* BOUND: kills, failing calls, lost objects, and uses of the CLI

ASSUME CommitsAssumption ==
  /\ PhonePaths \subseteq Paths
  /\ Own \subseteq {"capture", "probe"}
  /\ None \notin {"capture", "phone", "local", "probe"}
  /\ None \notin {"blank", "daemon", "dead", "reused", "cli"}
  /\ None \notin [Paths -> Nat]
  /\ MaxChanges \in Nat
  /\ MaxFaults \in Nat

Origins == {"capture", "phone", "local", "probe"}

VARIABLES wt,        \* the version of each file, 0 when it is missing
          away,      \* the version a file in transit will come back with
          idx, head, \* the version git's index and HEAD hold
          by,        \* the origin of the commit that last changed the path in HEAD
          mark,      \* selfWritten: what the daemon says it was doing, while it counts
          pend,      \* pendingDeletes: the origin an absence was first seen under
          ripe,      \* the absences older than the grace
          lock,      \* what index.lock says: nothing yet, the daemon, a daemon that
                     \* was killed, one whose pid is in use again, a git client
          gone,      \* an object go-git's pack list does not reach
          pc,        \* where the watcher goroutine is
          dirty,     \* what Dirty reported
          groups,    \* the paths still to commit, by origin
          origin,    \* the origin being committed
          batch,     \* the paths of that commit
          work,      \* those of them still to look at
          staged,    \* its paths that were staged
          saved,     \* the index and the quarantine (and the history) when the commit began
          retried,   \* this is the second attempt
          sweep,     \* the cycle is a tick: the sweep follows
          cliIdx,    \* the index a git client is about to write, None without one
          changes, faults,
          first,     \* history: the origin under which the running absence was first seen
          waited     \* history: the absences a grace has passed over

disk == <<wt, away, changes>>
git == <<idx, head, by>>
quarantine == <<pend, ripe>>
cycle == <<dirty, groups, origin, batch, work, staged, saved, retried, sweep>>
history == <<first, waited>>
vars == <<disk, git, mark, quarantine, lock, gone, pc, cycle, cliIdx, faults, history>>

NoGroups == [o \in Origins |-> {}]
Nothing == [idx |-> [p \in Paths |-> 0], pend |-> [p \in Paths |-> None], ripe |-> {},
            first |-> [p \in Paths |-> None], waited |-> {}]

\* a vault whose files are all committed, the daemon starting
Init ==
  /\ wt = [p \in Paths |-> 1] /\ away = [p \in Paths |-> 0]
  /\ idx = wt /\ head = wt /\ by = [p \in Paths |-> "local"]
  /\ mark = [p \in Paths |-> None]
  /\ pend = [p \in Paths |-> None] /\ ripe = {}
  /\ lock = None /\ gone = FALSE /\ pc = "idle"
  /\ dirty = {} /\ groups = NoGroups /\ origin = None
  /\ batch = {} /\ work = {} /\ staged = {}
  /\ saved = Nothing /\ retried = FALSE /\ sweep = FALSE
  /\ cliIdx = None /\ changes = 0 /\ faults = 0
  /\ first = [p \in Paths |-> None] /\ waited = {}

Fault == faults < MaxFaults /\ faults' = faults + 1

-----------------------------------------------------------------------------
(* The vault, and everybody else in it.                                    *)

SetFile(p, v, later) ==
  /\ wt' = [wt EXCEPT ![p] = v] /\ away' = [away EXCEPT ![p] = later]

\* an edit, or a file written anew
Edit(p) ==
  /\ changes < MaxChanges /\ changes' = changes + 1
  /\ SetFile(p, changes + 2, 0)
  /\ UNCHANGED <<git, mark, quarantine, lock, gone, pc, cycle, cliIdx, faults, history>>

\* the file goes away: for good, or to be moved into place again
Vanish(p) ==
  /\ wt[p] # 0 /\ changes < MaxChanges /\ changes' = changes + 1
  /\ \E later \in {0, wt[p]} : SetFile(p, 0, later)
  /\ UNCHANGED <<git, mark, quarantine, lock, gone, pc, cycle, cliIdx, faults, history>>

ComeBack(p) ==
  /\ away[p] # 0 /\ SetFile(p, away[p], 0)
  /\ UNCHANGED <<changes, git, mark, quarantine, lock, gone, pc, cycle, cliIdx, faults, history>>

\* the daemon writes a capture, or writes and retires its probe, and then says so
Mark(p, o) ==
  /\ mark[p] = None /\ Fault
  /\ mark' = [mark EXCEPT ![p] = o]
  /\ UNCHANGED <<disk, git, quarantine, lock, gone, pc, cycle, cliIdx, history>>

\* thirty seconds: an older mark is not looked at any more
MarkExpires(p) ==
  /\ mark[p] # None /\ mark' = [mark EXCEPT ![p] = None]
  /\ UNCHANGED <<disk, git, quarantine, lock, gone, pc, cycle, cliIdx, faults, history>>

GracePasses(p) ==
  /\ pend[p] # None /\ p \notin ripe
  /\ ripe' = ripe \cup {p} /\ waited' = waited \cup {p}
  /\ UNCHANGED <<disk, git, mark, pend, lock, gone, pc, cycle, cliIdx, faults, first>>

\* git add, or git rm --cached: the index is read, changed, and written back
CliReads(p) ==
  /\ lock = None /\ cliIdx = None /\ Fault
  /\ lock' = "cli"
  /\ cliIdx' = [idx EXCEPT ![p] = IF wt[p] # idx[p] THEN wt[p] ELSE 0]
  /\ UNCHANGED <<disk, git, mark, quarantine, gone, pc, cycle, history>>

CliWrites ==
  /\ cliIdx # None
  /\ idx' = cliIdx /\ cliIdx' = None
  /\ lock' = IF lock = "cli" THEN None ELSE lock
  /\ UNCHANGED <<disk, head, by, mark, quarantine, gone, pc, cycle, faults, history>>

\* a gc in another process moves the objects go-git has its pack list of
ObjectsMove ==
  /\ ~gone /\ Fault /\ gone' = TRUE
  /\ UNCHANGED <<disk, git, mark, quarantine, lock, pc, cycle, cliIdx, history>>

-----------------------------------------------------------------------------
(* A cycle: Dirty, committable, attribute.                                 *)

\* the next commit, the sweep of a tick, or the end of the cycle
After(rest) ==
  /\ groups' = rest /\ origin' = None /\ batch' = {} /\ work' = {} /\ staged' = {}
  /\ saved' = Nothing /\ retried' = FALSE
  /\ IF rest # NoGroups
       THEN pc' = "next" /\ UNCHANGED sweep
       ELSE pc' = (IF sweep THEN "sweep" ELSE "idle") /\ sweep' = FALSE

\* (mutant) only the worktree is looked at, not what is staged
WorktreeDiffers(p) == wt[p] # idx[p]

IsDirty(p) == idx[p] # head[p] \/ wt[p] # idx[p]

\* Dirty, which repairs and retries when an object is missing
ReadStatus(tick) ==
  /\ pc = "idle"
  /\ \/ /\ dirty' = {p \in Paths : IsDirty(p)}
        /\ gone' = FALSE /\ pc' = "attribute" /\ sweep' = tick
        /\ UNCHANGED faults
     \/ /\ gone /\ Fault
        /\ pc' = IF tick THEN "sweep" ELSE "idle"
        /\ UNCHANGED <<dirty, gone, sweep>>
  /\ UNCHANGED <<disk, git, mark, quarantine, lock, groups, origin, batch, work, staged,
                 saved, retried, cliIdx, history>>

\* a debounce window that closed; a tick, which goes on to the sweep
Flush == ReadStatus(FALSE)
Tick == ReadStatus(TRUE)

Attribution(p) ==
  IF mark[p] # None THEN mark[p] ELSE IF p \in PhonePaths THEN "phone" ELSE "local"

\* every mark looked at is used up, whatever becomes of the commit
Attribute ==
  /\ pc = "attribute"
  /\ mark' = [p \in Paths |-> IF p \in dirty THEN None ELSE mark[p]]
  /\ dirty' = {}
  /\ After([o \in Origins |-> {p \in dirty : Attribution(p) = o}])
  /\ UNCHANGED <<disk, git, quarantine, lock, gone, cliIdx, faults, history>>

-----------------------------------------------------------------------------
(* Commit: index.lock, the paths one by one, the commit.                   *)

\* (mutant) the daemon does not wait for another client's lock
LockIsAnyones == TRUE

\* nobody's, or one that names a daemon that is dead
LockIsFree == lock \in {None, "dead"}

\* the file is created first, and says whose it is only after that
TakeLock == LockIsFree /\ lock' = "blank"

\* what the lock was taken for
Claims == [claim |-> "stage", claimSweep |-> "look", claimRepack |-> "repack"]

\* the owner line; a write that fails leaves the lock blank, and is not looked at
Sign ==
  /\ pc \in DOMAIN Claims /\ pc' = Claims[pc]
  /\ \/ lock' = "daemon" /\ UNCHANGED faults
     \/ Fault /\ UNCHANGED lock
  /\ UNCHANGED <<disk, git, mark, quarantine, gone, cycle, cliIdx, history>>

Begin ==
  /\ pc = "next" /\ TakeLock
  /\ \E o \in Origins :
       /\ groups[o] # {}
       /\ origin' = o /\ batch' = groups[o] /\ groups' = [groups EXCEPT ![o] = {}]
  /\ work' = batch' /\ staged' = {}
  /\ saved' = [idx |-> idx, pend |-> pend, ripe |-> ripe, first |-> first, waited |-> waited]
  /\ retried' = FALSE
  /\ pc' = "claim"
  /\ UNCHANGED <<disk, git, mark, quarantine, gone, dirty, sweep, cliIdx, faults, history>>

\* ten seconds of another client's lock: this commit is skipped
SkipCommit ==
  /\ pc = "next" /\ ~LockIsFree
  /\ \E o \in Origins : groups[o] # {} /\ After([groups EXCEPT ![o] = {}])
  /\ UNCHANGED <<disk, git, mark, quarantine, lock, gone, dirty, cliIdx, faults, history>>

\* (mutant) a path that is back keeps its place in the quarantine
WithdrawNothing(p) == pend' = pend /\ ripe' = ripe

Withdraw(p) == pend' = [pend EXCEPT ![p] = None] /\ ripe' = ripe \ {p}

\* the file is there: whatever was suspected of it is over
StagePresent(p) ==
  /\ wt[p] # 0
  /\ Withdraw(p)
  /\ first' = [first EXCEPT ![p] = None] /\ waited' = waited \ {p}
  /\ \/ idx' = [idx EXCEPT ![p] = wt[p]] /\ staged' = staged \cup {p} /\ UNCHANGED faults
     \/ Fault /\ UNCHANGED <<idx, staged>>

\* absenceConfirmed
Confirmed(p) == pend[p] # None /\ p \in ripe

\* the first look opens the quarantine
Quarantine(p) ==
  /\ pend' = [pend EXCEPT ![p] = IF pend[p] = None THEN origin ELSE pend[p]]
  /\ first' = [first EXCEPT ![p] = IF pend[p] = None THEN origin ELSE first[p]]
  /\ waited' = IF pend[p] = None THEN waited \ {p} ELSE waited
  /\ UNCHANGED ripe

\* stageDeletion touches the index alone, and only an entry that is there
StageDeletion(p) == idx' = [idx EXCEPT ![p] = 0]

StageAbsent(p) ==
  /\ wt[p] = 0
  /\ IF Confirmed(p)
       THEN /\ Withdraw(p) /\ StageDeletion(p)
            /\ staged' = IF idx[p] # 0 THEN staged \cup {p} ELSE staged
            /\ UNCHANGED history
       ELSE Quarantine(p) /\ UNCHANGED <<idx, staged>>
  /\ UNCHANGED faults

\* any other answer from stat: unknown is not gone
StageUnknown(p) == Fault /\ UNCHANGED <<quarantine, idx, staged, history>>

Stage(p) ==
  /\ pc = "stage" /\ p \in work
  /\ work' = work \ {p}
  /\ StagePresent(p) \/ StageAbsent(p) \/ StageUnknown(p)
  /\ UNCHANGED <<disk, head, by, mark, lock, gone, pc, dirty, groups, origin, batch, saved,
                 retried, sweep, cliIdx>>

\* commitStaged: nothing to record, a commit of the whole index, or an error
Record(o, paths) ==
  \/ /\ \A p \in paths : idx[p] = head[p]
     /\ UNCHANGED <<git, faults>>
  \/ /\ \E p \in paths : idx[p] # head[p]
     /\ head' = idx
     /\ by' = [p \in Paths |-> IF idx[p] # head[p] THEN o ELSE by[p]]
     /\ UNCHANGED <<idx, faults>>
  \/ (\E p \in paths : idx[p] # head[p]) /\ Fault /\ UNCHANGED git

\* (mutant) the lock outlives the commit
KeepLock == UNCHANGED lock

Unlock == lock' = None

Commit ==
  /\ pc = "stage" /\ work = {}
  /\ Record(origin, staged)
  /\ Unlock
  /\ After(groups)
  /\ UNCHANGED <<disk, mark, quarantine, gone, dirty, cliIdx, history>>

\* an object is missing: the index and the quarantine are put back, the
\* repository is reopened, and the attempt is repeated once
Heal ==
  /\ pc = "stage" /\ gone
  /\ idx' = saved.idx /\ pend' = saved.pend /\ ripe' = saved.ripe
  /\ first' = saved.first /\ waited' = saved.waited
  /\ IF retried
       THEN Unlock /\ After(groups) /\ UNCHANGED <<gone, faults>>
       ELSE /\ work' = batch /\ staged' = {} /\ retried' = TRUE
            /\ \/ gone' = FALSE /\ UNCHANGED faults
               \/ Fault /\ UNCHANGED gone
            /\ UNCHANGED <<lock, pc, groups, origin, batch, saved, sweep>>
  /\ UNCHANGED <<disk, head, by, mark, dirty, cliIdx>>

-----------------------------------------------------------------------------
(* SweepDeletions, and the daily repack, once per tick.                    *)

BeginSweep ==
  /\ pc = "sweep"
  /\ IF LockIsFree
       THEN TakeLock /\ pc' = "claimSweep" /\ work' = {p \in Paths : pend[p] # None}
       ELSE pc' = "maintain" /\ UNCHANGED <<lock, work>>
  /\ UNCHANGED <<disk, git, mark, quarantine, gone, dirty, groups, origin, batch, staged,
                 saved, retried, sweep, cliIdx, faults, history>>

SweepPresent(p) == p \in ripe /\ wt[p] # 0 /\ Withdraw(p) /\ UNCHANGED <<idx, groups, faults>>

SweepAbsent(p) ==
  /\ p \in ripe /\ wt[p] = 0
  /\ Withdraw(p) /\ StageDeletion(p)
  /\ groups' = IF idx[p] # 0 THEN [groups EXCEPT ![pend[p]] = @ \cup {p}] ELSE groups
  /\ UNCHANGED faults

SweepUnknown(p) ==
  /\ IF p \in ripe THEN Fault ELSE UNCHANGED faults
  /\ UNCHANGED <<quarantine, idx, groups>>

Sweep(p) ==
  /\ pc = "look" /\ p \in work
  /\ work' = work \ {p}
  /\ SweepPresent(p) \/ SweepAbsent(p) \/ SweepUnknown(p)
  /\ UNCHANGED <<disk, head, by, mark, lock, gone, pc, dirty, origin, batch, staged, saved,
                 retried, sweep, cliIdx, history>>

Rank == [capture |-> 1, local |-> 2, phone |-> 3, probe |-> 4]

\* one commit per origin, in the order of their names
CommitSweep ==
  /\ pc = "look" /\ work = {}
  /\ IF groups = NoGroups
       THEN Unlock /\ pc' = "maintain" /\ UNCHANGED <<git, groups, faults>>
       ELSE \E o \in Origins :
              /\ groups[o] # {}
              /\ \A q \in Origins : groups[q] # {} => Rank[o] <= Rank[q]
              /\ Record(o, groups[o])
              /\ groups' = [groups EXCEPT ![o] = {}]
              /\ UNCHANGED <<lock, pc>>
  /\ UNCHANGED <<disk, mark, quarantine, gone, dirty, origin, batch, work, staged, saved,
                 retried, sweep, cliIdx, history>>

\* the repack: not due, or due still because the lock is busy, or begun
Maintain ==
  /\ pc = "maintain"
  /\ \/ TakeLock /\ pc' = "claimRepack"
     \/ pc' = "idle" /\ UNCHANGED lock
  /\ UNCHANGED <<disk, git, mark, quarantine, gone, cycle, cliIdx, faults, history>>

\* git's own repack, and a repository opened anew
Repack ==
  /\ pc = "repack" /\ pc' = "idle"
  /\ \/ gone' = FALSE /\ UNCHANGED faults
     \/ Fault /\ UNCHANGED gone
  /\ Unlock
  /\ UNCHANGED <<disk, git, mark, quarantine, cycle, cliIdx, history>>

-----------------------------------------------------------------------------
(* Kills, and the locks they leave.                                        *)

\* a kill, and the next start: what was in memory is gone, the index is not,
\* and neither is the lock, signed or blank
Crash ==
  /\ Fault
  /\ mark' = [p \in Paths |-> None]
  /\ pend' = [p \in Paths |-> None] /\ ripe' = {}
  /\ lock' = IF lock = "daemon" THEN "dead" ELSE lock
  /\ gone' = FALSE /\ pc' = "idle"
  /\ dirty' = {} /\ groups' = NoGroups /\ origin' = None /\ batch' = {} /\ work' = {}
  /\ staged' = {} /\ saved' = Nothing /\ retried' = FALSE /\ sweep' = FALSE
  /\ UNCHANGED <<disk, git, cliIdx, history>>

\* the pid in the lock is somebody else's by now, or cannot be told about
PidIsReused ==
  /\ lock = "dead" /\ Fault /\ lock' = "reused"
  /\ UNCHANGED <<disk, git, mark, quarantine, gone, pc, cycle, cliIdx, history>>

PidEnds ==
  /\ lock = "reused" /\ lock' = "dead"
  /\ UNCHANGED <<disk, git, mark, quarantine, gone, pc, cycle, cliIdx, faults, history>>

Holding == pc \in {"stage", "look", "repack"} \cup DOMAIN Claims

\* a killed daemon's lock that no daemon will take away
Abandoned == lock \in {"blank", "reused"} /\ ~Holding

\* the operator, if somebody looks: nothing makes this happen
RemoveByHand ==
  /\ Abandoned /\ lock' = None
  /\ UNCHANGED <<disk, git, mark, quarantine, gone, pc, cycle, cliIdx, faults, history>>

Watcher ==
  \/ Flush \/ Tick \/ Attribute
  \/ Begin \/ Sign \/ SkipCommit \/ Commit \/ Heal
  \/ BeginSweep \/ CommitSweep \/ Maintain \/ Repack
  \/ \E p \in Paths : Stage(p) \/ Sweep(p)

Next ==
  \/ Watcher \/ Crash \/ PidIsReused \/ PidEnds \/ RemoveByHand
  \/ CliWrites \/ ObjectsMove
  \/ \E p \in Paths :
       \/ Edit(p) \/ Vanish(p) \/ ComeBack(p) \/ CliReads(p)
       \/ (\E o \in Own : Mark(p, o)) \/ MarkExpires(p) \/ GracePasses(p)

\* the watcher goes on and its ticker ticks, time passes, a git client finishes
Fairness ==
  /\ WF_vars(Watcher) /\ SF_vars(Tick)
  /\ WF_vars(CliWrites)
  /\ \A p \in Paths : WF_vars(GracePasses(p))

Spec == Init /\ [][Next]_vars /\ Fairness

-----------------------------------------------------------------------------
(* Properties.                                                             *)

\* the types, and index.lock tells who is writing the index
TypeOK ==
  /\ wt \in [Paths -> Nat] /\ away \in [Paths -> Nat]
  /\ idx \in [Paths -> Nat] /\ head \in [Paths -> Nat] /\ by \in [Paths -> Origins]
  /\ mark \in [Paths -> Own \cup {None}]
  /\ pend \in [Paths -> Origins \cup {None}] /\ ripe \subseteq Paths
  /\ lock \in {None, "blank", "daemon", "dead", "reused", "cli"} /\ gone \in BOOLEAN
  /\ pc \in {"idle", "attribute", "next", "claim", "stage", "sweep", "claimSweep", "look",
             "maintain", "claimRepack", "repack"}
  /\ Holding => lock \in {"blank", "daemon"}
  /\ lock = "daemon" => Holding
  /\ lock = "cli" <=> cliIdx # None
  /\ dirty \subseteq Paths /\ groups \in [Origins -> SUBSET Paths]
  /\ origin \in Origins \cup {None} /\ (pc \in {"claim", "stage"} => origin # None)
  /\ batch \subseteq Paths /\ work \subseteq Paths /\ staged \subseteq Paths
  /\ saved \in [idx : [Paths -> Nat], pend : [Paths -> Origins \cup {None}], ripe : SUBSET Paths,
                first : [Paths -> Origins \cup {None}], waited : SUBSET Paths]
  /\ retried \in BOOLEAN /\ sweep \in BOOLEAN
  /\ cliIdx = None \/ cliIdx \in [Paths -> Nat]
  /\ changes \in Nat /\ faults \in Nat
  /\ first \in [Paths -> Origins \cup {None}] /\ waited \subseteq Paths

\* Neither writer of the index undoes the other's staging: what a git client
\* read is still there when it writes it back, and an attempt that may have to
\* be rolled back has changed nothing but the paths of its own commit.
NoLostStaging ==
  /\ cliIdx # None => \E p \in Paths : \A q \in Paths \ {p} : cliIdx[q] = idx[q]
  /\ pc = "stage" => \A p \in Paths \ batch : idx[p] = saved.idx[p]

\* An absence is confirmed, never believed on sight: the committer and the
\* sweep stage a removal only for a path that was found missing, a grace ago,
\* and not found present since by an attempt that stood - over rollbacks, kills
\* and round-trips.
NeverOnSight ==
  [][\A p \in work \ work' : idx[p] # 0 /\ idx'[p] = 0 => p \in waited /\ first[p] # None]_vars

\* Whatever was lost on the way - a skipped commit, a failed one, a kill, a
\* removal recorded of a file that was in transit - the file that is there in
\* the end is the one that is in HEAD.  Only a killed daemon's lock that its
\* successors cannot take away stops that, until somebody removes it: one it was
\* killed before signing, or one whose pid is in use again.
EveryFileIsRecorded ==
  <>[](\A p \in Paths : wt[p] # 0 => head[p] = wt[p]) \/ <>[]Abandoned

\* watch.go:235: git keeps reporting a deleted tracked file until the deletion is
\* recorded, so in the end it is, unless the lock is in the way for ever.
EveryDeletionIsRecorded ==
  <>[](\A p \in Paths : wt[p] = 0 => head[p] = 0) \/ <>[]Abandoned

=============================================================================
