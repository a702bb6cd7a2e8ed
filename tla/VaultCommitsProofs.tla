------------------------- MODULE VaultCommitsProofs -------------------------
(* What the vault committer guarantees of the index it shares and of the    *)
(* deletions it confirms, for any vault and any number of changes, kills    *)
(* and faults.                                                              *)
EXTENDS VaultCommits, TLAPS

\* the end of a commit, whatever it was: the types of what it leaves
LEMMA AfterTypes ==
  ASSUME TypeOK, NEW rest \in [Origins -> SUBSET Paths], After(rest)
  PROVE  /\ groups' \in [Origins -> SUBSET Paths] /\ origin' = None
         /\ batch' = {} /\ work' = {} /\ staged' = {}
         /\ saved' = Nothing /\ retried' = FALSE /\ sweep' \in BOOLEAN
         /\ pc' \in {"next", "sweep", "idle"}
<1>1. CASE rest # NoGroups
  BY <1>1 DEF After, TypeOK
<1>2. CASE rest = NoGroups
  <2>1. pc' = (IF sweep THEN "sweep" ELSE "idle") /\ sweep' = FALSE
    BY <1>2, Zenon DEF After
  <2> QED
    BY <2>1 DEF After
<1> QED
  BY <1>1, <1>2

LEMMA NothingType ==
  Nothing \in [idx : [Paths -> Nat], pend : [Paths -> Origins \cup {None}], ripe : SUBSET Paths,
               first : [Paths -> Origins \cup {None}], waited : SUBSET Paths]
  BY DEF Nothing

\* the pcs at which the lock is taken and not yet signed, and where they go on
LEMMA ClaimsAre ==
  /\ DOMAIN Claims = {"claim", "claimSweep", "claimRepack"}
  /\ Claims.claim = "stage" /\ Claims.claimSweep = "look" /\ Claims.claimRepack = "repack"
  BY DEF Claims

LEMMA InitTypeOK == Init => TypeOK
<1> SUFFICES ASSUME Init PROVE TypeOK
  OBVIOUS
<1> USE CommitsAssumption DEF Init
<1>1. /\ wt \in [Paths -> Nat] /\ away \in [Paths -> Nat] /\ idx \in [Paths -> Nat]
      /\ head \in [Paths -> Nat] /\ by \in [Paths -> Origins]
      /\ mark \in [Paths -> Own \cup {None}] /\ pend \in [Paths -> Origins \cup {None}]
      /\ first \in [Paths -> Origins \cup {None}]
  BY DEF Origins
<1>2. groups \in [Origins -> SUBSET Paths]
  BY DEF NoGroups
<1>3. saved \in [idx : [Paths -> Nat], pend : [Paths -> Origins \cup {None}],
                 ripe : SUBSET Paths, first : [Paths -> Origins \cup {None}],
                 waited : SUBSET Paths]
  BY NothingType
<1>4. /\ lock \in {None, "blank", "daemon", "dead", "reused", "cli"}
      /\ lock # "daemon" /\ lock # "cli"
      /\ pc \in {"idle", "attribute", "next", "claim", "stage", "sweep", "claimSweep", "look",
                 "maintain", "claimRepack", "repack"}
      /\ pc \notin {"claim", "stage"} /\ ~Holding /\ cliIdx = None /\ origin = None
  BY ClaimsAre DEF Holding
<1>5. /\ gone \in BOOLEAN /\ retried \in BOOLEAN /\ sweep \in BOOLEAN
      /\ changes \in Nat /\ faults \in Nat
      /\ ripe = {} /\ dirty = {} /\ batch = {} /\ work = {} /\ staged = {} /\ waited = {}
  OBVIOUS
<1> QED
  BY <1>1, <1>2, <1>3, <1>4, <1>5, Zenon DEF TypeOK

LEMMA FaultType == ASSUME TypeOK, Fault PROVE faults' \in Nat
  BY DEF TypeOK, Fault

LEMMA StepTypeOK == TypeOK /\ [Next]_vars => TypeOK'
<1> SUFFICES ASSUME TypeOK, [Next]_vars PROVE TypeOK'
  OBVIOUS
<1> USE CommitsAssumption
    DEF disk, git, quarantine, cycle, history
<1>0. Holding <=> pc \in {"stage", "look", "repack", "claim", "claimSweep", "claimRepack"}
  BY ClaimsAre DEF Holding
<1>a. Holding' <=> pc' \in {"stage", "look", "repack", "claim", "claimSweep", "claimRepack"}
  BY ClaimsAre DEF Holding
<1> USE <1>0, <1>a
<1>1. ASSUME NEW p \in Paths, Edit(p) \/ Vanish(p) \/ ComeBack(p) PROVE TypeOK'
  BY <1>1 DEF Edit, Vanish, ComeBack, SetFile, TypeOK
<1>2. ASSUME NEW p \in Paths, NEW o \in Own, Mark(p, o) PROVE TypeOK'
  BY <1>2, FaultType DEF Mark, TypeOK
<1>3. ASSUME NEW p \in Paths, MarkExpires(p) \/ GracePasses(p) PROVE TypeOK'
  BY <1>3 DEF MarkExpires, GracePasses, TypeOK
<1>4. ASSUME NEW p \in Paths, CliReads(p) PROVE TypeOK'
  BY <1>4, FaultType DEF CliReads, TypeOK
<1>5. CASE CliWrites
  BY <1>5 DEF CliWrites, TypeOK
<1>6. CASE ObjectsMove
  BY <1>6, FaultType DEF ObjectsMove, TypeOK
<1>7. CASE Flush \/ Tick
  BY <1>7, FaultType DEF Flush, Tick, ReadStatus, TypeOK
<1>8. CASE Attribute
  BY <1>8, AfterTypes, NothingType DEF Attribute, Attribution, TypeOK
<1>9. CASE Begin
  <2>1. PICK o \in Origins : /\ origin' = o /\ batch' = groups[o]
                            /\ groups' = [groups EXCEPT ![o] = {}]
    BY <1>9 DEF Begin
  <2>2. origin' # None
    BY <2>1 DEF Origins
  <2> QED
    BY <1>9, <2>1, <2>2 DEF Begin, TakeLock, LockIsFree, TypeOK
<1>10. CASE SkipCommit
  BY <1>10, AfterTypes, NothingType DEF SkipCommit, TypeOK
<1>11. ASSUME NEW p \in Paths, Stage(p) PROVE TypeOK'
  BY <1>11, FaultType DEF Stage, StagePresent, StageAbsent, StageUnknown, Withdraw, Quarantine,
    Confirmed, StageDeletion, TypeOK
<1>12. CASE Commit
  <2>1. /\ idx' = idx /\ head' \in [Paths -> Nat] /\ by' \in [Paths -> Origins]
        /\ faults' \in Nat
    <3>1. pc = "stage" /\ origin \in Origins
      BY <1>12 DEF Commit, TypeOK
    <3> QED
      BY <1>12, FaultType DEF Commit, Record, TypeOK
  <2> QED
    BY <1>12, <2>1, AfterTypes, NothingType DEF Commit, Unlock, TypeOK
<1>13. CASE Heal
  BY <1>13, AfterTypes, NothingType, FaultType DEF Heal, Unlock, TypeOK
<1>14. CASE BeginSweep
  BY <1>14 DEF BeginSweep, TakeLock, LockIsFree, TypeOK
<1>15. ASSUME NEW p \in Paths, Sweep(p) PROVE TypeOK'
  BY <1>15, FaultType DEF Sweep, SweepPresent, SweepAbsent, SweepUnknown, Withdraw, StageDeletion, TypeOK
<1>16. CASE CommitSweep
  BY <1>16, FaultType DEF CommitSweep, Record, Unlock, TypeOK
<1>17. CASE Maintain
  BY <1>17 DEF Maintain, TakeLock, LockIsFree, TypeOK
<1>20. CASE Sign
  BY <1>20, ClaimsAre, FaultType DEF Sign, TypeOK
<1>21. CASE Repack
  BY <1>21, FaultType DEF Repack, Unlock, TypeOK
<1>22. CASE PidIsReused \/ PidEnds \/ RemoveByHand
  BY <1>22, FaultType DEF PidIsReused, PidEnds, RemoveByHand, Abandoned, TypeOK
<1>18. CASE Crash
  BY <1>18, NothingType, FaultType DEF Crash, NoGroups, TypeOK
<1>19. CASE UNCHANGED vars
  BY <1>19 DEF vars, TypeOK
<1> QED
  BY <1>1, <1>2, <1>3, <1>4, <1>5, <1>6, <1>7, <1>8, <1>9, <1>10, <1>11, <1>12, <1>13, <1>14,
     <1>15, <1>16, <1>17, <1>18, <1>19, <1>20, <1>21, <1>22 DEF Next, Watcher

\* THE TYPES hold for every vault, and the committer never stages,
\* sweeps or repacks but under an index.lock it took itself, signed or blank; a
\* git client has its own while it holds a copy to write back.
THEOREM CommitTypes == Spec => []TypeOK
<1>1. TypeOK /\ [Next]_vars => TypeOK'
  BY StepTypeOK
<1> QED
  BY <1>1, InitTypeOK, PTL DEF Spec

-----------------------------------------------------------------------------
(* The staging of each writer of the index.                                *)

\* a client's copy differs from the index in the one path it was asked for
CopyIsFresh == cliIdx # None => \E p \in Paths : \A q \in Paths \ {p} : cliIdx[q] = idx[q]

\* nothing but what the running attempt has looked at is changed in the index
OnlyLookedAt ==
  pc \in {"claim", "stage"} =>
    /\ work \subseteq batch
    /\ \A p \in Paths : p \in work \/ p \notin batch => idx[p] = saved.idx[p]

StagingInv == CopyIsFresh /\ OnlyLookedAt

LEMMA InitStagingInv == Init => StagingInv
  BY DEF Init, StagingInv, CopyIsFresh, OnlyLookedAt

\* no client has a copy while the committer has the lock
LEMMA NoCopyMeanwhile ==
  TypeOK /\ pc \in {"claim", "stage", "look", "claimSweep", "claimRepack", "repack"} => cliIdx = None
  BY ClaimsAre, CommitsAssumption DEF TypeOK, Holding

LEMMA StepCopyIsFresh ==
  TypeOK /\ StagingInv /\ [Next]_vars => CopyIsFresh'
<1> SUFFICES ASSUME TypeOK, CopyIsFresh, [Next]_vars PROVE CopyIsFresh'
  BY DEF StagingInv
<1> USE CommitsAssumption DEF CopyIsFresh
<1>1. CASE UNCHANGED <<cliIdx, idx>>
  BY <1>1
<1>2. CASE cliIdx' = None
  BY <1>2
<1>3. ASSUME NEW p \in Paths, CliReads(p) PROVE CopyIsFresh'
  <2>1. cliIdx' = [idx EXCEPT ![p] = IF wt[p] # idx[p] THEN wt[p] ELSE 0] /\ idx' = idx
    BY <1>3 DEF CliReads, git
  <2>2. \A q \in Paths \ {p} : cliIdx'[q] = idx'[q]
    BY <2>1 DEF TypeOK
  <2> QED
    BY <2>2
<1>4. ASSUME NEW p \in Paths, Stage(p) \/ Sweep(p) PROVE cliIdx' = None
  BY <1>4, NoCopyMeanwhile DEF Stage, Sweep
<1>5. CASE Heal
  BY <1>5, <1>2, NoCopyMeanwhile DEF Heal
<1>6. CASE CliWrites
  BY <1>6, <1>2 DEF CliWrites
<1>7. ASSUME NEW p \in Paths,
             \/ Edit(p) \/ Vanish(p) \/ ComeBack(p) \/ (\E o \in Own : Mark(p, o))
             \/ MarkExpires(p) \/ GracePasses(p)
      PROVE  UNCHANGED <<cliIdx, idx>>
  BY <1>7 DEF Edit, Vanish, ComeBack, Mark, MarkExpires, GracePasses, git
<1>8. CASE Commit \/ CommitSweep
  BY <1>8, <1>1 DEF Commit, CommitSweep, Record, git
<1>9. CASE ObjectsMove \/ Flush \/ Tick \/ Attribute \/ Begin \/ SkipCommit \/ BeginSweep
           \/ Sign \/ Maintain \/ Repack \/ Crash \/ PidIsReused \/ PidEnds \/ RemoveByHand
  BY <1>9, <1>1 DEF ObjectsMove, Flush, Tick, ReadStatus, Attribute, Begin, SkipCommit,
    BeginSweep, Sign, Maintain, Repack, Crash, PidIsReused, PidEnds, RemoveByHand, git
<1>10. CASE UNCHANGED vars
  BY <1>10, <1>1 DEF vars, git
<1> QED
  BY <1>1, <1>2, <1>3, <1>4, <1>5, <1>6, <1>7, <1>8, <1>9, <1>10 DEF Next, Watcher

LEMMA StepOnlyLookedAt ==
  TypeOK /\ StagingInv /\ [Next]_vars => OnlyLookedAt'
<1> SUFFICES ASSUME TypeOK, OnlyLookedAt, [Next]_vars PROVE OnlyLookedAt'
  BY DEF StagingInv
<1> USE DEF OnlyLookedAt
<1>1. CASE UNCHANGED <<pc, work, batch, idx, saved>>
  BY <1>1
<1>2. CASE pc' \notin {"claim", "stage"}
  BY <1>2
<1>3. ASSUME NEW p \in Paths, Stage(p) PROVE OnlyLookedAt'
  <2>1. \A q \in Paths \ {p} : idx'[q] = idx[q]
    BY <1>3 DEF Stage, StagePresent, StageAbsent, StageUnknown, StageDeletion, TypeOK
  <2>2. pc = "stage" /\ work' = work \ {p} /\ UNCHANGED <<pc, batch, saved>> /\ p \in batch
    BY <1>3 DEF Stage
  <2> QED
    BY <2>1, <2>2
<1>4. ASSUME NEW p \in Paths, Sweep(p) PROVE pc' \notin {"claim", "stage"}
  BY <1>4 DEF Sweep
<1>5. CASE Begin
  BY <1>5 DEF Begin, git, TypeOK
<1>6. CASE Heal
  <2>1. CASE retried
    BY <1>6, <2>1, <1>2 DEF Heal, After
  <2>2. CASE ~retried
    BY <1>6, <2>2 DEF Heal
  <2> QED
    BY <2>1, <2>2
<1>7. CASE CliWrites
  BY <1>7, <1>2, NoCopyMeanwhile DEF CliWrites
<1>8. ASSUME NEW p \in Paths,
             \/ Edit(p) \/ Vanish(p) \/ ComeBack(p) \/ (\E o \in Own : Mark(p, o))
             \/ MarkExpires(p) \/ GracePasses(p) \/ CliReads(p)
      PROVE  UNCHANGED <<pc, work, batch, idx, saved>>
  BY <1>8 DEF Edit, Vanish, ComeBack, Mark, MarkExpires, GracePasses, CliReads, git, cycle
<1>9. CASE Commit \/ SkipCommit \/ Attribute
  BY <1>9, <1>2 DEF Commit, SkipCommit, Attribute, After
<1>10. CASE Flush \/ Tick \/ BeginSweep \/ CommitSweep \/ Maintain \/ Repack \/ Crash
  BY <1>10, <1>2 DEF Flush, Tick, ReadStatus, BeginSweep, CommitSweep, Maintain, Repack, Crash
<1>11. CASE ObjectsMove \/ PidIsReused \/ PidEnds \/ RemoveByHand \/ UNCHANGED vars
  BY <1>11, <1>1 DEF ObjectsMove, PidIsReused, PidEnds, RemoveByHand, vars, git, cycle
<1>12. CASE Sign
  <2>1. pc' = "stage" => pc = "claim"
    BY <1>12, ClaimsAre DEF Sign
  <2>2. pc' # "claim"
    BY <1>12, ClaimsAre DEF Sign
  <2> QED
    BY <1>12, <2>1, <2>2 DEF Sign, git, cycle
<1> QED
  BY <1>1, <1>2, <1>3, <1>4, <1>5, <1>6, <1>7, <1>8, <1>9, <1>10, <1>11, <1>12 DEF Next, Watcher

\* NEITHER WRITER of the index undoes the other's staging, however their steps
\* fall and whatever is rolled back, for any number of paths and clients' turns.
THEOREM StagingIsNotLost == Spec => []NoLostStaging
<1>1. TypeOK /\ StagingInv /\ [Next]_vars => StagingInv'
  BY StepCopyIsFresh, StepOnlyLookedAt DEF StagingInv
<1>2. StagingInv => NoLostStaging
  BY DEF StagingInv, CopyIsFresh, OnlyLookedAt, NoLostStaging
<1> QED
  BY <1>1, <1>2, InitStagingInv, CommitTypes, PTL DEF Spec

-----------------------------------------------------------------------------
(* What the quarantine remembers.                                          *)

\* every absence on hold has been seen, and a ripe one a grace ago
Remembers(p, r, f, w) ==
  \A x \in Paths : /\ p[x] # None => f[x] # None
                   /\ x \in r => p[x] # None /\ x \in w

\* so it is with the one an attempt would be rolled back to
QuarantineInv ==
  /\ Remembers(pend, ripe, first, waited)
  /\ pc \in {"claim", "stage"} => Remembers(saved.pend, saved.ripe, saved.first, saved.waited)

LEMMA InitQuarantineInv == Init => QuarantineInv
  BY DEF Init, QuarantineInv, Remembers

LEMMA StepQuarantineInv ==
  TypeOK /\ QuarantineInv /\ [Next]_vars => QuarantineInv'
<1> SUFFICES ASSUME TypeOK, QuarantineInv, [Next]_vars PROVE QuarantineInv'
  OBVIOUS
<1> USE DEF QuarantineInv
<1>1. CASE UNCHANGED <<pend, ripe, first, waited>> /\ (pc' \notin {"claim", "stage"} \/ UNCHANGED <<pc, saved>>)
  BY <1>1 DEF Remembers
<1>2. ASSUME NEW p \in Paths, Stage(p) PROVE QuarantineInv'
  <2>1. pc = "stage" /\ UNCHANGED <<pc, saved>> /\ origin # None
    BY <1>2 DEF Stage, TypeOK
  <2>2. CASE StagePresent(p)
    BY <2>1, <2>2 DEF StagePresent, Withdraw, Remembers, TypeOK
  <2>3. CASE StageAbsent(p)
    <3>1. CASE Confirmed(p)
      BY <2>1, <2>3, <3>1 DEF StageAbsent, Withdraw, Remembers, TypeOK, history
    <3>2. CASE ~Confirmed(p)
      BY <2>1, <2>3, <3>2 DEF StageAbsent, Quarantine, Remembers, TypeOK
    <3> QED
      BY <3>1, <3>2
  <2>4. CASE StageUnknown(p)
    BY <2>1, <2>4, <1>1 DEF StageUnknown, quarantine, history
  <2> QED
    BY <1>2, <2>2, <2>3, <2>4 DEF Stage
<1>3. ASSUME NEW p \in Paths, Sweep(p) PROVE QuarantineInv'
  BY <1>3 DEF Sweep, SweepPresent, SweepAbsent, SweepUnknown, Withdraw, Remembers, TypeOK,
    quarantine, history
<1>4. ASSUME NEW p \in Paths, GracePasses(p) PROVE QuarantineInv'
  BY <1>4 DEF GracePasses, Remembers, TypeOK, cycle
<1>5. CASE Begin
  BY <1>5 DEF Begin, Remembers, quarantine, history
<1>6. CASE Heal
  <2>1. UNCHANGED saved \/ pc' \notin {"claim", "stage"}
    BY <1>6, Zenon DEF Heal, After
  <2> QED
    BY <1>6, <2>1 DEF Heal, Remembers
<1>7. CASE Crash
  BY <1>7 DEF Crash, Remembers
<1>8. ASSUME NEW p \in Paths,
             \/ Edit(p) \/ Vanish(p) \/ ComeBack(p) \/ (\E o \in Own : Mark(p, o))
             \/ MarkExpires(p) \/ CliReads(p)
      PROVE  UNCHANGED <<pend, ripe, first, waited, pc, saved>>
  BY <1>8 DEF Edit, Vanish, ComeBack, Mark, MarkExpires, CliReads, quarantine, history, cycle
<1>9. CASE Commit \/ SkipCommit \/ Attribute
  BY <1>9, <1>1 DEF Commit, SkipCommit, Attribute, After, quarantine, history
<1>10. CASE Flush \/ Tick \/ BeginSweep \/ CommitSweep \/ Maintain \/ Repack
  BY <1>10, <1>1 DEF Flush, Tick, ReadStatus, BeginSweep, CommitSweep, Maintain, Repack,
    quarantine, history
<1>11. CASE ObjectsMove \/ CliWrites \/ PidIsReused \/ PidEnds \/ RemoveByHand \/ UNCHANGED vars
  BY <1>11, <1>1 DEF ObjectsMove, CliWrites, PidIsReused, PidEnds, RemoveByHand, vars,
    quarantine, history, cycle
<1>12. CASE Sign
  <2>1. pc' = "stage" => pc = "claim"
    BY <1>12, ClaimsAre DEF Sign
  <2>2. pc' # "claim"
    BY <1>12, ClaimsAre DEF Sign
  <2> QED
    BY <1>12, <2>1, <2>2 DEF Sign, Remembers, quarantine, history, cycle
<1> QED
  BY <1>1, <1>2, <1>3, <1>4, <1>5, <1>6, <1>7, <1>8, <1>9, <1>10, <1>11, <1>12 DEF Next, Watcher

\* who takes a path off the list it is working through, and what becomes of it
LEMMA StepNeverOnSight ==
  ASSUME TypeOK, OnlyLookedAt, QuarantineInv, [Next]_vars,
         NEW p \in work \ work', idx[p] # 0, idx'[p] = 0
  PROVE  p \in waited /\ first[p] # None
<1> p \in Paths
  BY DEF TypeOK
<1>1. ASSUME NEW q \in Paths, Stage(q) PROVE p \in waited /\ first[p] # None
  <2>1. p = q
    BY <1>1 DEF Stage
  <2>2. CASE wt[p] = 0
    BY <1>1, <2>1, <2>2 DEF Stage, StagePresent, StageAbsent, StageUnknown, Confirmed,
      QuarantineInv, Remembers
  <2>3. CASE wt[p] # 0
    BY <1>1, <2>1, <2>3 DEF Stage, StagePresent, StageAbsent, StageUnknown, TypeOK
  <2> QED
    BY <2>2, <2>3
<1>2. ASSUME NEW q \in Paths, Sweep(q) PROVE p \in waited /\ first[p] # None
  BY <1>2 DEF Sweep, SweepPresent, SweepAbsent, SweepUnknown, QuarantineInv, Remembers
<1>3. CASE Heal
  BY <1>3 DEF Heal, OnlyLookedAt
<1>4. ~CliWrites
  BY DEF CliWrites, cycle
<1>5. CASE UNCHANGED idx
  BY <1>5
<1>6. ASSUME NEW q \in Paths,
             \/ Edit(q) \/ Vanish(q) \/ ComeBack(q) \/ (\E o \in Own : Mark(q, o))
             \/ MarkExpires(q) \/ CliReads(q) \/ GracePasses(q)
      PROVE  UNCHANGED idx
  BY <1>6 DEF Edit, Vanish, ComeBack, Mark, MarkExpires, CliReads, GracePasses, git
<1>7. CASE Commit \/ CommitSweep
  BY <1>7, <1>5 DEF Commit, CommitSweep, Record, git
<1>8. CASE SkipCommit \/ Attribute \/ Begin \/ Sign \/ Flush \/ Tick \/ BeginSweep \/ Maintain
           \/ Repack \/ Crash \/ PidIsReused \/ PidEnds \/ RemoveByHand \/ ObjectsMove
           \/ UNCHANGED vars
  BY <1>8, <1>5 DEF SkipCommit, Attribute, Begin, Sign, Flush, Tick, ReadStatus, BeginSweep,
    Maintain, Repack, Crash, PidIsReused, PidEnds, RemoveByHand, ObjectsMove, vars, git
<1> QED
  BY <1>1, <1>2, <1>3, <1>4, <1>5, <1>6, <1>7, <1>8 DEF Next, Watcher

\* AN ABSENCE IS CONFIRMED, NEVER BELIEVED ON SIGHT: for any vault, any number
\* of round-trips, kills, rollbacks and git clients, the committer stages a
\* removal only for a path it found missing a grace ago.
THEOREM AbsenceIsConfirmed == Spec => NeverOnSight
<1>1. TypeOK /\ StagingInv /\ [Next]_vars => StagingInv'
  BY StepCopyIsFresh, StepOnlyLookedAt DEF StagingInv
<1>2. TypeOK /\ QuarantineInv /\ [Next]_vars => QuarantineInv'
  BY StepQuarantineInv
<1>3. TypeOK /\ StagingInv /\ QuarantineInv /\ [Next]_vars =>
        [\A p \in work \ work' : idx[p] # 0 /\ idx'[p] = 0 => p \in waited /\ first[p] # None]_vars
  BY StepNeverOnSight DEF StagingInv
<1> QED
  BY <1>1, <1>2, <1>3, InitStagingInv, InitQuarantineInv, CommitTypes, PTL DEF Spec, NeverOnSight

=============================================================================
