-------------------------- MODULE DreamJournalProofs --------------------------
(* What the journal guarantees, for any number of notes, jobs, intents,    *)
(* crashes and interventions.                                              *)
EXTENDS DreamJournal, FiniteSetTheorems, TLAPS

\* The run-done line comes only when the last intent is settled.
Settled ==
  /\ pc # "off" => runOpen
  /\ cur.status = "intent" => runOpen
  /\ pc \in {"jobs", "commit", "finish"} => cur.status # "intent"

Quiet == {"off", "jobs", "commit", "finish"}
Moving == {"rename", "verify", "rewrite"}

\* The pass works on an intent it has journaled, and renames for a move only.
Named ==
  /\ pc \notin Quiet => cur.status # "none"
  /\ pc \in Moving => cur.kind = "move"

\* From the check to the end of the write, the paths of the intent hold nothing,
\* what the intent names, or what arrived in that time.
Watched ==
  /\ Window => \A p \in {cur.rel, cur.to} \cap Paths :
                 file[p] \in {Absent, cur.before, cur.after} \cup racy
  /\ clobbered \subseteq racy

\* The content an intent brings, if it brings one: it is written by the pass and
\* by nobody else, so a note that has it was written for this very intent.
Brings(in) == in.after \notin {in.before, Absent}

Unwritten(in) == Brings(in) => \A p \in Paths : file[p] # in.after

Fresh ==
  /\ \A p \in Paths : file[p] <= issued
  /\ cur.after <= issued
  /\ \A i \in 1..Len(plan) :
       /\ plan[i].after <= issued /\ Unwritten(plan[i])
       /\ Brings(plan[i]) =>
            /\ plan[i].after # cur.after
            /\ \A j \in 1..Len(plan) : j # i => plan[i].after # plan[j].after
  /\ ~cur.effected => Unwritten(cur)

\* What the applied line stands for, in the order it comes to be.
Made == cur.effected \/ cur.kind = "delete" \/ cur.before = cur.after

Recorded ==
  /\ pc \in {"govern", "settle"} => Made
  /\ pc = "settle" \/ cur.status = "applied" => cur.governed
  /\ cur.status = "applied" => Made
  /\ pc \notin Quiet => cur.status = "intent"

JournalInv == TypeOK /\ Named /\ Settled /\ Watched /\ Fresh /\ Recorded

-----------------------------------------------------------------------------
LEMMA InitTypes == Init => TypeOK
<1> SUFFICES ASSUME Init PROVE TypeOK
  OBVIOUS
<1> USE DreamJournalAssumption DEF Init
<1>1. Cardinality(Notes) \in Nat
  BY FS_Subset, FS_CardinalityType
<1>2. file \in [Paths -> Versions] /\ issued \in Versions
  BY <1>1 DEF Versions, Absent
<1>3. cur \in Lines /\ cur.status = "none"
  BY <1>1 DEF NoIntent, Line, Lines, Versions, Absent, Kinds
<1>4. plan \in Seq(Intents)
  OBVIOUS
<1> QED
  BY <1>2, <1>3, <1>4 DEF TypeOK, PCs, NoPath

\* a plan a job may make against notes of the vault is well formed
LEMMA PlannableTypes ==
  ASSUME TypeOK, NEW p \in Paths, NEW v \in Versions, v # Absent,
         NEW in \in Plannable(p, v)
  PROVE  in \in Intents /\ in.before = file[p]
<1> USE DreamJournalAssumption DEF NoPath
<1>1. file[p] \in Versions
  BY DEF TypeOK
<1>2. CASE file[p] = Absent
  BY <1>1, <1>2 DEF Plannable, Intents, WellFormed, Kinds, Versions, Absent
<1>3. CASE file[p] # Absent
  BY <1>1, <1>3 DEF Plannable, Intents, WellFormed, Kinds, Versions, Absent
<1> QED
  BY <1>2, <1>3

LEMMA PlansElements ==
  ASSUME NEW n, NEW s \in Plans(n)
  PROVE  /\ s \in [1..n -> Choices(n)]
         /\ \A i \in 1..n : s[i].after \in {issued + i, s[i].before, Absent}
BY DEF Plans

\* the line keeps its shape when its status or its flags change
LEMMA LineUpdates ==
  ASSUME TypeOK, cur.status # "none", NEW done \in BOOLEAN,
         NEW line \in {[cur EXCEPT !.effected = done], [cur EXCEPT !.governed = TRUE],
                       [cur EXCEPT !.status = "applied"],
                       [cur EXCEPT !.status = "skipped"]}
  PROVE  /\ line \in Lines /\ line.status # "none" /\ WellFormed(line)
         /\ line.kind = cur.kind /\ line.rel = cur.rel /\ line.to = cur.to
         /\ line.before = cur.before /\ line.after = cur.after
<1>1. cur \in Lines
  BY DEF TypeOK
<1>2. /\ line \in Lines /\ line.status # "none"
      /\ line.kind = cur.kind /\ line.rel = cur.rel /\ line.to = cur.to
      /\ line.before = cur.before /\ line.after = cur.after
  BY <1>1 DEF Lines
<1>3. WellFormed(cur)
  BY DEF TypeOK
<1> QED
  BY <1>2, <1>3 DEF WellFormed

LEMMA StepTypes == TypeOK /\ Named /\ [Next]_vars => TypeOK' /\ Named'
<1> SUFFICES ASSUME TypeOK, Named, [Next]_vars PROVE TypeOK' /\ Named'
  OBVIOUS
<1> USE DreamJournalAssumption DEF Named, Quiet, Moving, vault, others
<1>0. /\ file \in [Paths -> Versions] /\ issued \in Versions
      /\ pc \in PCs /\ resuming \in BOOLEAN /\ plan \in Seq(Intents)
      /\ runOpen \in BOOLEAN
      /\ cur \in Lines /\ (cur.status # "none" => WellFormed(cur))
  BY DEF TypeOK
<1>n. NoIntent \in Lines /\ NoIntent.status = "none"
  BY DEF NoIntent, Line, Lines, Versions, Absent
<1>z. Absent \in Versions
  BY DEF Versions, Absent
<1>p. NoPath \notin Paths
  BY DEF NoPath
<1>1. CASE Start
  BY <1>0, <1>1, <1>n DEF Start, TypeOK, PCs
<1>2. CASE PlanJob
  <2>1. PICK n \in 1..MaxBatch :
          issued + n <= MaxVersions /\ plan' \in Plans(n) /\ issued' = issued + n
    BY <1>2 DEF PlanJob
  <2>2. ASSUME NEW p \in Paths, NEW i \in 1..n
        PROVE  Plannable(p, issued + i) \subseteq Intents
    <3>1. issued + i \in Versions /\ issued + i # Absent
      BY <1>0, <2>1 DEF Versions, Absent
    <3> QED
      BY <3>1, PlannableTypes
  <2>3. plan' \in [1..n -> Intents]
    <3>1. plan' \in [1..n -> Choices(n)]
      BY <2>1 DEF Plans
    <3>2. Choices(n) \subseteq Intents
      BY <2>2 DEF Choices
    <3> QED
      BY <3>1, <3>2
  <2>4. plan' \in Seq(Intents)
    BY <2>1, <2>3
  <2>5. issued' \in Versions
    BY <1>0, <2>1 DEF Versions
  <2> QED
    BY <1>0, <1>2, <2>4, <2>5 DEF PlanJob, TypeOK, PCs
<1>3. CASE Finish
  BY <1>0, <1>3 DEF Finish, TypeOK, PCs
<1>4. CASE JournalIntent
  <2>1. CASE plan = <<>>
    BY <1>0, <1>4, <2>1 DEF JournalIntent, TypeOK, PCs
  <2>2. CASE plan # <<>>
    <3>1. Head(plan) \in Intents /\ Tail(plan) \in Seq(Intents)
      BY <1>0, <2>2
    <3>2. cur' = Journaled(Head(plan)) /\ plan' = Tail(plan) /\ pc' = "check"
      BY <1>4, <2>2 DEF JournalIntent
    <3>3. cur' \in Lines /\ cur'.status = "intent" /\ WellFormed(cur')
      BY <3>1, <3>2 DEF Journaled, Line, Intents, Lines, WellFormed
    <3> QED
      BY <1>0, <1>4, <3>1, <3>2, <3>3 DEF JournalIntent, TypeOK, PCs
  <2> QED
    BY <2>1, <2>2
<1>5. CASE Check
  <2>1. pc' \in PCs \ Quiet /\ (pc' \in Moving => cur.kind = "move")
    <3>1. CASE pc = "check"
      BY <1>0, <1>5, <3>1 DEF Check, Checked, PCs, WellFormed, Kinds
    <3>2. CASE pc = "resolve"
      BY <1>0, <1>5, <3>2 DEF Check, Resolved, PCs, WellFormed, Kinds
    <3> QED
      BY <1>5, <3>1, <3>2 DEF Check
  <2> QED
    BY <1>0, <1>5, <2>1 DEF Check, TypeOK
<1>6. ASSUME NEW f, f \in [Paths -> Versions], NEW victim, NEW to,
             to \in PCs \ Quiet, to \in Moving => cur.kind = "move",
             NEW done \in BOOLEAN, pc \notin Quiet,
             Mutate(f, victim, to, done)
      PROVE  TypeOK' /\ Named'
  <2>1. cur' \in Lines /\ cur'.status # "none" /\ WellFormed(cur') /\ cur'.kind = cur.kind
    BY <1>6, LineUpdates DEF Mutate
  <2>2. file' = f /\ pc' = to
    BY <1>0, <1>6 DEF Mutate
  <2> QED
    BY <1>0, <1>6, <2>1, <2>2 DEF Mutate, TypeOK
<1>7. CASE Write
  <2>1. [file EXCEPT ![cur.rel] = cur.after] \in [Paths -> Versions]
    BY <1>0 DEF Lines
  <2> QED
    BY <1>6, <1>7, <2>1 DEF Write, PCs
<1>8. CASE ReturnError
  BY <1>0, <1>8 DEF ReturnError, TypeOK, PCs
<1>9. CASE Remove
  <2>1. [file EXCEPT ![cur.rel] = Absent] \in [Paths -> Versions]
    BY <1>0, <1>z
  <2> QED
    BY <1>6, <1>9, <2>1 DEF Remove, PCs
<1>a. ASSUME pc \in Moving
      PROVE  /\ cur.rel \in Paths /\ cur.to \in Paths /\ cur.kind = "move"
             /\ cur.effected \in BOOLEAN
  BY <1>0, <1>p, <1>a DEF Lines, WellFormed
<1>10. CASE Rename
  <2>1. [file EXCEPT ![cur.to] = file[cur.rel], ![cur.rel] = Absent] \in [Paths -> Versions]
    BY <1>0, <1>10, <1>a DEF Rename, Versions, Absent
  <2>2. (cur.effected \/ cur.after = cur.before) \in BOOLEAN
    OBVIOUS
  <2> QED
    BY <1>6, <1>10, <1>a, <2>1, <2>2 DEF Rename, PCs
<1>11. CASE RenameRefused
  BY <1>0, <1>11 DEF RenameRefused, TypeOK, PCs
<1>12. CASE RenameAcrossDevices
  <2>1. [file EXCEPT ![cur.to] = cur.after] \in [Paths -> Versions]
    BY <1>0 DEF Lines
  <2> QED
    BY <1>6, <1>12, <2>1 DEF RenameAcrossDevices, PCs
<1>13. CASE VerifyRename
  <2>1. [file EXCEPT ![cur.rel] = file[cur.to], ![cur.to] = Absent] \in [Paths -> Versions]
    BY <1>0, <1>13, <1>a DEF VerifyRename, Versions, Absent
  <2>2. CASE file[cur.to] = cur.before
    BY <1>0, <1>13, <1>a, <2>2 DEF VerifyRename, TypeOK, PCs
  <2>3. CASE file[cur.to] # cur.before
    <3> DEFINE e == cur.effected
               g == [file EXCEPT ![cur.rel] = file[cur.to], ![cur.to] = Absent]
    <3>1. Mutate(g, cur.rel, "skip", e)
      BY <1>13, <2>3, Zenon DEF VerifyRename
    <3>4. g \in [Paths -> Versions]
      BY <2>1
    <3>2. pc \notin Quiet /\ "skip" \in PCs \ Quiet /\ "skip" \notin Moving
      BY <1>13 DEF VerifyRename, PCs
    <3>3. e \in BOOLEAN
      BY <1>13, <1>a DEF VerifyRename
    <3> HIDE DEF e, g
    <3> QED
      BY <1>6, <3>1, <3>2, <3>3, <3>4
  <2> QED
    BY <2>2, <2>3
<1>14. CASE Rewrite
  <2>1. [file EXCEPT ![cur.to] = cur.after] \in [Paths -> Versions]
    BY <1>0 DEF Lines
  <2> QED
    BY <1>6, <1>14, <2>1 DEF Rewrite, PCs
<1>15. CASE Govern
  <2>1. cur' = [cur EXCEPT !.governed = TRUE] /\ cur.status # "none"
    BY <1>15 DEF Govern, GovernLine
  <2>2. cur' \in Lines /\ cur'.status # "none" /\ WellFormed(cur')
    BY <2>1, LineUpdates
  <2> QED
    BY <1>0, <1>15, <2>2 DEF Govern, TypeOK, PCs
<1>16. CASE Settle
  <2>1. cur' \in {[cur EXCEPT !.status = "applied"], [cur EXCEPT !.status = "skipped"]}
        /\ cur.status # "none"
    BY <1>16 DEF Settle
  <2>2. cur' \in Lines /\ cur'.status # "none" /\ WellFormed(cur')
    BY <2>1, LineUpdates
  <2> QED
    BY <1>0, <1>16, <2>2 DEF Settle, TypeOK, PCs
<1>17. CASE Crash
  BY <1>0, <1>17 DEF Crash, TypeOK, PCs
<1>18. ASSUME NEW p \in Paths, Edit(p) PROVE TypeOK' /\ Named'
  <2>1. issued' \in Versions /\ file' \in [Paths -> Versions]
    BY <1>0, <1>18 DEF Edit, Versions
  <2> QED
    BY <1>0, <1>18, <2>1 DEF Edit, TypeOK
<1>19. ASSUME NEW p \in Paths, HandDelete(p) PROVE TypeOK' /\ Named'
  <2>1. file' \in [Paths -> Versions]
    BY <1>0, <1>19 DEF HandDelete, Versions, Absent
  <2> QED
    BY <1>0, <1>19, <2>1 DEF HandDelete, TypeOK
<1>20. ASSUME NEW p \in Paths, NEW q \in Paths, HandMove(p, q) PROVE TypeOK' /\ Named'
  <2>1. file' \in [Paths -> Versions]
    BY <1>0, <1>20 DEF HandMove, Versions, Absent
  <2> QED
    BY <1>0, <1>20, <2>1 DEF HandMove, TypeOK
<1>23. CASE UNCHANGED vars
  BY <1>0, <1>23 DEF vars, TypeOK
<1> QED
  BY <1>1, <1>2, <1>3, <1>4, <1>5, <1>7, <1>8, <1>9, <1>10, <1>11, <1>12, <1>13,
     <1>14, <1>15, <1>16, <1>17, <1>18, <1>19, <1>20, <1>23
     DEF Next, Pass

-----------------------------------------------------------------------------
\* what a step does to the journal's side: the pc, the open run, the last line
LEMMA StepSettled == TypeOK /\ Named /\ Settled /\ [Next]_vars => Settled'
<1> SUFFICES ASSUME TypeOK, Named, Settled, [Next]_vars PROVE Settled'
  OBVIOUS
<1> USE DEF Settled, vault, others
<1>0. cur \in Lines /\ runOpen \in BOOLEAN
  BY DEF TypeOK
<1>1. CASE Start
  BY <1>0, <1>1 DEF Start, NoIntent, Line
<1>2. CASE PlanJob
  BY <1>0, <1>2 DEF PlanJob
<1>3. CASE Finish
  BY <1>3 DEF Finish
<1>4. CASE JournalIntent
  BY <1>4 DEF JournalIntent, Journaled, Line
<1>5. CASE Check
  <2>1. pc' \notin {"off", "jobs", "commit", "finish"}
    <3>1. cur.kind \in Kinds
      BY <1>5 DEF Check, TypeOK, WellFormed, Named, Quiet
    <3> QED
      BY <1>5, <3>1 DEF Check, Checked, Resolved, Kinds
  <2> QED
    BY <1>5, <2>1 DEF Check
<1>7. CASE Write
  BY <1>0, <1>7 DEF Write, Mutate, Lines
<1>8. CASE ReturnError
  BY <1>0, <1>8 DEF ReturnError
<1>9. CASE Remove
  BY <1>0, <1>9 DEF Remove, Mutate, Lines
<1>10. CASE Rename
  BY <1>0, <1>10 DEF Rename, Mutate, Lines
<1>11. CASE RenameRefused
  BY <1>0, <1>11 DEF RenameRefused
<1>12. CASE RenameAcrossDevices
  BY <1>0, <1>12 DEF RenameAcrossDevices, Mutate, Lines
<1>13. CASE VerifyRename
  <2>1. CASE file[cur.to] = cur.before
    BY <1>13, <2>1 DEF VerifyRename
  <2>2. CASE file[cur.to] # cur.before
    BY <1>0, <1>13, <2>2 DEF VerifyRename, Mutate, Lines
  <2> QED
    BY <2>1, <2>2
<1>14. CASE Rewrite
  BY <1>0, <1>14 DEF Rewrite, Mutate, Lines
<1>15. CASE Govern
  BY <1>0, <1>15 DEF Govern, GovernLine, Lines
<1>16. CASE Settle
  BY <1>0, <1>16 DEF Settle, Lines
<1>17. CASE Crash
  BY <1>0, <1>17 DEF Crash
<1>18. ASSUME NEW p \in Paths, Edit(p) \/ HandDelete(p) PROVE Settled'
  BY <1>0, <1>18 DEF Edit, HandDelete
<1>19. ASSUME NEW p \in Paths, NEW q \in Paths, HandMove(p, q) PROVE Settled'
  BY <1>0, <1>19 DEF HandMove
<1>21. CASE UNCHANGED vars
  BY <1>0, <1>21 DEF vars
<1> QED
  BY <1>1, <1>2, <1>3, <1>4, <1>5, <1>7, <1>8, <1>9, <1>10, <1>11, <1>12, <1>13,
     <1>14, <1>15, <1>16, <1>17, <1>18, <1>19, <1>21 DEF Next, Pass

-----------------------------------------------------------------------------
\* a write that leaves on the paths of the intent what may be there
LEMMA MutateWatched ==
  ASSUME TypeOK, Watched, Window,
         NEW victim \in {cur.rel, cur.to} \cap Paths, NEW done, NEW to,
         NEW f, Mutate(f, victim, to, done),
         \A p \in {cur.rel, cur.to} \cap Paths :
           f[p] \in {Absent, cur.before, cur.after} \cup racy
  PROVE  Watched'
<1>1. /\ file' = f /\ racy' = racy /\ cur'.rel = cur.rel /\ cur'.to = cur.to
      /\ cur'.before = cur.before /\ cur'.after = cur.after
      /\ clobbered' = clobbered \cup ({file[victim]} \ {Absent, cur.before, cur.after})
  BY DEF Mutate, Destroy, TypeOK, Lines
<1>2. file[victim] \in {Absent, cur.before, cur.after} \cup racy
  BY DEF Watched
<1>3. clobbered' \subseteq racy'
  BY <1>1, <1>2 DEF Watched
<1> QED
  BY <1>1, <1>3 DEF Watched

\* outside the window nothing is watched
LEMMA QuietWatched ==
  ASSUME Watched, ~Window', clobbered' = clobbered, racy' = racy
  PROVE  Watched'
BY DEF Watched

\* a step of somebody else may put one version somewhere, and then it arrives
LEMMA ArrivalWatched ==
  ASSUME Watched, pc' = pc, cur' = cur, clobbered' = clobbered, NEW v,
         \A p \in Paths : file'[p] \in {file[p], v, Absent},
         Arrives(v) \/ (v = Absent /\ racy' = racy)
  PROVE  Watched'
<1>1. racy \subseteq racy' /\ (Window => v \in racy' \cup {Absent})
  BY DEF Arrives
<1>2. Window' <=> Window
  BY DEF Window
<1> QED
  BY <1>1, <1>2 DEF Watched

LEMMA StepWatched == TypeOK /\ Named /\ Watched /\ [Next]_vars => Watched'
<1> SUFFICES ASSUME TypeOK, Named, Watched, [Next]_vars PROVE Watched'
  OBVIOUS
<1> USE DEF vault, others
<1>0. /\ file \in [Paths -> Versions] /\ cur \in Lines
      /\ cur.status # "none" => WellFormed(cur)
  BY DEF TypeOK
<1>p. NoPath \notin Paths
  BY DreamJournalAssumption DEF NoPath
<1>a. ASSUME Window
      PROVE  /\ cur.rel \in Paths
             /\ \A p \in {cur.rel, cur.to} \cap Paths :
                  file[p] \in {Absent, cur.before, cur.after} \cup racy
  BY <1>0, <1>a DEF Window, Named, Quiet, WellFormed, Watched
<1>b. ASSUME pc \in {"rename", "verify", "rewrite"} PROVE cur.to \in Paths
  BY <1>0, <1>b, <1>p DEF Named, Quiet, Moving, WellFormed, Lines
<1>1. CASE Start
  BY <1>1, QuietWatched DEF Start, Window
<1>2. CASE PlanJob
  BY <1>2, QuietWatched DEF PlanJob, Window
<1>3. CASE Finish
  BY <1>3, QuietWatched DEF Finish, Window
<1>4. CASE JournalIntent
  BY <1>4, QuietWatched DEF JournalIntent, Window
<1>5. CASE Check
  <2>1. cur.kind \in Kinds /\ cur.rel \in Paths /\ (cur.kind # "move" => cur.to = NoPath)
    BY <1>0, <1>5 DEF Check, Named, Quiet, WellFormed
  <2>2. ASSUME Window'
        PROVE  \A p \in {cur.rel, cur.to} \cap Paths :
                 file[p] \in {Absent, cur.before, cur.after}
    <3>1. CASE pc = "check"
      BY <1>5, <1>p, <2>1, <2>2, <3>1 DEF Check, Checked, Window, Kinds
    <3>2. CASE pc = "resolve"
      BY <1>5, <1>p, <2>1, <2>2, <3>2 DEF Check, Resolved, Window, Kinds
    <3> QED
      BY <1>5, <3>1, <3>2 DEF Check
  <2> QED
    BY <1>5, <2>2 DEF Check, Watched
<1>6. CASE Write
  <2>1. \A p \in Paths : [file EXCEPT ![cur.rel] = cur.after][p] \in {file[p], cur.after}
    BY <1>0
  <2> QED
    BY <1>6, <1>a, <2>1, MutateWatched DEF Write, Window
<1>7. CASE ReturnError
  BY <1>7, QuietWatched DEF ReturnError, Window
<1>8. CASE Remove
  <2>1. \A p \in Paths : [file EXCEPT ![cur.rel] = Absent][p] \in {file[p], Absent}
    BY <1>0
  <2> QED
    BY <1>8, <1>a, <2>1, MutateWatched DEF Remove, Window
<1>9. CASE Rename
  <2>1. \A p \in Paths : [file EXCEPT ![cur.to] = file[cur.rel], ![cur.rel] = Absent][p]
                            \in {file[p], file[cur.rel], Absent}
    BY <1>0
  <2> QED
    BY <1>9, <1>a, <1>b, <2>1, MutateWatched DEF Rename, Window
<1>10. CASE RenameRefused
  BY <1>10, QuietWatched DEF RenameRefused, Window
<1>11. CASE RenameAcrossDevices
  <2>1. \A p \in Paths : [file EXCEPT ![cur.to] = cur.after][p] \in {file[p], cur.after}
    BY <1>0
  <2> QED
    BY <1>11, <1>a, <1>b, <2>1, MutateWatched DEF RenameAcrossDevices, Window
<1>12. CASE VerifyRename
  <2>1. CASE file[cur.to] = cur.before
    BY <1>12, <1>a, <2>1 DEF VerifyRename, Watched, Window
  <2>2. CASE file[cur.to] # cur.before
    <3>1. \A p \in Paths : [file EXCEPT ![cur.rel] = file[cur.to], ![cur.to] = Absent][p]
                              \in {file[p], file[cur.to], Absent}
      BY <1>0
    <3> QED
      BY <1>12, <1>a, <1>b, <2>2, <3>1, MutateWatched DEF VerifyRename, Window
  <2> QED
    BY <2>1, <2>2
<1>13. CASE Rewrite
  <2>1. \A p \in Paths : [file EXCEPT ![cur.to] = cur.after][p] \in {file[p], cur.after}
    BY <1>0
  <2> QED
    BY <1>13, <1>a, <1>b, <2>1, MutateWatched DEF Rewrite, Window
<1>14. CASE Govern
  BY <1>14, QuietWatched DEF Govern, Window
<1>15. CASE Settle
  BY <1>15, QuietWatched DEF Settle, Window
<1>16. CASE Crash
  BY <1>16, QuietWatched DEF Crash, Window
<1>17. ASSUME NEW p \in Paths, Edit(p) PROVE Watched'
  BY <1>0, <1>17, ArrivalWatched DEF Edit
<1>18. ASSUME NEW p \in Paths, HandDelete(p) PROVE Watched'
  BY <1>0, <1>18, ArrivalWatched DEF HandDelete
<1>19. ASSUME NEW p \in Paths, NEW q \in Paths, HandMove(p, q) PROVE Watched'
  BY <1>0, <1>19, ArrivalWatched DEF HandMove
<1>22. CASE UNCHANGED vars
  BY <1>22 DEF vars, Watched, Window
<1> QED
  BY <1>1, <1>2, <1>3, <1>4, <1>5, <1>6, <1>7, <1>8, <1>9, <1>10, <1>11, <1>12, <1>13,
     <1>14, <1>15, <1>16, <1>17, <1>18, <1>19, <1>22 DEF Next, Pass

-----------------------------------------------------------------------------
\* a step after which no note holds a content it did not hold before, but for
\* versions issued only now and for the content of the intent being made
LEMMA FreshSame ==
  ASSUME TypeOK, Fresh, plan' \in {plan, <<>>}, cur'.after = cur.after,
         cur'.before = cur.before, issued' \in Nat, issued' >= issued,
         cur.effected => cur'.effected,
         \A p \in Paths : \/ file'[p] \in {Absent} \cup {file[q] : q \in Paths}
                          \/ file'[p] > issued /\ file'[p] <= issued'
                          \/ file'[p] = cur.after /\ cur'.effected
  PROVE  Fresh'
<1> USE DEF Fresh, Unwritten, Brings, Versions, Absent
<1>0. /\ file \in [Paths -> Versions] /\ issued \in Versions /\ plan \in Seq(Intents)
      /\ cur \in Lines /\ cur.after \in Versions
      /\ \A p \in Paths : file[p] \in Nat
  BY DreamJournalAssumption DEF TypeOK, Lines
<1>i. \A i \in 1..Len(plan) : plan[i] \in Intents /\ plan[i].after \in Versions
  BY <1>0 DEF Intents
<1>1. \A p \in Paths : file'[p] <= issued'
  BY <1>0
<1>2. ASSUME NEW v \in Versions, v # Absent, v <= issued, v # cur.after \/ ~cur'.effected,
             \A p \in Paths : file[p] # v
      PROVE  \A p \in Paths : file'[p] # v
  BY <1>0, <1>2
<1>3. ASSUME NEW i \in 1..Len(plan') PROVE
        /\ plan'[i].after <= issued' /\ Unwritten(plan[i])'
        /\ Brings(plan'[i]) =>
             /\ plan'[i].after # cur'.after
             /\ \A j \in 1..Len(plan') : j # i => plan'[i].after # plan'[j].after
  <2>1. plan' = plan
    BY <1>3
  <2>2. i \in 1..Len(plan) /\ plan[i].after \in Versions
    BY <1>i, <2>1
  <2>3. Brings(plan[i]) => \A p \in Paths : file'[p] # plan[i].after
    BY <1>2, <2>2
  <2> QED
    BY <1>0, <2>1, <2>2, <2>3
<1>4. ~cur'.effected => Unwritten(cur)'
  BY <1>0, <1>2
<1> QED
  BY <1>0, <1>1, <1>3, <1>4

LEMMA StepFresh == TypeOK /\ Named /\ Fresh /\ [Next]_vars => Fresh'
<1> SUFFICES ASSUME TypeOK, Named, Fresh, [Next]_vars PROVE Fresh'
  OBVIOUS
<1> USE DEF vault, others
<1>0. /\ file \in [Paths -> Versions] /\ issued \in Versions /\ Versions \subseteq Nat
      /\ cur \in Lines /\ plan \in Seq(Intents) /\ (cur.status # "none" => WellFormed(cur))
  BY DreamJournalAssumption DEF TypeOK, Versions
<1>m. MaxBatch \in Nat /\ MaxVersions \in Nat
  BY DreamJournalAssumption
<1>a. ASSUME pc \in {"write", "remove", "rename", "verify", "rewrite", "unlink"}
      PROVE  cur.rel \in Paths
  BY <1>0, <1>a DEF Named, Quiet, WellFormed
<1>b. ASSUME pc \in {"rename", "verify", "rewrite"} PROVE cur.to \in Paths
  BY <1>0, <1>b, DreamJournalAssumption DEF Named, Quiet, Moving, WellFormed, Lines, NoPath
\* the steps that change no note and issue nothing
<1>c. ASSUME file' = file, issued' = issued, plan' \in {plan, <<>>},
             cur'.after = cur.after, cur'.before = cur.before, cur'.effected = cur.effected
      PROVE  Fresh'
  <2>1. issued' \in Nat /\ issued' >= issued
    BY <1>0, <1>c
  <2>2. \A p \in Paths : file'[p] \in {Absent} \cup {file[q] : q \in Paths}
    BY <1>c
  <2> QED
    BY <1>c, <2>1, <2>2, FreshSame
\* the writes of the pass
<1>d. ASSUME NEW f, NEW victim, NEW to, NEW done, done \in BOOLEAN,
             Mutate(f, victim, to, done), cur.effected => done,
             \A p \in Paths : \/ f[p] \in {Absent} \cup {file[q] : q \in Paths}
                              \/ f[p] = cur.after /\ done
      PROVE  Fresh'
  <2>1. /\ file' = f /\ issued' = issued /\ plan' = plan /\ cur'.after = cur.after
        /\ cur'.before = cur.before /\ cur'.effected = done
    BY <1>0, <1>d DEF Mutate, Lines
  <2>2. issued' \in Nat /\ issued' >= issued
    BY <1>0, <2>1
  <2> QED
    BY <1>d, <2>1, <2>2, FreshSame
\* the writes of everybody else: a version issued now, at most
<1>e. ASSUME cur' = cur, plan' = plan, issued' \in {issued, issued + 1},
             \A p \in Paths : \/ file'[p] \in {Absent} \cup {file[q] : q \in Paths}
                              \/ file'[p] = issued' /\ issued' = issued + 1
      PROVE  Fresh'
  <2>1. issued' \in Nat /\ issued' >= issued
    BY <1>0, <1>e
  <2>2. \A p \in Paths : \/ file'[p] \in {Absent} \cup {file[q] : q \in Paths}
                         \/ file'[p] > issued /\ file'[p] <= issued'
    <3>1. issued \in Nat
      BY <1>0
    <3>2. issued' = issued + 1 => issued' > issued /\ issued' <= issued'
      BY <3>1
    <3> TAKE p \in Paths
    <3>3. CASE file'[p] = issued' /\ issued' = issued + 1
      BY <3>2, <3>3
    <3> QED
      BY <1>e, <3>3
  <2> QED
    BY <1>e, <2>1, <2>2, FreshSame
<1>1. CASE Start
  <2>1. CASE runOpen
    BY <1>1, <1>c, <2>1 DEF Start
  <2>2. CASE ~runOpen
    <3>1. cur' = NoIntent /\ file' = file /\ issued' = issued /\ plan' = plan
      BY <1>1, <2>2 DEF Start
    <3>2. cur'.after = Absent
      BY <3>1 DEF NoIntent, Line
    <3>3. \A i \in 1..Len(plan) : Brings(plan[i]) => plan[i].after # Absent
      BY DEF Brings
    <3> QED
      BY <1>0, <3>1, <3>2, <3>3 DEF Fresh, Unwritten, Brings, Absent
  <2> QED
    BY <2>1, <2>2
<1>2. CASE PlanJob
  <2>1. PICK n \in 1..MaxBatch :
          issued + n <= MaxVersions /\ plan' \in Plans(n) /\ issued' = issued + n
    BY <1>2 DEF PlanJob
  <2>n. n \in Nat /\ \A i \in 1..n : i \in Nat /\ 1 <= i /\ i <= n
    BY <1>m, <2>1
  <2>2. plan' \in [1..n -> Choices(n)]
    BY <2>1, PlansElements
  <2>k. \A i \in 1..n : plan'[i].after \in {issued + i, plan'[i].before, Absent}
    BY <2>1, PlansElements
  <2>3. ASSUME NEW i \in 1..n
        PROVE  plan'[i].before <= issued /\ plan'[i].before \in Nat
    <3>1. PICK p \in Paths, k \in 1..n : plan'[i] \in Plannable(p, issued + k)
      BY <2>2 DEF Choices
    <3>2. issued + k \in Versions /\ issued + k # Absent
      BY <1>0, <1>m, <2>1, <2>n DEF Versions, Absent
    <3>3. plan'[i].before = file[p]
      BY <3>1, <3>2, PlannableTypes
    <3> QED
      BY <1>0, <3>3 DEF Fresh
  <2>4. n \in Nat /\ Len(plan') = n /\ file' = file /\ cur' = cur
    BY <1>2, <2>n, <2>2 DEF PlanJob
  <2>5. ASSUME NEW i \in 1..n
        PROVE  /\ plan'[i].after <= issued'
               /\ Brings(plan'[i]) => plan'[i].after = issued + i
    BY <1>0, <2>1, <2>n, <2>k, <2>3, <2>4, <2>5 DEF Brings, Absent
  <2>6. ASSUME NEW i \in 1..n, Brings(plan'[i])
        PROVE  /\ \A p \in Paths : file[p] # plan'[i].after
               /\ plan'[i].after # cur.after
               /\ \A j \in 1..n : j # i => plan'[i].after # plan'[j].after
    <3>1. \A p \in Paths : file[p] <= issued /\ file[p] \in Nat
      BY <1>0 DEF Fresh
    <3>2. cur.after <= issued /\ cur.after \in Nat
      BY <1>0 DEF Fresh, Lines
    <3>3. plan'[i].after = issued + i /\ i \in Nat /\ i >= 1 /\ issued \in Nat
      BY <1>0, <2>n, <2>5, <2>6
    <3>4. ASSUME NEW j \in 1..n, j # i PROVE plan'[i].after # plan'[j].after
      <4>1. j \in Nat /\ plan'[j].before \in Nat /\ plan'[j].before <= issued
        BY <2>n, <2>3
      <4>2. plan'[j].after \in {issued + j, plan'[j].before, 0}
        BY <2>k DEF Absent
      <4> QED
        BY <3>3, <3>4, <4>1, <4>2
    <3>5. plan'[i].after # cur.after
      BY <3>2, <3>3
    <3>6. \A p \in Paths : file[p] # plan'[i].after
      BY <3>1, <3>3
    <3> QED
      BY <3>4, <3>5, <3>6
  <2> QED
    <3>0. issued \in Nat /\ issued' = issued + n /\ n \in Nat
          /\ cur.after \in Nat /\ \A p \in Paths : file[p] \in Nat
      BY <1>0, <2>1, <2>n DEF Lines
    <3>1. \A p \in Paths : file'[p] <= issued'
      BY <2>4, <3>0 DEF Fresh
    <3>2. cur'.after <= issued' /\ (~cur'.effected => Unwritten(cur)')
      <4>1. cur.after <= issued
        BY DEF Fresh
      <4>2. ~cur.effected => Unwritten(cur)
        BY DEF Fresh
      <4> QED
        BY <2>4, <3>0, <4>1, <4>2 DEF Unwritten, Brings
    <3>3. ASSUME NEW i \in 1..Len(plan')
          PROVE  /\ plan'[i].after <= issued' /\ Unwritten(plan[i])'
                 /\ Brings(plan'[i]) =>
                      /\ plan'[i].after # cur'.after
                      /\ \A j \in 1..Len(plan') : j # i => plan'[i].after # plan'[j].after
      BY <2>4, <2>5, <2>6, <3>3 DEF Unwritten, Brings
    <3> QED
      BY <3>1, <3>2, <3>3 DEF Fresh
<1>3. CASE Finish
  BY <1>3, <1>c DEF Finish
<1>4. CASE JournalIntent
  <2>1. CASE plan = <<>>
    BY <1>4, <1>c, <2>1 DEF JournalIntent
  <2>2. CASE plan # <<>>
    <3>1. /\ cur' = Journaled(plan[1]) /\ plan' = Tail(plan)
          /\ file' = file /\ issued' = issued
      BY <1>0, <1>4, <2>2 DEF JournalIntent
    <3>2. /\ cur'.after = plan[1].after /\ cur'.before = plan[1].before
      BY <3>1 DEF Journaled, Line
    <3>3. Len(plan) \in Nat \ {0} /\ Len(plan') = Len(plan) - 1
          /\ \A i \in 1..Len(plan') : i + 1 \in 1..Len(plan) /\ plan'[i] = plan[i + 1]
      BY <1>0, <2>2, <3>1
    <3> QED
      BY <3>1, <3>2, <3>3 DEF Fresh, Unwritten, Brings
  <2> QED
    BY <2>1, <2>2
<1>5. CASE Check
  BY <1>5, <1>c DEF Check
<1>6. CASE Write
  <2>1. \A p \in Paths : [file EXCEPT ![cur.rel] = cur.after][p] \in {file[p], cur.after}
    BY <1>0
  <2> QED
    BY <1>6, <1>d, <2>1 DEF Write
<1>7. CASE ReturnError
  BY <1>7, <1>c DEF ReturnError
<1>8. CASE Remove
  <2>1. \A p \in Paths : [file EXCEPT ![cur.rel] = Absent][p] \in {file[p], Absent}
    BY <1>0
  <2> QED
    BY <1>8, <1>d, <2>1 DEF Remove
<1>9. CASE Rename
  <2>1. \A p \in Paths : [file EXCEPT ![cur.to] = file[cur.rel], ![cur.rel] = Absent][p]
                            \in {file[p], file[cur.rel], Absent}
    BY <1>0
  <2>2. cur.rel \in Paths
    BY <1>9, <1>a DEF Rename
  <2> DEFINE done == cur.effected \/ cur.after = cur.before
             g == [file EXCEPT ![cur.to] = file[cur.rel], ![cur.rel] = Absent]
             to == IF cur.after = cur.before THEN "govern" ELSE "verify"
  <2>3. Mutate(g, cur.to, to, done)
    BY <1>9, Zenon DEF Rename
  <2>4. done \in BOOLEAN /\ (cur.effected => done)
    OBVIOUS
  <2>5. \A p \in Paths : g[p] \in {Absent} \cup {file[q] : q \in Paths}
    BY <2>1, <2>2
  <2> HIDE DEF done, g, to
  <2> QED
    BY <1>d, <2>3, <2>4, <2>5
<1>10. CASE RenameRefused
  BY <1>10, <1>c DEF RenameRefused
<1>11. CASE RenameAcrossDevices
  <2>1. \A p \in Paths : [file EXCEPT ![cur.to] = cur.after][p] \in {file[p], cur.after}
    BY <1>0
  <2> QED
    BY <1>11, <1>d, <2>1 DEF RenameAcrossDevices
<1>12. CASE VerifyRename
  <2>1. CASE file[cur.to] = cur.before
    BY <1>12, <1>c, <2>1 DEF VerifyRename
  <2>2. CASE file[cur.to] # cur.before
    <3>1. \A p \in Paths : [file EXCEPT ![cur.rel] = file[cur.to], ![cur.to] = Absent][p]
                              \in {file[p], file[cur.to], Absent}
      BY <1>0
    <3>2. cur.to \in Paths
      BY <1>12, <1>b DEF VerifyRename
    <3> DEFINE e == cur.effected
               g == [file EXCEPT ![cur.rel] = file[cur.to], ![cur.to] = Absent]
    <3>3. Mutate(g, cur.rel, "skip", e)
      BY <1>12, <2>2, Zenon DEF VerifyRename
    <3>4. e \in BOOLEAN /\ (cur.effected => e)
      BY <1>0 DEF Lines
    <3>5. \A p \in Paths : g[p] \in {Absent} \cup {file[q] : q \in Paths}
      BY <3>1, <3>2
    <3> HIDE DEF e, g
    <3> QED
      BY <1>d, <3>3, <3>4, <3>5
  <2> QED
    BY <2>1, <2>2
<1>13. CASE Rewrite
  <2>1. \A p \in Paths : [file EXCEPT ![cur.to] = cur.after][p] \in {file[p], cur.after}
    BY <1>0
  <2> QED
    BY <1>13, <1>d, <2>1 DEF Rewrite
<1>14. CASE Govern
  BY <1>0, <1>14, <1>c DEF Govern, GovernLine, Lines
<1>15. CASE Settle
  BY <1>0, <1>15, <1>c DEF Settle, Lines
<1>16. CASE Crash
  BY <1>16, <1>c DEF Crash
<1>17. ASSUME NEW p \in Paths, Edit(p) PROVE Fresh'
  BY <1>0, <1>17, <1>e DEF Edit
<1>18. ASSUME NEW p \in Paths, HandDelete(p) PROVE Fresh'
  BY <1>0, <1>18, <1>e DEF HandDelete
<1>19. ASSUME NEW p \in Paths, NEW q \in Paths, HandMove(p, q) PROVE Fresh'
  BY <1>0, <1>19, <1>e DEF HandMove
<1>22. CASE UNCHANGED vars
  BY <1>22, <1>c DEF vars
<1> QED
  BY <1>1, <1>2, <1>3, <1>4, <1>5, <1>6, <1>7, <1>8, <1>9, <1>10, <1>11, <1>12, <1>13,
     <1>14, <1>15, <1>16, <1>17, <1>18, <1>19, <1>22 DEF Next, Pass

-----------------------------------------------------------------------------
LEMMA StepRecorded == TypeOK /\ Named /\ Fresh /\ Recorded /\ [Next]_vars => Recorded'
<1> SUFFICES ASSUME TypeOK, Named, Fresh, Recorded, [Next]_vars PROVE Recorded'
  OBVIOUS
<1> USE DEF vault, others, Recorded, Quiet, Made
<1>0. /\ cur \in Lines /\ cur.effected \in BOOLEAN /\ cur.governed \in BOOLEAN
      /\ cur.status # "none" => WellFormed(cur)
  BY DEF TypeOK, Lines
<1>1. CASE Start
  BY <1>0, <1>1 DEF Start, NoIntent, Line
<1>2. CASE PlanJob
  BY <1>2 DEF PlanJob
<1>3. CASE Finish
  BY <1>3 DEF Finish
<1>4. CASE JournalIntent
  BY <1>4 DEF JournalIntent, Journaled, Line
<1>5. CASE Check
  <2>1. cur.status = "intent" /\ cur.kind \in Kinds /\ cur.rel \in Paths /\ cur' = cur
    BY <1>0, <1>5 DEF Check, Named, WellFormed
  <2>2. cur.kind = "move" => cur.to \in Paths
    BY <1>0, <2>1, DreamJournalAssumption DEF WellFormed, Lines, NoPath
  <2>3. pc' \notin Quiet /\ pc' # "settle"
    BY <1>5, <2>1 DEF Check, Checked, Resolved, Kinds
  <2>4. ASSUME pc' = "govern" PROVE Made
    <3>1. pc = "resolve" /\ Resolved(cur) = "govern"
      BY <1>5, <2>1, <2>4 DEF Check, Checked, Kinds
    <3>2. CASE cur.kind = "delete"
      BY <3>2
    <3>3. CASE cur.kind # "delete"
      <4>1. cur.after # Absent
        BY <1>0, <2>1, <3>3 DEF WellFormed
      <4>2. file[cur.rel] = cur.after \/ (cur.kind = "move" /\ file[cur.to] = cur.after)
        BY <2>1, <3>1, <3>3 DEF Resolved, Kinds
      <4>3. \E p \in Paths : file[p] = cur.after
        BY <2>1, <2>2, <4>2
      <4> QED
        BY <4>1, <4>3 DEF Fresh, Unwritten, Brings
    <3> QED
      BY <3>2, <3>3
  <2> QED
    BY <2>1, <2>3, <2>4
\* a write that leads to the governance line has made what it stands for
<1>6. ASSUME NEW f, NEW victim, NEW to, NEW done, done \in BOOLEAN,
             pc \notin Quiet, to \notin Quiet, to # "settle",
             Mutate(f, victim, to, done),
             to = "govern" => done
      PROVE  Recorded'
  <2>1. /\ pc' = to /\ cur'.effected = done /\ cur'.status = "intent"
    BY <1>0, <1>6 DEF Mutate, Lines
  <2> QED
    BY <1>6, <2>1
<1>7. CASE Write
  BY <1>6, <1>7 DEF Write
<1>8. CASE ReturnError
  BY <1>8 DEF ReturnError
<1>9. CASE Remove
  <2>1. pc \notin Quiet /\ Mutate([file EXCEPT ![cur.rel] = Absent], cur.rel, "govern", TRUE)
    BY <1>9 DEF Remove
  <2> QED
    BY ONLY <1>6, <2>1 DEF Quiet
<1>10. CASE Rename
  <2> DEFINE done == cur.effected \/ cur.after = cur.before
             g == [file EXCEPT ![cur.to] = file[cur.rel], ![cur.rel] = Absent]
             to == IF cur.after = cur.before THEN "govern" ELSE "verify"
  <2>1. Mutate(g, cur.to, to, done)
    BY <1>10, Zenon DEF Rename
  <2>2. done \in BOOLEAN /\ (to = "govern" => done) /\ to \notin Quiet /\ to # "settle"
    OBVIOUS
  <2>3. pc \notin Quiet
    BY <1>10 DEF Rename
  <2> HIDE DEF done, g, to
  <2> QED
    BY <1>6, <2>1, <2>2, <2>3
<1>11. CASE RenameRefused
  BY <1>11 DEF RenameRefused
<1>12. CASE RenameAcrossDevices
  BY <1>6, <1>12 DEF RenameAcrossDevices
<1>13. CASE VerifyRename
  <2>1. CASE file[cur.to] = cur.before
    BY <1>13, <2>1 DEF VerifyRename
  <2>2. CASE file[cur.to] # cur.before
    <3> DEFINE e == cur.effected
               g == [file EXCEPT ![cur.rel] = file[cur.to], ![cur.to] = Absent]
    <3>1. Mutate(g, cur.rel, "skip", e)
      BY <1>13, <2>2, Zenon DEF VerifyRename
    <3>2. e \in BOOLEAN /\ pc \notin Quiet
      BY <1>0, <1>13 DEF VerifyRename
    <3> HIDE DEF e, g
    <3> QED
      BY <1>6, <3>1, <3>2
  <2> QED
    BY <2>1, <2>2
<1>14. CASE Rewrite
  BY <1>6, <1>14 DEF Rewrite
<1>15. CASE Govern
  BY <1>0, <1>15 DEF Govern, GovernLine, Lines
<1>16. CASE Settle
  BY <1>0, <1>16 DEF Settle, Lines
<1>17. CASE Crash
  BY <1>17 DEF Crash
<1>18. ASSUME NEW p \in Paths, Edit(p) \/ HandDelete(p) PROVE Recorded'
  BY <1>18 DEF Edit, HandDelete
<1>19. ASSUME NEW p \in Paths, NEW q \in Paths, HandMove(p, q) PROVE Recorded'
  BY <1>19 DEF HandMove
<1>21. CASE UNCHANGED vars
  BY <1>21 DEF vars
<1> QED
  BY <1>1, <1>2, <1>3, <1>4, <1>5, <1>7, <1>8, <1>9, <1>10, <1>11, <1>12, <1>13,
     <1>14, <1>15, <1>16, <1>17, <1>18, <1>19, <1>21 DEF Next, Pass

-----------------------------------------------------------------------------
LEMMA InitJournalInv == Init => JournalInv
<1> SUFFICES ASSUME Init PROVE JournalInv
  OBVIOUS
<1>1. TypeOK
  BY InitTypes
<1>2. /\ pc = "off" /\ runOpen = FALSE /\ cur = NoIntent /\ clobbered = {} /\ plan = <<>>
      /\ NoIntent.status = "none" /\ NoIntent.after = Absent
      /\ NoIntent.governed = FALSE /\ NoIntent.effected = FALSE
  BY DEF Init, NoIntent, Line
<1>3. Named /\ Settled /\ Watched /\ Recorded
  BY <1>2 DEF Named, Settled, Watched, Recorded, Quiet, Moving, Window
<1>4. Fresh
  <2>1. Cardinality(Notes) \in Nat
    BY DreamJournalAssumption, FS_Subset, FS_CardinalityType
  <2>2. \A p \in Paths : file[p] <= issued
    BY <2>1 DEF Init, Absent
  <2>3. cur.after <= issued /\ Unwritten(cur)
    BY <1>2, <2>1 DEF Init, Unwritten, Brings, Absent
  <2> QED
    BY <1>2, <2>2, <2>3 DEF Fresh
<1> QED
  BY <1>1, <1>3, <1>4 DEF JournalInv

LEMMA StepJournalInv == JournalInv /\ [Next]_vars => JournalInv'
BY StepTypes, StepSettled, StepWatched, StepFresh, StepRecorded DEF JournalInv

LEMMA JournalInvHolds == Spec => []JournalInv
BY InitJournalInv, StepJournalInv, PTL DEF Spec

\* The journal's data structures are well formed in every reachable state.
THEOREM TypeCorrect == Spec => []TypeOK
<1>1. JournalInv => TypeOK
  BY DEF JournalInv
<1> QED
  BY <1>1, JournalInvHolds, PTL

\* Whatever crashes and whoever else works in the vault, the pass destroys only
\* what its intent names and what arrived between its check and its write.
THEOREM ClobbersOnlyWhatRaced == Spec => []ClobbersOnlyInTheWindow
<1>1. JournalInv => ClobbersOnlyInTheWindow
  BY DEF JournalInv, Watched, ClobbersOnlyInTheWindow
<1> QED
  BY <1>1, JournalInvHolds, PTL

\* An applied line implies its governance line and a change that was made.
THEOREM AppliedIsRecorded == Spec => []AppliedImpliesRecorded
<1>1. JournalInv => AppliedImpliesRecorded
  BY DEF JournalInv, Recorded, Made, AppliedImpliesRecorded
<1> QED
  BY <1>1, JournalInvHolds, PTL

\* No run is closed over an intent that was neither applied nor skipped.
THEOREM NoIntentIsLeftBehind == Spec => []NoIntentLeftBehind
<1>1. JournalInv => NoIntentLeftBehind
  BY DEF JournalInv, Settled, NoIntentLeftBehind
<1> QED
  BY <1>1, JournalInvHolds, PTL
=============================================================================
