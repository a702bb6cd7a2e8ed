----------------------------- MODULE DreamJournal -----------------------------
(***************************************************************************)
(* The dreaming pass's write-ahead journal                                 *)
(* (daemon/internal/dreaming/journal.go, and the run that drives it in     *)
(* run.go).  Every mutation of the vault is journaled as an intent, made,  *)
(* recorded in the governance log and journaled applied, or journaled      *)
(* skipped.  A crash leaves one unsettled intent, which the next start     *)
(* resolves by the hashes the intent carries.  Meanwhile the operator, and *)
(* the Python writers (whose vault mutex the pass does not take), work on  *)
(* the same notes.                                                         *)
(*                                                                         *)
(* A note's content is a version number, unique to the write that made it: *)
(* versions stand for the hashes.  Every call on a file is one step.       *)
(***************************************************************************)
EXTENDS Integers, Sequences, FiniteSets

CONSTANTS Paths,
          Notes,        \* the paths that hold a note at the start
          MaxVersions,  \* BOUND: contents ever written
          MaxPlans,     \* BOUND: jobs planned
          MaxBatch,     \* BOUND: intents of one job
          MaxCrashes,   \* BOUND: kills of the pass
          MaxHands      \* BOUND: hand moves and deletions by the operator

ASSUME DreamJournalAssumption ==
  /\ Notes \subseteq Paths /\ IsFiniteSet(Paths) /\ "nowhere" \notin Paths
  /\ Cardinality(Notes) <= MaxVersions
  /\ {MaxVersions, MaxPlans, MaxBatch, MaxCrashes, MaxHands} \subseteq Nat

Absent == 0
Versions == 0..MaxVersions
NoPath == "nowhere"

VARIABLES file,      \* the vault: the version at each path, Absent without a note
          issued,    \* the last version number given out
          pc,        \* where the pass is
          resuming,  \* whether it works through a crashed run's journal
          plan,      \* the intents the running job has still to commit
          runOpen,   \* the journal has a run-start without its run-done
          cur,       \* the last journaled intent, and what became of it
          clobbered, \* history: versions the pass destroyed that no intent named
          racy,      \* history: versions put in place while the pass was
                     \* between its check and its write
          budget     \* what is left of the bounds

vault == <<file, issued>>
vars == <<vault, pc, resuming, plan, runOpen, cur, racy, clobbered, budget>>

\* what a job plans: only a move goes somewhere, only a creation finds nothing,
\* and only a deletion leaves nothing
Kinds == {"edit", "move", "create", "delete"}

WellFormed(in) ==
  /\ in.kind \in Kinds /\ in.rel \in Paths
  /\ in.kind = "move" <=> in.to # NoPath
  /\ in.kind = "create" <=> in.before = Absent
  /\ in.kind = "delete" <=> in.after = Absent

Intents ==
  {in \in [kind : Kinds, rel : Paths, to : Paths \cup {NoPath},
           before : Versions, after : Versions] : WellFormed(in)}

\* an intent, with what became of it: status is the last journal line of its id,
\* governed says its governance line is written, effected that the vault holds or
\* held what it stands for
Line(kind, rel, to, before, after, status) ==
  [kind |-> kind, rel |-> rel, to |-> to, before |-> before, after |-> after,
   status |-> status, governed |-> FALSE, effected |-> FALSE]

Lines ==
  [kind : Kinds \cup {"none"}, rel : Paths \cup {NoPath}, to : Paths \cup {NoPath},
   before : Versions, after : Versions,
   status : {"none", "intent", "applied", "skipped"},
   governed : BOOLEAN, effected : BOOLEAN]

NoIntent == Line("none", NoPath, NoPath, Absent, Absent, "none")

\* (mutant) the line forgets where a move goes
JournaledWithoutTo(in) == Line(in.kind, in.rel, NoPath, in.before, in.after, "intent")

Journaled(in) == Line(in.kind, in.rel, in.to, in.before, in.after, "intent")

Init ==
  /\ \E number \in [Notes -> 1..Cardinality(Notes)] :
       /\ \A p, q \in Notes : number[p] = number[q] => p = q
       /\ file = [p \in Paths |-> IF p \in Notes THEN number[p] ELSE Absent]
  /\ issued = Cardinality(Notes)
  /\ pc = "off" /\ resuming = FALSE /\ plan = <<>>
  /\ runOpen = FALSE /\ cur = NoIntent
  /\ clobbered = {} /\ racy = {}
  /\ budget = [plans |-> MaxPlans, crashes |-> MaxCrashes, hands |-> MaxHands]

Spend(what) == budget[what] > 0 /\ budget' = [budget EXCEPT ![what] = @ - 1]

-----------------------------------------------------------------------------
(* The run: resume first, then the jobs, each planned when the one before  *)
(* it is applied.                                                          *)

\* (mutant) a start that closes the crashed run without reading its intents
StartForgetsPending ==
  /\ pc = "off"
  /\ resuming' = runOpen
  /\ runOpen' = TRUE
  /\ pc' = IF runOpen THEN "finish" ELSE "jobs"
  /\ cur' = IF runOpen THEN cur ELSE NoIntent
  /\ UNCHANGED <<vault, plan, racy, clobbered, budget>>

\* a start finds an unfinished run in the journal, or writes a run-start
Start ==
  /\ pc = "off"
  /\ resuming' = runOpen
  /\ runOpen' = TRUE
  /\ pc' = IF ~runOpen THEN "jobs"
           ELSE IF cur.status = "intent" THEN "resolve" ELSE "finish"
  /\ cur' = IF runOpen THEN cur ELSE NoIntent
  /\ UNCHANGED <<vault, plan, racy, clobbered, budget>>

\* what a job may plan against the note at p now; the new content is version v
Plannable(p, v) ==
  LET here == file[p]
      at(kind, to, after) == [kind |-> kind, rel |-> p, to |-> to,
                              before |-> here, after |-> after]
  IN IF here = Absent THEN {at("create", NoPath, v)}
     ELSE {at("edit", NoPath, v), at("delete", NoPath, Absent)}
          \cup {at("move", q, w) : q \in {r \in Paths : file[r] = Absent}, w \in {here, v}}

\* n intents, each on a note of its own and with a content of its own
Choices(n) == UNION {Plannable(p, issued + i) : p \in Paths, i \in 1..n}

Plans(n) ==
  {s \in [1..n -> Choices(n)] :
     /\ \A i \in 1..n : s[i].after \in {issued + i, s[i].before, Absent}
     /\ \A i, j \in 1..n : i # j => s[i].rel # s[j].rel}

PlanJob ==
  /\ pc = "jobs"
  /\ Spend("plans")
  /\ \E n \in 1..MaxBatch :
       /\ issued + n <= MaxVersions
       /\ plan' \in Plans(n)
       /\ issued' = issued + n
  /\ pc' = "commit"
  /\ UNCHANGED <<file, resuming, runOpen, cur, racy, clobbered>>

\* (mutant) a resumed run gets no run-done line
FinishOwnRun ==
  /\ pc \in {"jobs", "finish"}
  /\ runOpen' = (pc = "finish")
  /\ pc' = "off" /\ resuming' = FALSE
  /\ UNCHANGED <<vault, plan, cur, racy, clobbered, budget>>

\* the run-done line, of a run or of the one that was resumed
Finish ==
  /\ pc \in {"jobs", "finish"}
  /\ runOpen' = FALSE
  /\ pc' = "off" /\ resuming' = FALSE
  /\ UNCHANGED <<vault, plan, cur, racy, clobbered, budget>>

-----------------------------------------------------------------------------
(* Commit and Resolve.                                                     *)

\* the intent line (every one is taken to owe a governance line), fsynced before anything else happens
JournalIntent ==
  /\ pc = "commit"
  /\ IF plan = <<>>
       THEN pc' = "jobs" /\ UNCHANGED <<plan, cur>>
       ELSE /\ cur' = Journaled(Head(plan))
            /\ plan' = Tail(plan)
            /\ pc' = "check"
  /\ UNCHANGED <<vault, resuming, runOpen, racy, clobbered, budget>>

\* (mutant) the check is left to the plan
CheckedAlways(in) ==
  CASE in.kind = "delete" -> "remove" [] in.kind = "move" -> "rename" [] OTHER -> "write"

\* Commit: what the intent's target must look like for the write to be made
Checked(in) ==
  CASE in.kind = "delete" -> IF file[in.rel] = in.before THEN "remove" ELSE "skip"
    [] in.kind = "create" -> IF file[in.rel] = Absent THEN "write" ELSE "skip"
    [] in.kind = "edit"   -> IF file[in.rel] = in.before THEN "write" ELSE "skip"
    [] in.kind = "move"   -> IF file[in.rel] = in.before /\ file[in.to] = Absent
                               THEN "rename" ELSE "skip"

\* Resolve: the same, idempotently, for an intent found in the journal
Resolved(in) ==
  LET src == file[in.rel]
      dst == file[in.to]
  IN CASE in.kind = "delete" -> (CASE src = Absent -> "govern"
                                   [] src = in.before -> "remove"
                                   [] OTHER -> "skip")
       [] in.kind = "create" -> (CASE src = in.after -> "govern"
                                   [] src = Absent -> "write"
                                   [] OTHER -> "skip")
       [] in.kind = "edit"   -> (CASE src = in.after -> "govern"
                                   [] src = in.before -> "write"
                                   [] OTHER -> "skip")
       [] in.kind = "move"   -> (CASE src = Absent /\ dst = in.after -> "govern"
                                   [] src = Absent /\ dst = in.before -> "rewrite"
                                   [] src = in.before /\ dst = Absent -> "rename"
                                   [] src = in.before /\ dst = in.after -> "unlink"
                                   [] OTHER -> "skip")

Check ==
  /\ pc \in {"check", "resolve"}
  /\ pc' = IF pc = "check" THEN Checked(cur) ELSE Resolved(cur)
  /\ UNCHANGED <<vault, resuming, plan, runOpen, cur, racy, clobbered, budget>>

\* the pass destroys the version at p; versions of the intent itself are its own
Destroy(p) ==
  clobbered' = clobbered \cup ({file[p]} \ {Absent, cur.before, cur.after})

\* a write of the pass: the vault becomes newFile, what was at `victim` is gone
Mutate(newFile, victim, to, done) ==
  /\ file' = newFile
  /\ Destroy(victim)
  /\ pc' = to
  /\ cur' = [cur EXCEPT !.effected = done]
  /\ UNCHANGED <<issued, resuming, plan, runOpen, racy, budget>>

\* writeAtomic, for an edit or a creation
Write ==
  /\ pc = "write"
  /\ Mutate([file EXCEPT ![cur.rel] = cur.after], cur.rel, "govern", TRUE)

\* a call that fails makes Run return: the process is gone, the run still open
ReturnError ==
  /\ \/ pc \in {"remove", "unlink"} /\ file[cur.rel] = Absent
     \/ pc = "verify" /\ file[cur.to] = Absent
  /\ pc' = "off" /\ plan' = <<>>
  /\ UNCHANGED <<vault, resuming, runOpen, cur, racy, clobbered, budget>>

\* os.Remove, of a deletion or of the source of a copied move
Remove ==
  /\ pc \in {"remove", "unlink"} /\ file[cur.rel] # Absent
  /\ Mutate([file EXCEPT ![cur.rel] = Absent], cur.rel, "govern", TRUE)

\* moveNote: the rename takes whatever is at the source now; a pure move is then
\* complete, and another still has to be rewritten
Rename ==
  /\ pc = "rename" /\ file[cur.rel] # Absent
  /\ Mutate([file EXCEPT ![cur.to] = file[cur.rel], ![cur.rel] = Absent],
            cur.to,
            IF cur.after = cur.before THEN "govern" ELSE "verify",
            cur.effected \/ cur.after = cur.before)

\* the source vanished, or the filesystem refuses: the move is skipped
RenameRefused ==
  /\ pc = "rename"
  /\ pc' = "skip"
  /\ UNCHANGED <<vault, resuming, plan, runOpen, cur, racy, clobbered, budget>>

\* across devices the move is a copy, and then a removal of the source
RenameAcrossDevices ==
  /\ pc = "rename" /\ file[cur.rel] # Absent
  /\ Mutate([file EXCEPT ![cur.to] = cur.after], cur.to, "unlink", TRUE)

\* the renamed note is read again: unchanged it is rewritten, changed it goes back
VerifyRename ==
  /\ pc = "verify" /\ file[cur.to] # Absent
  /\ IF file[cur.to] = cur.before
       THEN /\ pc' = "rewrite"
            /\ UNCHANGED <<vault, resuming, plan, runOpen, cur, racy, clobbered, budget>>
       ELSE Mutate([file EXCEPT ![cur.rel] = file[cur.to], ![cur.to] = Absent],
                   cur.rel, "skip", cur.effected)

Rewrite ==
  /\ pc = "rewrite"
  /\ Mutate([file EXCEPT ![cur.to] = cur.after], cur.to, "govern", TRUE)

\* (mutant) the applied line goes first
GovernAfterwards == cur' = [cur EXCEPT !.status = "applied"]

\* the governance line the mutation owes
GovernLine == cur' = [cur EXCEPT !.governed = TRUE]

Govern ==
  /\ pc = "govern"
  /\ GovernLine
  /\ pc' = "settle"
  /\ UNCHANGED <<vault, resuming, plan, runOpen, racy, clobbered, budget>>

\* the applied or the skipped line; then the next intent, or the end of a resume
Settle ==
  /\ pc \in {"settle", "skip"}
  /\ cur' = [cur EXCEPT !.status = IF pc = "skip" THEN "skipped" ELSE "applied"]
  /\ pc' = IF resuming THEN "finish" ELSE "commit"
  /\ UNCHANGED <<vault, resuming, plan, runOpen, racy, clobbered, budget>>

\* a kill at any point; a torn journal line is dropped and healed, so it is as
\* if it had not been appended
Crash ==
  /\ pc # "off"
  /\ Spend("crashes")
  /\ pc' = "off" /\ plan' = <<>>
  /\ UNCHANGED <<vault, resuming, runOpen, cur, racy, clobbered>>

-----------------------------------------------------------------------------
(* Everyone else.                                                          *)

\* between the pass's check and the end of its write
Window == pc \in {"write", "remove", "rename", "verify", "rewrite", "unlink"}

Arrives(v) == racy' = IF Window THEN racy \cup {v} ELSE racy

others == <<pc, resuming, plan, runOpen, cur, clobbered>>

\* a note, new or old, is saved: by the operator's editor, which takes no lock, or
\* by a Python writer, whose lock is another one (VaultLockDir has no caller)
Edit(p) ==
  /\ issued < MaxVersions
  /\ issued' = issued + 1
  /\ file' = [file EXCEPT ![p] = issued + 1]
  /\ Arrives(issued + 1)
  /\ UNCHANGED <<others, budget>>

HandMove(p, q) ==
  /\ file[p] # Absent /\ file[q] = Absent
  /\ Spend("hands")
  /\ file' = [file EXCEPT ![q] = file[p], ![p] = Absent]
  /\ Arrives(file[p])
  /\ UNCHANGED <<issued, others>>

HandDelete(p) ==
  /\ file[p] # Absent
  /\ Spend("hands")
  /\ file' = [file EXCEPT ![p] = Absent]
  /\ UNCHANGED <<issued, others, racy>>

Pass ==
  \/ Start \/ PlanJob \/ Finish \/ JournalIntent \/ Check
  \/ Write \/ ReturnError \/ Remove \/ Rename \/ RenameRefused \/ RenameAcrossDevices
  \/ VerifyRename \/ Rewrite \/ Govern \/ Settle

Next ==
  \/ Pass
  \/ Crash
  \/ \E p \in Paths : Edit(p) \/ HandDelete(p)
  \/ \E p, q \in Paths : HandMove(p, q)

Spec == Init /\ [][Next]_vars

\* the trigger starts a pass again and again, and a running pass goes on
FairSpec == Spec /\ WF_vars(Pass)

-----------------------------------------------------------------------------
PCs == {"off", "jobs", "commit", "check", "resolve", "write", "remove", "rename",
        "verify", "rewrite", "unlink", "govern", "settle", "skip", "finish"}

\* The vault, the journal and the pass have the types the code gives them.
TypeOK ==
  /\ file \in [Paths -> Versions] /\ issued \in Versions
  /\ pc \in PCs /\ resuming \in BOOLEAN
  /\ plan \in Seq(Intents) /\ runOpen \in BOOLEAN
  /\ cur \in Lines /\ (cur.status # "none" => WellFormed(cur))

\* journal.go:213-215 and :18-24, a changed target is "skipped, never forced": what
\* the pass destroys is what its intent names, unless it was put there between
\* the check and the write of that very intent.  Edits made while a job waits
\* for its turn, or while the pass is dead, always survive.
ClobbersOnlyInTheWindow == clobbered \subseteq racy

\* journal.go:18-24: a run is never closed over an intent that was neither applied
\* nor skipped, since only unfinished runs are ever looked at again.
NoIntentLeftBehind == ~runOpen => cur.status # "intent"

\* journal.go:350-356, "An applied record therefore implies everything it stands
\* for is on disk": the governance line is there, and the vault was changed (or
\* needed no change, its deletion or pure move having been made by hand).
AppliedImpliesRecorded ==
  cur.status = "applied" =>
    /\ cur.governed
    /\ cur.effected \/ cur.kind = "delete" \/ cur.before = cur.after

\* run.go:513-517, "both layers keep one record ... so a crash anywhere leaves a
\* state Resolve can finish": a mutation that was made and is settled has its
\* governance line.
MadeImpliesGoverned ==
  cur.status \in {"applied", "skipped"} /\ cur.effected => cur.governed

\* journal.go:18-24: a run that was started is finished, by itself or by a later
\* start, whatever crashes and whatever the operator does meanwhile.
EveryRunEnds == runOpen ~> ~runOpen
=============================================================================
