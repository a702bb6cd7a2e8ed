------------------------------- MODULE DreamRuns -------------------------------
(***************************************************************************)
(* The runs that share the dreaming journal (daemon/internal/dreaming:     *)
(* run.go, gate.go, state.go, and the commands that drive the same         *)
(* journal by hand).  A start takes the singleton lock, settles what a     *)
(* crashed run left pending, asks the gate, and brackets its own intents   *)
(* between a run-start and a run-done line.  DreamJournal has what a       *)
(* single intent goes through; here an intent is its line and the line     *)
(* that settles it, applied or skipped: nothing here tells them apart.     *)
(*                                                                         *)
(* The lock is taken as exclusive (DirLock says when it is): one start at  *)
(* a time, each line of the journal and each save of the state one step,   *)
(* and a kill or an error return between any two.  Lines are grouped by    *)
(* run, which loses no order that Unfinished looks at.                     *)
(***************************************************************************)
EXTENDS Integers, Sequences, FiniteSets

CONSTANTS Commands,    \* which of the drivers are used
          Every,       \* the gate's minimum interval between passes
          MaxTime,     \* BOUND: the clock
          MaxRuns,     \* BOUND: run-start lines
          MaxIntents,  \* BOUND: intents of a run
          MaxStops     \* BOUND: kills and error returns

\* "pass" is Run; "manifest" stands for ApplyManifest, MoveTasks and ApplyIntents,
\* which drive the journal alike; "build" for BuildEntities and Ideas
ASSUME DreamRunsAssumption ==
  /\ Commands \subseteq {"pass", "manifest", "build"}
  /\ {Every, MaxTime, MaxRuns, MaxIntents, MaxStops} \subseteq Nat
  /\ Every > 0 /\ MaxTime > 0

Never == 0   \* the zero time: LastDone of a vault no pass has changed

VARIABLES now, activeAt,  \* the clock, and the last capture or recall
          runs,           \* the journal, by run in the order of the run-start lines
          lastDone,       \* state.json's LastDone
          op,             \* the start in progress
          stops,          \* kills and error returns so far
          passEnd,        \* history: when the last pass began that ended or resumed,
                          \* Never again once a stop kept it from saving its state
          built           \* history: the runs that a build started

env == <<now, activeAt>>
disk == <<runs, lastDone>>
history == <<passEnd, built>>
vars == <<env, disk, op, stops, history>>

NoOp == [pc |-> "idle", command |-> "pass", apply |-> FALSE, force |-> FALSE, at |-> Never]

Init ==
  /\ now = 1 /\ activeAt = Never
  /\ runs = <<>> /\ lastDone = Never
  /\ op = NoOp /\ stops = 0 /\ passEnd = Never /\ built = {}

-----------------------------------------------------------------------------
(* The journal, written and read back.                                     *)

Latest == Len(runs)

StartLine(mode) == runs' = Append(runs, [mode |-> mode, done |-> FALSE, intents |-> <<>>])
DoneLine(run) == runs' = [runs EXCEPT ![run].done = TRUE]
IntentLine(run) == runs' = [runs EXCEPT ![run].intents = Append(@, "pending")]
SettleLine(run, id) == runs' = [runs EXCEPT ![run].intents[id] = "settled"]

\* Unfinished: the last run that started, unless it is done
Unfinished == IF Latest > 0 /\ ~runs[Latest].done THEN {Latest} ELSE {}

\* its intents with no applied or skipped line
Pending(run) ==
  {id \in 1..Len(runs[run].intents) : runs[run].intents[id] # "settled"}

\* the gate: long enough since the last applying pass, and something happened since
Due(at) ==
  /\ activeAt > lastDone
  /\ lastDone # Never => at - lastDone >= Every

-----------------------------------------------------------------------------
Goto(pc) == op' = [op EXCEPT !.pc = pc]

IsPass == op.command = "pass"

\* a driver is started, and takes the lock.  A build without -apply and a manifest
\* that is only checked write nothing, so neither is a step here
BeginAt(pc, command, apply, force) ==
  /\ op.pc = "idle" /\ command \in Commands
  /\ op' = [pc |-> pc, command |-> command, apply |-> apply, force |-> force, at |-> now]
  /\ UNCHANGED <<env, disk, stops, history>>

\* (mutant) the pass does not look for a crashed run
BeginPassAfresh(apply, force) == BeginAt("start", "pass", apply, force)

\* the pass resumes a crashed run first, even when it will only report
BeginPass(apply, force) == BeginAt("resume", "pass", apply, force)

\* so do the manifests
BeginManifest == BeginAt("resume", "manifest", TRUE, FALSE)

\* the builds do not, and write their run-start over a crashed run
BeginBuild == Latest < MaxRuns /\ BeginAt("start", "build", TRUE, FALSE)

\* Resolve, for each pending intent of the crashed run
ResolveOne ==
  /\ op.pc = "resume"
  /\ \E run \in Unfinished : \E id \in Pending(run) : SettleLine(run, id)
  /\ UNCHANGED <<env, lastDone, op, stops, history>>

\* the pass is over, as far as the journal tells
PassEnds == passEnd' = IF IsPass /\ op.apply THEN op.at ELSE passEnd

\* (mutant) the crashed run is closed whatever it left pending
CloseResumedEarly ==
  /\ op.pc = "resume"
  /\ \/ \E run \in Unfinished :
          /\ DoneLine(run)
          /\ Goto(IF IsPass THEN "save-resumed" ELSE "gate")
          /\ passEnd' = IF IsPass THEN op.at ELSE passEnd
     \/ Unfinished = {} /\ Goto("gate") /\ UNCHANGED <<runs, passEnd>>
  /\ UNCHANGED <<env, lastDone, stops, built>>

\* the crashed run gets its run-done; a pass then also moves the clock
CloseResumed ==
  /\ op.pc = "resume"
  /\ \/ \E run \in Unfinished :
          /\ Pending(run) = {}
          /\ DoneLine(run)
          /\ Goto(IF IsPass THEN "save-resumed" ELSE "gate")
          /\ passEnd' = IF IsPass THEN op.at ELSE passEnd
     \/ Unfinished = {} /\ Goto("gate") /\ UNCHANGED <<runs, passEnd>>
  /\ UNCHANGED <<env, lastDone, stops, built>>

SaveResumed ==
  /\ op.pc = "save-resumed"
  /\ lastDone' = op.at
  /\ Goto("gate")
  /\ UNCHANGED <<env, runs, stops, history>>

\* (mutant) a gate that forgets the interval
DecideOnActivity ==
  /\ op.pc = "gate" /\ IsPass
  /\ IF op.force \/ activeAt > lastDone THEN Goto("start") ELSE op' = NoOp
  /\ UNCHANGED <<env, disk, stops, history>>

\* a pass that is not due ends here
Decide ==
  /\ op.pc = "gate" /\ IsPass
  /\ IF op.force \/ Due(op.at) THEN Goto("start") ELSE op' = NoOp
  /\ UNCHANGED <<env, disk, stops, history>>

\* a manifest is checked against the vault, and refused or begun
CheckManifest ==
  /\ op.pc = "gate" /\ ~IsPass
  /\ Goto("start") \/ op' = NoOp
  /\ UNCHANGED <<env, disk, stops, history>>

StartRun ==
  /\ op.pc = "start" /\ Latest < MaxRuns
  /\ StartLine(IF op.apply THEN "apply" ELSE "report")
  /\ built' = IF op.command = "build" THEN built \cup {Latest + 1} ELSE built
  /\ Goto("jobs")
  /\ UNCHANGED <<env, lastDone, stops, passEnd>>

\* (mutant) a report that writes
JournalIntentAlways ==
  /\ op.pc = "jobs" /\ Len(runs[Latest].intents) < MaxIntents
  /\ IntentLine(Latest)
  /\ Goto("settle")
  /\ UNCHANGED <<env, lastDone, stops, history>>

\* applyAll, of an applying run: the intent line, then the line that settles it
JournalIntent ==
  /\ op.pc = "jobs" /\ op.apply /\ Len(runs[Latest].intents) < MaxIntents
  /\ IntentLine(Latest)
  /\ Goto("settle")
  /\ UNCHANGED <<env, lastDone, stops, history>>

SettleIntent ==
  /\ op.pc = "settle"
  /\ SettleLine(Latest, Len(runs[Latest].intents))
  /\ Goto("jobs")
  /\ UNCHANGED <<env, lastDone, stops, history>>

EndRun ==
  /\ op.pc = "jobs"
  /\ DoneLine(Latest)
  /\ op' = IF IsPass THEN [op EXCEPT !.pc = "save"] ELSE NoOp
  /\ PassEnds
  /\ UNCHANGED <<env, lastDone, stops, built>>

\* only a pass that changed the vault moves the clock
SaveState ==
  /\ op.pc = "save"
  /\ lastDone' = IF op.apply THEN op.at ELSE lastDone
  /\ op' = NoOp
  /\ UNCHANGED <<env, runs, stops, history>>

\* a kill, or a call that fails and makes the driver return: the same on disk
Stop ==
  /\ op.pc # "idle" /\ stops < MaxStops
  /\ op' = NoOp /\ stops' = stops + 1
  /\ passEnd' = IF op.pc \in {"save", "save-resumed"} THEN Never ELSE passEnd
  /\ UNCHANGED <<env, disk, built>>

Tick ==
  /\ now < MaxTime
  /\ now' = now + 1
  /\ UNCHANGED <<activeAt, disk, op, stops, history>>

\* a capture lands, or a recall is served
Activity ==
  /\ activeAt' = now /\ activeAt # now
  /\ UNCHANGED <<now, disk, op, stops, history>>

Step ==
  \/ ResolveOne \/ CloseResumed \/ SaveResumed \/ Decide \/ CheckManifest \/ StartRun
  \/ JournalIntent \/ SettleIntent \/ EndRun \/ SaveState

Next ==
  \/ \E apply, force \in BOOLEAN : BeginPass(apply, force)
  \/ BeginManifest \/ BeginBuild
  \/ Step \/ Stop \/ Tick \/ Activity

Spec == Init /\ [][Next]_vars

\* the nightly job starts passes for ever and gets the lock now and then, and a
\* start that is not killed goes on
NightlyPass == BeginPass(TRUE, FALSE)

FairSpec == Spec /\ WF_vars(Step) /\ SF_vars(NightlyPass)

-----------------------------------------------------------------------------
Runs == [mode : {"apply", "report"}, done : BOOLEAN, intents : Seq({"pending", "settled"})]

\* The state and the lines have their types, and a report has no intents.
TypeOK ==
  /\ now \in 1..MaxTime /\ {activeAt, lastDone, passEnd} \subseteq 0..MaxTime
  /\ runs \in Seq(Runs)
  /\ \A run \in 1..Latest : runs[run].mode = "report" => runs[run].intents = <<>>
  /\ op \in [pc : {"idle", "resume", "save-resumed", "gate", "start", "jobs", "settle", "save"},
             command : {"pass", "manifest", "build"}, apply : BOOLEAN, force : BOOLEAN,
             at : 0..MaxTime]
  /\ stops \in 0..MaxStops
  /\ built \subseteq 1..Latest

\* the run-start after this one is a build's, which resumed nothing
Hidden(run) == run + 1 \in built

\* journal.go:18-24, "the next start replays exactly those": an intent that was
\* neither applied nor skipped belongs to the run that the next pass or manifest will
\* resume, or to one whose run-start a build's was written over (entities.go:701,
\* ideas.go:335): nothing else loses one.
NoForgottenIntent ==
  \A run \in 1..Latest : Pending(run) # {} => run \in Unfinished \/ Hidden(run)

\* gate.go:12-17, for the passes that were not forced: a pass that changed the
\* vault, or resumed one that had, holds the next off for a whole interval.
PassesAreSpaced ==
  [][ /\ op.pc = "start" /\ op'.pc = "jobs"
      /\ IsPass /\ ~op.force /\ passEnd # Never
      => op.at - passEnd >= Every ]_vars

\* journal.go:20-24: what a killed start left pending is settled in the end, unless
\* a build hides its run.
EveryIntentIsSettled ==
  \A run \in 1..MaxRuns : \A id \in 1..MaxIntents :
    LET IsPending == run <= Latest /\ id \in Pending(run)
    IN IsPending ~> ~IsPending \/ Hidden(run)
=============================================================================
