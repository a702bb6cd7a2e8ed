---------------------------- MODULE DreamRunsProofs ----------------------------
(* What the runs on the journal guarantee, for any number of runs, intents,*)
(* kills and error returns, and what the directory lock that keeps them    *)
(* apart guarantees.                                                       *)
EXTENDS DreamRuns, DirLock, TLAPS

PCs == {"idle", "resume", "save-resumed", "gate", "start", "jobs", "settle", "save"}

Ops == [pc : PCs, command : {"pass", "manifest", "build"}, apply : BOOLEAN,
        force : BOOLEAN, at : Nat]

Clocked ==
  /\ now \in Nat /\ activeAt \in Nat /\ lastDone \in Nat /\ passEnd \in Nat
  /\ op \in Ops

\* Between a run's end and the next save of the state the clock is behind, and
\* nowhere else; a pass that goes on past the gate is a whole interval after it.
Spaced ==
  /\ op.pc = "save" => IsPass
  /\ op.pc = "save-resumed" => IsPass /\ passEnd = op.at
  /\ op.pc = "save" /\ op.apply => passEnd = op.at
  /\ lastDone >= passEnd \/ op.pc = "save-resumed" \/ (op.pc = "save" /\ op.apply)
  /\ op.pc = "start" /\ IsPass /\ ~op.force /\ passEnd # Never => op.at - passEnd >= Every

-----------------------------------------------------------------------------
LEMMA InitSpaced == Init => Clocked /\ Spaced
BY DEF Init, NoOp, Clocked, Spaced, Ops, PCs, Never, IsPass

LEMMA GotoOps == ASSUME op \in Ops, NEW to \in PCs, Goto(to)
                 PROVE  /\ op' \in Ops /\ op'.pc = to /\ op'.command = op.command
                        /\ op'.apply = op.apply /\ op'.force = op.force /\ op'.at = op.at
BY DEF Goto, Ops

LEMMA NoOpOps == NoOp \in Ops /\ NoOp.pc = "idle"
BY DEF NoOp, Ops, PCs, Never

LEMMA StepSpaced == Clocked /\ Spaced /\ [Next]_vars => Clocked' /\ Spaced'
<1> SUFFICES ASSUME Clocked, Spaced, [Next]_vars PROVE Clocked' /\ Spaced'
  OBVIOUS
<1> USE DEF env, disk, history
<1>0. /\ now \in Nat /\ activeAt \in Nat /\ lastDone \in Nat /\ passEnd \in Nat
      /\ op \in Ops /\ op.at \in Nat /\ op.pc \in PCs /\ Every \in Nat
  BY DreamRunsAssumption DEF Clocked, Ops
<1>g. \A to \in PCs : Goto(to) =>
         /\ op' \in Ops /\ op'.pc = to /\ op'.command = op.command
         /\ op'.apply = op.apply /\ op'.force = op.force /\ op'.at = op.at
  BY <1>0, GotoOps
<1>1. ASSUME NEW command \in Commands, NEW apply \in BOOLEAN, NEW force \in BOOLEAN,
             NEW to \in {"resume", "start"}, command # "build" => to = "resume",
             BeginAt(to, command, apply, force)
      PROVE  Clocked' /\ Spaced'
  <2>1. op' \in Ops /\ op'.command = command /\ op'.pc = to
    BY <1>0, <1>1, DreamRunsAssumption DEF BeginAt, Ops, PCs
  <2> QED
    BY <1>0, <1>1, <2>1 DEF BeginAt, Clocked, Spaced, IsPass
<1>b. CASE (\E apply, force \in BOOLEAN : BeginPass(apply, force)) \/ BeginManifest \/ BeginBuild
  BY <1>1, <1>b DEF BeginPass, BeginManifest, BeginBuild, BeginAt
<1>2. CASE ResolveOne
  BY <1>0, <1>2 DEF ResolveOne, Clocked, Spaced, IsPass
<1>3. CASE CloseResumed
  BY <1>0, <1>3, <1>g DEF CloseResumed, Clocked, Spaced, IsPass, PCs
<1>4. CASE SaveResumed
  BY <1>0, <1>4, <1>g DEF SaveResumed, Clocked, Spaced, IsPass, PCs
<1>5. CASE Decide
  BY <1>0, <1>5, <1>g, NoOpOps DEF Decide, Due, Clocked, Spaced, IsPass, PCs, Never
<1>c. CASE CheckManifest
  BY <1>0, <1>c, <1>g, NoOpOps DEF CheckManifest, Clocked, Spaced, IsPass, PCs
<1>6. CASE StartRun
  BY <1>0, <1>6, <1>g DEF StartRun, Clocked, Spaced, IsPass, PCs
<1>7. CASE JournalIntent
  BY <1>0, <1>7, <1>g DEF JournalIntent, Clocked, Spaced, IsPass, PCs
<1>8. CASE SettleIntent
  BY <1>0, <1>8, <1>g DEF SettleIntent, Clocked, Spaced, IsPass, PCs
<1>9. CASE EndRun
  <2>1. CASE IsPass
    <3>1. Goto("save")
      BY <1>9, <2>1 DEF EndRun, Goto
    <3> QED
      BY <1>0, <1>9, <2>1, <3>1, <1>g DEF EndRun, PassEnds, Clocked, Spaced, IsPass, PCs
  <2>2. CASE ~IsPass
    BY <1>0, <1>9, <2>2, NoOpOps DEF EndRun, PassEnds, Clocked, Spaced, IsPass
  <2> QED
    BY <2>1, <2>2
<1>10. CASE SaveState
  BY <1>0, <1>10, NoOpOps DEF SaveState, Clocked, Spaced, IsPass
<1>11. CASE Stop
  BY <1>0, <1>11, NoOpOps DEF Stop, Clocked, Spaced, IsPass, Never
<1>12. CASE Tick
  BY <1>0, <1>12 DEF Tick, Clocked, Spaced, IsPass
<1>13. CASE Activity
  BY <1>0, <1>13 DEF Activity, Clocked, Spaced, IsPass
<1>14. CASE UNCHANGED vars
  BY <1>0, <1>14 DEF vars, Clocked, Spaced, IsPass
<1> QED
  BY <1>b, <1>c, <1>2, <1>3, <1>4, <1>5, <1>6, <1>7, <1>8, <1>9, <1>10, <1>11, <1>12, <1>13, <1>14
     DEF Next, Step

\* run.go:171-195: a pass that was not forced starts its run at least an interval
\* after the last pass that changed the vault, or resumed one that had, whatever
\* was killed in between.
THEOREM PassesAreAnIntervalApart == Spec => PassesAreSpaced
<1>1. Spaced => [ /\ op.pc = "start" /\ op'.pc = "jobs"
                  /\ IsPass /\ ~op.force /\ passEnd # Never
                  => op.at - passEnd >= Every ]_vars
  BY DEF Spaced
<1> QED
  BY <1>1, InitSpaced, StepSpaced, PTL DEF Spec, PassesAreSpaced

-----------------------------------------------------------------------------
Marks == {"pending", "settled"}

\* all that a list of intents holds is settled
Clean(intents) == \A id \in 1..Len(intents) : intents[id] = "settled"

Kept == runs \in Seq(Runs)

\* Only the latest run can have work left, and not once it is done, but for one
\* that a build has hidden.  Past the resume it is done; among the jobs only the
\* intent just journaled is open.
Closed ==
  /\ \A run \in 1..Latest :
       run < Latest \/ runs[run].done => Clean(runs[run].intents) \/ Hidden(run)
  /\ op.pc \in {"save-resumed", "gate"} \/ (op.pc = "start" /\ op.command # "build")
       => (Latest > 0 => runs[Latest].done)
  /\ op.pc \in {"jobs", "settle"} => Latest > 0 /\ ~runs[Latest].done
  /\ op.pc = "jobs" => Clean(runs[Latest].intents)
  /\ op.pc = "settle" =>
       /\ Len(runs[Latest].intents) > 0
       /\ \A id \in 1..(Len(runs[Latest].intents) - 1) :
            runs[Latest].intents[id] = "settled"

LEMMA RunShape == ASSUME runs \in Seq(Runs), NEW run \in 1..Latest
                  PROVE  /\ runs[run] \in Runs /\ runs[run].done \in BOOLEAN
                         /\ runs[run].intents \in Seq(Marks) /\ Latest \in Nat
<1>1. runs[run] \in Runs /\ Latest \in Nat
  BY DEF Latest
<1> QED
  BY <1>1 DEF Runs, Marks

LEMMA PendingIsNotClean ==
  ASSUME NEW run, Pending(run) = {} PROVE Clean(runs[run].intents)
BY DEF Pending, Clean

\* a line changes the run it is about, and the others not
LEMMA Lines ==
  ASSUME runs \in Seq(Runs), NEW run \in 1..Latest, NEW new \in Runs,
         runs' = [runs EXCEPT ![run] = new]
  PROVE  /\ runs' \in Seq(Runs) /\ Latest' = Latest /\ runs'[run] = new
         /\ \A other \in 1..Latest : other # run => runs'[other] = runs[other]
BY DEF Latest

LEMMA DoneLines ==
  ASSUME runs \in Seq(Runs), NEW run \in 1..Latest, DoneLine(run)
  PROVE  /\ runs' \in Seq(Runs) /\ Latest' = Latest
         /\ runs'[run].mode = runs[run].mode
         /\ runs'[run].done /\ runs'[run].intents = runs[run].intents
         /\ \A other \in 1..Latest : other # run => runs'[other] = runs[other]
<1> DEFINE new == [runs[run] EXCEPT !.done = TRUE]
<1>1. runs[run] \in Runs
  BY RunShape
<1>2. new \in Runs /\ new.mode = runs[run].mode /\ new.done /\ new.intents = runs[run].intents
  BY <1>1 DEF Runs
<1>3. runs' = [runs EXCEPT ![run] = new]
  BY DEF DoneLine
<1> HIDE DEF new
<1> QED
  BY <1>2, <1>3, Lines

LEMMA IntentLines ==
  ASSUME runs \in Seq(Runs), NEW run \in 1..Latest, IntentLine(run)
  PROVE  /\ runs' \in Seq(Runs) /\ Latest' = Latest
         /\ runs'[run].mode = runs[run].mode /\ runs'[run].done = runs[run].done
         /\ runs'[run].intents = Append(runs[run].intents, "pending")
         /\ \A other \in 1..Latest : other # run => runs'[other] = runs[other]
<1> DEFINE new == [runs[run] EXCEPT !.intents = Append(@, "pending")]
<1>1. runs[run] \in Runs /\ runs[run].intents \in Seq(Marks)
  BY RunShape
<1>2. Append(runs[run].intents, "pending") \in Seq(Marks)
  BY <1>1 DEF Marks
<1>3. new \in Runs /\ new.mode = runs[run].mode /\ new.done = runs[run].done
      /\ new.intents = Append(runs[run].intents, "pending")
  BY <1>1, <1>2 DEF Runs, Marks
<1>4. runs' = [runs EXCEPT ![run] = new]
  BY DEF IntentLine
<1> HIDE DEF new
<1> QED
  BY <1>3, <1>4, Lines

LEMMA SettleLines ==
  ASSUME runs \in Seq(Runs), NEW run \in 1..Latest,
         NEW id \in 1..Len(runs[run].intents), SettleLine(run, id)
  PROVE  /\ runs' \in Seq(Runs) /\ Latest' = Latest
         /\ runs'[run].mode = runs[run].mode /\ runs'[run].done = runs[run].done
         /\ Len(runs'[run].intents) = Len(runs[run].intents)
         /\ runs'[run].intents[id] = "settled"
         /\ \A i \in 1..Len(runs[run].intents) :
              i # id => runs'[run].intents[i] = runs[run].intents[i]
         /\ \A other \in 1..Latest : other # run => runs'[other] = runs[other]
<1> DEFINE marks == [runs[run].intents EXCEPT ![id] = "settled"]
           new == [runs[run] EXCEPT !.intents = marks]
<1>1. runs[run] \in Runs /\ runs[run].intents \in Seq(Marks)
  BY RunShape
<1>2. /\ marks \in Seq(Marks) /\ Len(marks) = Len(runs[run].intents)
      /\ marks[id] = "settled"
      /\ \A i \in 1..Len(runs[run].intents) : i # id => marks[i] = runs[run].intents[i]
  BY <1>1 DEF Marks
<1>3. runs' = [runs EXCEPT ![run] = new]
  BY DEF SettleLine
<1> HIDE DEF marks
<1>4. /\ new \in Runs /\ new.mode = runs[run].mode /\ new.done = runs[run].done
      /\ new.intents = marks
  BY <1>1, <1>2 DEF Runs, Marks
<1> HIDE DEF new
<1> QED
  BY <1>2, <1>3, <1>4, Lines

-----------------------------------------------------------------------------
\* what the next start resumes is then all there is
LEMMA ClosedForgetsNothing == Kept /\ Closed => NoForgottenIntent
<1> SUFFICES ASSUME Kept, Closed, NEW run \in 1..Latest, Pending(run) # {}
             PROVE  run \in Unfinished \/ Hidden(run)
  BY DEF NoForgottenIntent
<1>1. ~Clean(runs[run].intents) /\ Latest \in Nat
  BY DEF Pending, Clean, Kept, Latest
<1>2. Hidden(run) \/ (run = Latest /\ ~runs[run].done)
  BY <1>1 DEF Closed
<1> QED
  BY <1>1, <1>2 DEF Unfinished

LEMMA InitClosed == Init => Kept /\ Closed
BY DEF Init, Kept, Closed, Latest, NoOp

\* an end of the command leaves the journal as Closed wants it
LEMMA IdleIsClosed ==
  Kept /\ Closed /\ UNCHANGED <<runs, built>> /\ op' = NoOp => Kept' /\ Closed'
BY NoOpOps DEF Kept, Closed, Latest, Hidden

\* only the start of a run hides another
LEMMA HiddenStays ==
  ResolveOne \/ CloseResumed \/ SaveResumed \/ Decide \/ CheckManifest \/ JournalIntent
  \/ SettleIntent \/ EndRun \/ SaveState \/ Stop \/ Tick \/ Activity \/ UNCHANGED vars
    => UNCHANGED built /\ \A run : Hidden(run)' <=> Hidden(run)
BY DEF ResolveOne, CloseResumed, SaveResumed, Decide, CheckManifest, JournalIntent, SettleIntent,
       EndRun, SaveState, Stop, Tick, Activity, vars, history, Hidden

LEMMA StepClosed == Clocked /\ Clocked' /\ Kept /\ Closed /\ [Next]_vars => Kept' /\ Closed'
<1> SUFFICES ASSUME Clocked, Clocked', Kept, Closed, [Next]_vars PROVE Kept' /\ Closed'
  OBVIOUS
<1> USE DEF env, disk, history
<1>0. runs \in Seq(Runs) /\ op \in Ops /\ Latest \in Nat /\ op.pc \in PCs
  BY DEF Kept, Clocked, Latest, Ops
<1>g. \A to \in PCs : Goto(to) => op' \in Ops /\ op'.pc = to
  BY <1>0, GotoOps
<1>1. ASSUME NEW command \in Commands, NEW apply \in BOOLEAN, NEW force \in BOOLEAN,
             NEW to \in {"resume", "start"}, to = "start" => command = "build",
             BeginAt(to, command, apply, force)
      PROVE  Kept' /\ Closed'
  <2>1. op'.command = command /\ op'.pc = to
    BY <1>0, <1>1 DEF BeginAt
  <2> QED
    BY <1>0, <1>1, <2>1 DEF BeginAt, Kept, Closed, Latest, Hidden
<1>b. CASE (\E apply, force \in BOOLEAN : BeginPass(apply, force)) \/ BeginManifest \/ BeginBuild
  BY <1>1, <1>b DEF BeginPass, BeginManifest, BeginBuild, BeginAt
<1>2. CASE ResolveOne
  <2>1. PICK run \in Unfinished :
          \E id \in Pending(run) : SettleLine(run, id)
    BY <1>2 DEF ResolveOne
  <2>2. PICK id \in Pending(run) : SettleLine(run, id)
    BY <2>1
  <2>3. run = Latest /\ run \in 1..Latest /\ ~runs[run].done
        /\ id \in 1..Len(runs[run].intents)
    BY <1>0, <2>2 DEF Unfinished, Pending
  <2>4. /\ runs' \in Seq(Runs) /\ Latest' = Latest
        /\ runs'[run].done = runs[run].done
        /\ \A other \in 1..Latest : other # run => runs'[other] = runs[other]
    BY <1>0, <2>2, <2>3, SettleLines
  <2> QED
    BY <1>0, HiddenStays, <1>2, <2>3, <2>4 DEF ResolveOne, Kept, Closed
<1>3. CASE CloseResumed
  <2>1. CASE Unfinished = {}
    <3>1. Goto("gate") /\ UNCHANGED runs
      BY <1>3, <2>1 DEF CloseResumed
    <3>2. Latest > 0 => runs[Latest].done
      BY <1>0, <2>1 DEF Unfinished
    <3> QED
      BY <1>0, HiddenStays, <1>3, <1>g, <3>1, <3>2 DEF CloseResumed, Kept, Closed, Latest, PCs
  <2>2. CASE Unfinished # {}
    <3>1. PICK run \in Unfinished : Pending(run) = {} /\ DoneLine(run)
      BY <1>3, <2>2 DEF CloseResumed
    <3>2. run = Latest /\ run \in 1..Latest
      BY <1>0, <3>1 DEF Unfinished
    <3>3. Clean(runs[run].intents)
      BY <3>1, PendingIsNotClean
    <3>4. /\ runs' \in Seq(Runs) /\ Latest' = Latest
          /\ runs'[run].done /\ runs'[run].intents = runs[run].intents
          /\ \A other \in 1..Latest : other # run => runs'[other] = runs[other]
      BY <1>0, <3>1, <3>2, DoneLines
    <3>5. \E to \in {"save-resumed", "gate"} : Goto(to)
      BY <1>3 DEF CloseResumed
    <3>6. op' \in Ops /\ op'.pc \in {"save-resumed", "gate"}
      BY <1>3, <1>g, <3>5 DEF CloseResumed, PCs
    <3> QED
      BY <1>0, <1>3, HiddenStays, <3>2, <3>3, <3>4, <3>6 DEF Kept, Closed
  <2> QED
    BY <2>1, <2>2
<1>4. CASE SaveResumed
  BY <1>0, HiddenStays, <1>4, <1>g DEF SaveResumed, Kept, Closed, Latest, PCs
<1>5. CASE Decide \/ CheckManifest
  <2>1. CASE Goto("start")
    BY <1>0, HiddenStays, <1>5, <1>g, <2>1 DEF Decide, CheckManifest, Kept, Closed, Latest, PCs
  <2>2. CASE op' = NoOp
    BY <1>5, <2>2, IdleIsClosed DEF Decide, CheckManifest
  <2> QED
    BY <1>5, <2>1, <2>2 DEF Decide, CheckManifest
<1>6. CASE StartRun
  <2> DEFINE new == [mode |-> IF op.apply THEN "apply" ELSE "report",
                     done |-> FALSE, intents |-> <<>>]
  <2>1. new \in Runs /\ Clean(new.intents)
    BY DEF Runs, Clean
  <2>2. runs' = Append(runs, new)
    BY <1>6 DEF StartRun, StartLine
  <2> HIDE DEF new
  <2>3. /\ runs' \in Seq(Runs) /\ Latest' = Latest + 1 /\ runs'[Latest'] = new
        /\ \A run \in 1..Latest : runs'[run] = runs[run]
    BY <1>0, <2>1, <2>2 DEF Latest
  <2>4. op' \in Ops /\ op'.pc = "jobs"
    BY <1>6, <1>g DEF StartRun, PCs
  <2>5. \A run \in 1..Latest : Clean(runs[run].intents) \/ Hidden(run)'
    <3>1. built \subseteq built' /\ (op.command = "build" => Latest + 1 \in built')
      BY <1>6 DEF StartRun
    <3>2. \A run \in 1..Latest : run < Latest \/ run = Latest
      BY <1>0
    <3> QED
      BY <1>0, <1>6, <3>1, <3>2 DEF StartRun, Closed, Hidden
  <2>6. ASSUME NEW run \in 1..Latest' PROVE Clean(runs'[run].intents) \/ Hidden(run)'
    <3>1. run \in 1..Latest \/ run = Latest'
      BY <1>0, <2>3
    <3> QED
      BY <2>1, <2>3, <2>5, <3>1
  <2>7. Latest' > 0 /\ ~runs'[Latest'].done
    BY <1>0, <2>3 DEF new
  <2>8. Clean(runs'[Latest'].intents)
    BY <2>1, <2>3
  <2> QED
    BY <2>3, <2>4, <2>6, <2>7, <2>8 DEF Kept, Closed
<1>7. CASE JournalIntent
  <2>1. Latest \in 1..Latest /\ Clean(runs[Latest].intents)
    BY <1>0, <1>7 DEF JournalIntent, Closed
  <2>2. /\ runs' \in Seq(Runs) /\ Latest' = Latest
        /\ runs'[Latest].done = runs[Latest].done
        /\ runs'[Latest].intents = Append(runs[Latest].intents, "pending")
        /\ \A other \in 1..Latest : other # Latest => runs'[other] = runs[other]
    BY <1>0, <1>7, <2>1, IntentLines DEF JournalIntent
  <2>3. op' \in Ops /\ op'.pc = "settle"
    BY <1>7, <1>g DEF JournalIntent, PCs
  <2>4. runs[Latest].intents \in Seq(Marks) /\ ~runs[Latest].done
    BY <1>0, <1>7, <2>1, RunShape DEF JournalIntent, Closed
  <2>5. /\ Len(runs'[Latest].intents) > 0
        /\ \A id \in 1..(Len(runs'[Latest].intents) - 1) : runs'[Latest].intents[id] = "settled"
    BY <2>1, <2>2, <2>4 DEF Clean
  <2>6. \A run \in 1..Latest' :
          run < Latest' \/ runs'[run].done => Clean(runs'[run].intents) \/ Hidden(run)'
    BY <1>0, <1>7, HiddenStays, <2>2, <2>4 DEF Closed
  <2> QED
    BY <2>1, <2>2, <2>3, <2>4, <2>5, <2>6 DEF Kept, Closed
<1>8. CASE SettleIntent
  <2> DEFINE last == Len(runs[Latest].intents)
  <2>1. /\ Latest \in 1..Latest /\ ~runs[Latest].done /\ last > 0
        /\ \A id \in 1..(last - 1) : runs[Latest].intents[id] = "settled"
    BY <1>0, <1>8 DEF SettleIntent, Closed
  <2>2. last \in Nat
    BY <1>0, <2>1, RunShape
  <2>3. last \in 1..last /\ SettleLine(Latest, last)
    BY <1>8, <2>1, <2>2 DEF SettleIntent
  <2>4. /\ runs' \in Seq(Runs) /\ Latest' = Latest
        /\ runs'[Latest].done = runs[Latest].done
        /\ Len(runs'[Latest].intents) = last
        /\ runs'[Latest].intents[last] = "settled"
        /\ \A i \in 1..last : i # last => runs'[Latest].intents[i] = runs[Latest].intents[i]
        /\ \A other \in 1..Latest : other # Latest => runs'[other] = runs[other]
    BY <1>0, <2>1, <2>3, SettleLines
  <2>5. op' \in Ops /\ op'.pc = "jobs"
    BY <1>8, <1>g DEF SettleIntent, PCs
  <2> HIDE DEF last
  <2>6. Clean(runs'[Latest].intents)
    BY <2>1, <2>2, <2>4 DEF Clean
  <2> QED
    BY <1>0, <1>8, HiddenStays, <2>1, <2>4, <2>5, <2>6 DEF Kept, Closed
<1>9. CASE EndRun
  <2>1. Latest \in 1..Latest /\ Clean(runs[Latest].intents)
    BY <1>0, <1>9 DEF EndRun, Closed
  <2>2. /\ runs' \in Seq(Runs) /\ Latest' = Latest
        /\ runs'[Latest].done /\ runs'[Latest].intents = runs[Latest].intents
        /\ \A other \in 1..Latest : other # Latest => runs'[other] = runs[other]
    BY <1>0, <1>9, <2>1, DoneLines DEF EndRun
  <2>3. op'.pc = "idle" \/ (op'.pc = "save")
    <3>1. CASE IsPass
      BY <1>9, <1>g, <3>1 DEF EndRun, Goto, PCs
    <3>2. CASE ~IsPass
      BY <1>9, <3>2, NoOpOps DEF EndRun
    <3> QED
      BY <3>1, <3>2
  <2> QED
    BY <1>0, <1>9, HiddenStays, <2>1, <2>2, <2>3 DEF Kept, Closed
<1>10. CASE SaveState
  BY <1>10, IdleIsClosed DEF SaveState
<1>11. CASE Stop
  BY <1>11, IdleIsClosed DEF Stop
<1>12. CASE Tick
  BY <1>0, HiddenStays, <1>12 DEF Tick, Kept, Closed, Latest
<1>13. CASE Activity
  BY <1>0, HiddenStays, <1>13 DEF Activity, Kept, Closed, Latest
<1>14. CASE UNCHANGED vars
  BY <1>0, HiddenStays, <1>14 DEF vars, Kept, Closed, Latest
<1> QED
  BY <1>b, <1>2, <1>3, <1>4, <1>5, <1>6, <1>7, <1>8, <1>9, <1>10, <1>11, <1>12, <1>13, <1>14
     DEF Next, Step

\* journal.go:18-24: whichever drivers are used and whatever is killed or fails, an
\* intent that was neither applied nor skipped is one that the next pass or manifest
\* will resume, or the run-start after its own is a build's, which looked for no
\* crashed run: nothing else loses an intent.
THEOREM NothingIsForgotten == Spec => []NoForgottenIntent
<1>1. Init => Clocked /\ Spaced /\ Kept /\ Closed
  BY InitSpaced, InitClosed
<1>2. Clocked /\ Spaced /\ [Next]_vars => Clocked' /\ Spaced'
  BY StepSpaced
<1>3. Clocked /\ Clocked' /\ Kept /\ Closed /\ [Next]_vars => Kept' /\ Closed'
  BY StepClosed
<1> QED
  BY <1>1, <1>2, <1>3, ClosedForgetsNothing, PTL DEF Spec
-----------------------------------------------------------------------------
(* The types, the builds included.                                         *)

\* the part of TypeOK that is not about the journal
Timed ==
  /\ now \in 1..MaxTime /\ {activeAt, lastDone, passEnd} \subseteq 0..MaxTime
  /\ op \in Ops /\ op.at \in 0..MaxTime
  /\ stops \in 0..MaxStops

\* the part that is
Lined ==
  /\ runs \in Seq(Runs) /\ built \subseteq 1..Latest
  /\ \A run \in 1..Latest : runs[run].mode = "report" => runs[run].intents = <<>>

\* Who journals an intent is applying, and so is its run; who settles one has it.
Applying ==
  /\ op.pc \in {"jobs", "settle"} => Latest > 0 /\ (op.apply => runs[Latest].mode = "apply")
  /\ op.pc = "settle" => op.apply /\ Len(runs[Latest].intents) > 0

LEMMA TypeOKInParts == TypeOK <=> Timed /\ Lined
<1>1. op \in [pc : PCs, command : {"pass", "manifest", "build"}, apply : BOOLEAN,
              force : BOOLEAN, at : 0..MaxTime]
      <=> op \in Ops /\ op.at \in 0..MaxTime
  BY DreamRunsAssumption DEF Ops
<1> QED
  BY <1>1 DEF TypeOK, Timed, Lined, PCs

LEMMA InitTyped == Init => Timed /\ Lined /\ Applying
BY DreamRunsAssumption DEF Init, Timed, Lined, Applying, Ops, PCs, NoOp, Never, Latest, Runs

LEMMA StepTimed == Timed /\ [Next]_vars => Timed'
<1> SUFFICES ASSUME Timed, [Next]_vars PROVE Timed'
  OBVIOUS
<1> USE DreamRunsAssumption DEF env, disk, history, Timed, PCs
<1>g. \A to \in PCs : Goto(to) => op' \in Ops /\ op'.at = op.at
  BY GotoOps
<1>n. NoOp \in Ops /\ NoOp.at = 0
  BY NoOpOps DEF NoOp, Never
<1>1. ASSUME NEW to \in PCs, NEW command \in Commands, NEW apply \in BOOLEAN,
             NEW force \in BOOLEAN, BeginAt(to, command, apply, force)
      PROVE  Timed'
  <2>1. op' \in Ops /\ op'.at = now
    BY <1>1 DEF BeginAt, Ops
  <2> QED
    BY <1>1, <2>1 DEF BeginAt
<1>b. CASE (\E apply, force \in BOOLEAN : BeginPass(apply, force)) \/ BeginManifest \/ BeginBuild
  BY <1>1, <1>b DEF BeginPass, BeginManifest, BeginBuild, BeginAt
<1>2. CASE ResolveOne
  BY <1>2 DEF ResolveOne
<1>3. CASE CloseResumed
  BY <1>3, <1>g DEF CloseResumed
<1>4. CASE SaveResumed
  BY <1>4, <1>g DEF SaveResumed
<1>5. CASE Decide \/ CheckManifest
  BY <1>5, <1>g, <1>n DEF Decide, CheckManifest
<1>6. CASE StartRun
  BY <1>6, <1>g DEF StartRun
<1>7. CASE JournalIntent \/ SettleIntent
  BY <1>7, <1>g DEF JournalIntent, SettleIntent
<1>8. CASE EndRun
  <2>1. Goto("save") \/ op' = NoOp
    BY <1>8 DEF EndRun, Goto
  <2> QED
    BY <1>8, <1>g, <1>n, <2>1 DEF EndRun, PassEnds
<1>9. CASE SaveState
  BY <1>9, <1>n DEF SaveState
<1>10. CASE Stop
  BY <1>10, <1>n DEF Stop, Never
<1>11. CASE Tick
  BY <1>11 DEF Tick
<1>12. CASE Activity
  BY <1>12 DEF Activity
<1>13. CASE UNCHANGED vars
  BY <1>13 DEF vars
<1> QED
  BY <1>b, <1>2, <1>3, <1>4, <1>5, <1>6, <1>7, <1>8, <1>9, <1>10, <1>11, <1>12, <1>13
     DEF Next, Step

LEMMA StepLined == Timed /\ Lined /\ Applying /\ [Next]_vars => Lined' /\ Applying'
<1> SUFFICES ASSUME Timed, Lined, Applying, [Next]_vars PROVE Lined' /\ Applying'
  OBVIOUS
<1> USE DEF env, disk, history
<1>0. runs \in Seq(Runs) /\ op \in Ops /\ Latest \in Nat
  BY DEF Lined, Timed, Latest
<1>g. \A to \in PCs : Goto(to) => op'.pc = to /\ op'.apply = op.apply
  BY <1>0, GotoOps
\* a step that writes no line, and does not reach the jobs
<1>q. ASSUME UNCHANGED <<runs, built>>, op'.pc \notin {"jobs", "settle"} PROVE Lined' /\ Applying'
  BY <1>q DEF Lined, Applying, Latest
\* a line about a run there is, that keeps its mode, and its intents unless it applies
<1>l. ASSUME NEW run \in 1..Latest, runs' \in Seq(Runs), Latest' = Latest, UNCHANGED built,
             runs'[run].mode = runs[run].mode,
             runs'[run].mode = "report" => runs'[run].intents = <<>>,
             \A other \in 1..Latest : other # run => runs'[other] = runs[other]
      PROVE  Lined' /\ \A other \in 1..Latest : runs'[other].mode = runs[other].mode
  BY <1>l DEF Lined
<1>1. CASE \/ (\E apply, force \in BOOLEAN : BeginPass(apply, force)) \/ BeginManifest
           \/ BeginBuild
  BY <1>1, <1>q DEF BeginPass, BeginManifest, BeginBuild, BeginAt
<1>2. CASE ResolveOne
  <2>1. PICK run \in Unfinished :
          \E id \in Pending(run) : SettleLine(run, id)
    BY <1>2 DEF ResolveOne
  <2>2. PICK id \in Pending(run) : SettleLine(run, id)
    BY <2>1
  <2>3. run \in 1..Latest /\ id \in 1..Len(runs[run].intents)
    BY <1>0, <2>2 DEF Unfinished, Pending
  <2>4. runs[run].mode # "report"
    BY <2>3 DEF Lined
  <2>5. Lined'
    BY <1>0, <1>2, <1>l, <2>2, <2>3, <2>4, HiddenStays, SettleLines
  <2>6. op'.pc \notin {"jobs", "settle"}
    BY <1>2 DEF ResolveOne
  <2> QED
    BY <2>5, <2>6 DEF Applying
<1>3. CASE CloseResumed
  <2>1. \E to \in {"save-resumed", "gate"} : Goto(to)
    BY <1>3 DEF CloseResumed
  <2>2. op'.pc \notin {"jobs", "settle"}
    BY <1>g, <2>1 DEF PCs
  <2>3. CASE UNCHANGED runs
    BY <1>3, <1>q, <2>2, <2>3, HiddenStays
  <2>4. CASE \E run \in Unfinished : DoneLine(run)
    <3>1. PICK run \in Unfinished : DoneLine(run)
      BY <2>4
    <3>2. run \in 1..Latest
      BY <1>0 DEF Unfinished
    <3>3. Lined'
      BY <1>0, <1>3, <1>l, <3>1, <3>2, HiddenStays, DoneLines DEF Lined
    <3> QED
      BY <2>2, <3>3 DEF Applying
  <2> QED
    BY <1>3, <2>3, <2>4 DEF CloseResumed
<1>4. CASE SaveResumed
  BY <1>4, <1>g, <1>q DEF SaveResumed, PCs
<1>5. CASE Decide \/ CheckManifest
  BY <1>5, <1>g, <1>q, NoOpOps DEF Decide, CheckManifest, PCs
<1>6. CASE StartRun
  <2> DEFINE new == [mode |-> IF op.apply THEN "apply" ELSE "report",
                     done |-> FALSE, intents |-> <<>>]
  <2>1. new \in Runs /\ new.intents = <<>> /\ (op.apply => new.mode = "apply")
    BY DEF Runs
  <2>2. runs' = Append(runs, new)
    BY <1>6 DEF StartRun, StartLine
  <2> HIDE DEF new
  <2>3. /\ runs' \in Seq(Runs) /\ Latest' = Latest + 1 /\ runs'[Latest'] = new
        /\ \A run \in 1..Latest : runs'[run] = runs[run]
    BY <1>0, <2>1, <2>2 DEF Latest
  <2>4. Lined'
    <3>2. built' \subseteq 1..Latest'
      <4>1. built' \subseteq built \cup {Latest + 1} /\ built \subseteq 1..Latest
        BY <1>6 DEF StartRun, Lined
      <4>2. 1..Latest \subseteq 1..(Latest + 1) /\ Latest + 1 \in 1..(Latest + 1)
        BY <1>0
      <4> QED
        BY <2>3, <4>1, <4>2
    <3> SUFFICES ASSUME NEW run \in 1..Latest', runs'[run].mode = "report"
                 PROVE  runs'[run].intents = <<>>
      BY <2>3, <3>2 DEF Lined
    <3>1. run \in 1..Latest \/ run = Latest'
      BY <1>0, <2>3
    <3> QED
      BY <2>1, <2>3, <3>1 DEF Lined
  <2>5. op'.pc = "jobs" /\ op'.apply = op.apply
    BY <1>6, <1>g DEF StartRun, PCs
  <2> QED
    BY <1>0, <2>1, <2>3, <2>4, <2>5 DEF Applying
<1>7. CASE JournalIntent
  <2>1. Latest \in 1..Latest /\ op.apply /\ runs[Latest].mode = "apply"
    BY <1>0, <1>7 DEF JournalIntent, Applying
  <2>2. /\ runs' \in Seq(Runs) /\ Latest' = Latest
        /\ runs'[Latest].mode = runs[Latest].mode
        /\ runs'[Latest].intents = Append(runs[Latest].intents, "pending")
        /\ \A other \in 1..Latest : other # Latest => runs'[other] = runs[other]
    BY <1>0, <1>7, <2>1, IntentLines DEF JournalIntent
  <2>3. Len(runs'[Latest].intents) > 0
    BY <1>0, <2>1, <2>2, RunShape
  <2>4. op'.pc = "settle" /\ op'.apply
    BY <1>7, <1>g, <2>1 DEF JournalIntent, PCs
  <2>5. Lined'
    BY <1>7, <1>l, <2>1, <2>2, HiddenStays
  <2> QED
    BY <2>1, <2>2, <2>3, <2>4, <2>5 DEF Applying
<1>8. CASE SettleIntent
  <2> DEFINE last == Len(runs[Latest].intents)
  <2>1. Latest \in 1..Latest /\ last > 0 /\ op.apply /\ runs[Latest].mode = "apply"
    BY <1>0, <1>8 DEF SettleIntent, Applying
  <2>2. last \in Nat
    BY <1>0, <2>1, RunShape
  <2>3. last \in 1..last /\ SettleLine(Latest, last)
    BY <1>8, <2>1, <2>2 DEF SettleIntent
  <2>4. /\ runs' \in Seq(Runs) /\ Latest' = Latest
        /\ runs'[Latest].mode = runs[Latest].mode
        /\ \A other \in 1..Latest : other # Latest => runs'[other] = runs[other]
    BY <1>0, <2>1, <2>3, SettleLines
  <2>5. op'.pc = "jobs"
    BY <1>8, <1>g DEF SettleIntent, PCs
  <2>6. Lined'
    BY <1>8, <1>l, <2>1, <2>4, HiddenStays
  <2> QED
    BY <2>1, <2>4, <2>5, <2>6 DEF Applying
<1>9. CASE EndRun
  <2>1. Latest \in 1..Latest
    BY <1>0, <1>9 DEF EndRun, Applying
  <2>2. Goto("save") \/ op' = NoOp
    BY <1>9 DEF EndRun, Goto
  <2>3. op'.pc \notin {"jobs", "settle"}
    BY <1>g, <2>2, NoOpOps DEF PCs
  <2>4. Lined'
    BY <1>0, <1>9, <1>l, <2>1, HiddenStays, DoneLines DEF EndRun, Lined
  <2> QED
    BY <2>3, <2>4 DEF Applying
<1>10. CASE SaveState \/ Stop
  BY <1>10, <1>q, NoOpOps DEF SaveState, Stop
<1>11. CASE Tick \/ Activity \/ UNCHANGED vars
  BY <1>11 DEF Tick, Activity, vars, Lined, Applying, Latest
<1> QED
  BY <1>1, <1>2, <1>3, <1>4, <1>5, <1>6, <1>7, <1>8, <1>9, <1>10, <1>11 DEF Next, Step

\* run.go:21-24, "report-only": whatever drives the journal and whatever is killed,
\* its lines are well formed, and a run that only reports has journaled no intent.
THEOREM ReportsWriteNothing == Spec => []TypeOK
<1> USE DEF Spec
<1>1. Init => Timed /\ Lined /\ Applying
  BY InitTyped
<1>2. Timed /\ Lined /\ Applying /\ [Next]_vars => Timed' /\ Lined' /\ Applying'
  BY StepTimed, StepLined
<1> QED
  BY <1>1, <1>2, TypeOKInParts, PTL

-----------------------------------------------------------------------------
(* The lock the runs take, for any number of processes of each             *)
(* implementation, any stale window no shorter than the heartbeat's, and   *)
(* any number of crashes: DreamRuns takes it as exclusive, and this is     *)
(* when it is.                                                             *)

\* While no takeover overlapped another and no holder stopped holding unawares:
\* a live holder is the one who made the directory, and is on time with its
\* heartbeat; so only the directory of a dead process is ever judged stale or
\* dead, and the one waiter about to remove it removes nobody's lock.
Sound ==
  /\ asleep = {}
  /\ \A p \in Procs :
       /\ pc[p] # "unwind"
       /\ pc[p] = "dead" <=> p \notin alive
       /\ pc[p] \in Holding <=> (dir = p /\ p \in alive)
       /\ pc[p] = "mark" => age = 0 /\ pid = None
       /\ pc[p] = "hold" => p \in beating /\ age <= beat[p] /\ beat[p] <= HeartbeatEvery
       /\ p \in beating => p \in alive
       /\ pc[p] = "remove" => dir \in Procs \ alive
       /\ \A q \in Procs : pc[p] = "remove" /\ pc[q] = "remove" => p = q
  /\ pid \in {None, dir} /\ pid \in {None} \cup GoProcs

LockInv == LockTypeOK /\ (~overlap => Sound)

LEMMA InitLockInv == LockInit => LockInv
<1> SUFFICES ASSUME LockInit PROVE LockInv
  OBVIOUS
<1> USE DirLockAssumption DEF LockInit
<1>1. LockTypeOK
  <2>1. age \in 0..Stale + 1 /\ faults \in 0..MaxFaults /\ beat \in [Procs -> 0..HeartbeatEvery]
    OBVIOUS
  <2>2. pc \in [Procs -> {"idle", "dead"} \cup Waiting \cup Holding]
    OBVIOUS
  <2> QED
    BY <2>1, <2>2 DEF LockTypeOK
<1>2. Sound
  BY DEF Sound, Holding
<1> QED
  BY <1>1, <1>2 DEF LockInv

LEMMA StepTypeOK == LockTypeOK /\ [LockNext]_lockVars => LockTypeOK'
<1> SUFFICES ASSUME LockTypeOK, [LockNext]_lockVars PROVE LockTypeOK'
  OBVIOUS
<1> USE DirLockAssumption DEF LockTypeOK, lock, thread, world, MoveTo, Waiting, Holding
<1>1. CASE TimePasses
  BY <1>1 DEF TimePasses
<1>2. ASSUME NEW p \in Procs, Start(p) PROVE LockTypeOK'
  BY <1>2 DEF Start
<1>3. ASSUME NEW p \in Procs, Mkdir(p) PROVE LockTypeOK'
  BY <1>3 DEF Mkdir, MkdirCall
<1>4. ASSUME NEW p \in Procs, Mark(p) PROVE LockTypeOK'
  BY <1>4 DEF Mark, PidWritten
<1>5. ASSUME NEW p \in Procs, Stat(p) PROVE LockTypeOK'
  BY <1>5 DEF Stat, DecideToRemove
<1>6. ASSUME NEW p \in Procs, ReadPid(p) PROVE LockTypeOK'
  BY <1>6 DEF ReadPid, DecideToRemove
<1>7. ASSUME NEW p \in Procs, Remove(p) PROVE LockTypeOK'
  BY <1>7 DEF Remove, RemoveDir
<1>8. ASSUME NEW p \in Procs, Wait(p) PROVE LockTypeOK'
  BY <1>8 DEF Wait
<1>9. ASSUME NEW p \in Procs, DeadlinePasses(p) PROVE LockTypeOK'
  BY <1>9 DEF DeadlinePasses
<1>10. ASSUME NEW p \in Procs, Heartbeat(p) PROVE LockTypeOK'
  BY <1>10 DEF Heartbeat
<1>11. ASSUME NEW p \in Procs, Release(p) PROVE LockTypeOK'
  BY <1>11 DEF Release, RemoveDir
<1>12. ASSUME NEW p \in Procs, Crash(p) PROVE LockTypeOK'
  BY <1>12 DEF Crash, Fault
<1>13. ASSUME NEW p \in Procs, Pause(p) \/ Resume(p) \/ Interrupt(p) PROVE LockTypeOK'
  <2>1. CASE Pause(p)
    BY <2>1 DEF Pause, Fault
  <2>2. CASE Resume(p)
    BY <2>2 DEF Resume
  <2>3. CASE Interrupt(p)
    BY <2>3 DEF Interrupt, Fault, RemoveDir
  <2> QED
    BY <1>13, <2>1, <2>2, <2>3
<1>14. CASE UNCHANGED lockVars
  BY <1>14 DEF lockVars
<1> QED
  BY <1>1, <1>2, <1>3, <1>4, <1>5, <1>6, <1>7, <1>8, <1>9, <1>10, <1>11, <1>12,
     <1>13, <1>14 DEF LockNext, Acquire

LEMMA StepSound == LockInv /\ [LockNext]_lockVars /\ ~overlap' => Sound'
<1> SUFFICES ASSUME LockInv, [LockNext]_lockVars, ~overlap' PROVE Sound'
  OBVIOUS
<1>a. LockTypeOK /\ LockTypeOK'
  BY StepTypeOK DEF LockInv
<1>b. ~overlap
  BY <1>a DEF LockNext, lockVars, lock, thread, world, TimePasses, Start, Acquire, Mkdir, Mark, Stat, ReadPid,
     DecideToRemove, Remove, Wait, DeadlinePasses, Heartbeat, Release, Crash, Pause,
     Resume, Interrupt, LockTypeOK
<1>c. Sound
  BY <1>b DEF LockInv
<1> USE DirLockAssumption, <1>a, <1>b, <1>c
    DEF LockTypeOK, Sound, lock, thread, world, MoveTo, Waiting, Holding, Running
<1>1. CASE TimePasses
  BY <1>1 DEF TimePasses
<1>2. ASSUME NEW p \in Procs, Start(p) PROVE Sound'
  BY <1>2 DEF Start
<1>3. ASSUME NEW p \in Procs, Mkdir(p) PROVE Sound'
  BY <1>3 DEF Mkdir, MkdirCall
<1>4. ASSUME NEW p \in Procs, Mark(p) PROVE Sound'
  BY <1>4 DEF Mark, PidWritten
<1>5. ASSUME NEW p \in Procs, Stat(p) PROVE Sound'
  BY <1>5 DEF Stat, DecideToRemove, IsStale
<1>6. ASSUME NEW p \in Procs, ReadPid(p) PROVE Sound'
  BY <1>6 DEF ReadPid, DecideToRemove, HolderDead
<1>7. ASSUME NEW p \in Procs, Remove(p) PROVE Sound'
  BY <1>7 DEF Remove, RemoveDir
<1>8. ASSUME NEW p \in Procs, Wait(p) PROVE Sound'
  BY <1>8 DEF Wait
<1>9. ASSUME NEW p \in Procs, DeadlinePasses(p) PROVE Sound'
  BY <1>9 DEF DeadlinePasses
<1>10. ASSUME NEW p \in Procs, Heartbeat(p) PROVE Sound'
  BY <1>10 DEF Heartbeat
<1>11. ASSUME NEW p \in Procs, Release(p) PROVE Sound'
  BY <1>11 DEF Release, RemoveDir
<1>12. ASSUME NEW p \in Procs, Crash(p) PROVE Sound'
  BY <1>12 DEF Crash
<1>13. ASSUME NEW p \in Procs, Pause(p) \/ Resume(p) \/ Interrupt(p) PROVE Sound'
  BY <1>13 DEF Pause, Resume, Interrupt, RemoveDir
<1>14. CASE UNCHANGED lockVars
  BY <1>14 DEF lockVars
<1> QED
  BY <1>1, <1>2, <1>3, <1>4, <1>5, <1>6, <1>7, <1>8, <1>9, <1>10, <1>11, <1>12,
     <1>13, <1>14 DEF LockNext, Acquire

LEMMA SoundIsExclusive == LockInv => ExclusiveUnlessOverlap
  BY DirLockAssumption DEF LockInv, LockTypeOK, Sound, ExclusiveUnlessOverlap, MutualExclusion, Holders, Holding

\* Every step of every process keeps the types of the lock and of the processes,
\* and a directory that is gone has no pid file.
THEOREM LockIsTyped == LockSpec => []LockTypeOK
<1>1. LockInit => LockTypeOK
  BY InitLockInv DEF LockInv
<1> QED
  BY <1>1, StepTypeOK, PTL DEF LockSpec

\* vault_lock.py:321-401, lock.go:89-179: crashed holders alone never let two
\* processes into the critical section; it takes two waiters on one takeover, or
\* a holder that was suspended or interrupted.
THEOREM LockIsExclusive == LockSpec => []ExclusiveUnlessOverlap
<1>1. LockInv /\ [LockNext]_lockVars => LockInv'
  BY StepTypeOK, StepSound DEF LockInv
<1> QED
  BY <1>1, InitLockInv, SoundIsExclusive, PTL DEF LockSpec
=============================================================================
