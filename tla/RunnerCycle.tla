----------------------------- MODULE RunnerCycle -----------------------------
(***************************************************************************)
(* The unattended runner (scripts/runner): one invocation reads the job    *)
(* manifests, runs what is due within the spend limits, moves each job's   *)
(* marker (state.py) and its failure streak (watchdog.py), and exits.  It  *)
(* keeps nothing else: a killed cycle leaves the markers, one of them      *)
(* perhaps torn (_write truncates the file first), and the next invocation *)
(* starts from those.                                                      *)
(*                                                                         *)
(* Time is a counter of ticks, Day of them to a day.  A manifest here is   *)
(* an enabled job that is not a dry run: the others only add to a report.  *)
(* Its cost is what a run of it reports, if anything; 0 without a budget.  *)
(***************************************************************************)
EXTENDS Integers, Sequences, FiniteSets, FiniteSetsExt

CONSTANTS Manifests,    \* the jobs, in the order a cycle takes them
          Cycles,       \* the triggers that may have a cycle running
          Day,
          SpendWindow,  \* 20 hours in the code
          Ceiling,      \* the daily ceiling on what the fleet spends
          StopAt,       \* the failure streak that stops a job, 8 in the code
          MaxTime,      \* BOUND: the clock
          MaxKills      \* BOUND: killed cycles

Jobs == DOMAIN Manifests
Paid(j) == Manifests[j].cost > 0
Never == 0
NoWindow == [from |-> 0, to |-> 0]

ASSUME RunnerCycleAssumption ==
  /\ Manifests \in Seq([interval : Nat, lookback : Nat, cost : Nat,
                        window : [from : 0..Day - 1, to : 0..Day - 1]])
  /\ {Day, SpendWindow, Ceiling, StopAt, MaxTime, MaxKills} \subseteq Nat
  /\ Day > 0 /\ StopAt > 0 /\ "none" \notin Cycles

VARIABLES now,
          marker,    \* <job>.json
          streak,    \* consecutive_failures of <job>.watchdog.json
          cyc,       \* each running cycle
          spend,     \* what the fleet has spent, as each cycle counts it
          kills,
          bill,      \* history: the costs of the runs that were marked done
          ranAt,     \* history: the cycle of the last run that was marked done
          tries,     \* history: starts since the last success, clear or torn record
          lost,      \* history: those of them a kill cut short
          beat,      \* history: whether a cycle began in this tick
          disturbed  \* history: the last tick in which something held a job up

disk == <<marker, streak>>
history == <<bill, ranAt, tries, lost, beat, disturbed>>
cycles == <<cyc, spend>>
vars == <<now, disk, cycles, kills, history>>

NoMarker == [status |-> "none", last |-> Never, cost |-> 0, real |-> Never]
Off == [pc |-> "off", at |-> 1, start |-> Never, ok |-> TRUE, cost |-> 0, slow |-> FALSE]

Init ==
  /\ now = 1
  /\ marker = [j \in Jobs |-> NoMarker]
  /\ streak = [j \in Jobs |-> 0]
  /\ cyc = [c \in Cycles |-> Off] /\ spend = [c \in Cycles |-> 0]
  /\ kills = 0
  /\ bill = {} /\ ranAt = [j \in Jobs |-> Never]
  /\ tries = [j \in Jobs |-> 0] /\ lost = [j \in Jobs |-> 0]
  /\ beat = FALSE /\ disturbed = [j \in Jobs |-> 1]

-----------------------------------------------------------------------------
(* When a job is due.                                                      *)

InWindow(w, t) ==
  \/ w = NoWindow
  \/ w.from < w.to /\ t % Day \in w.from..w.to - 1
  \/ w.from > w.to /\ t % Day \notin w.to..w.from - 1

\* the last opening of the window at or before t, and the first one after t
Opening(w, t) == t - ((t - w.from) % Day)
NextOpening(w, t) == Opening(w, t) + Day

NextDue(j, last) ==
  LET raw == last + Manifests[j].interval
      w == Manifests[j].window
  IN CASE w = NoWindow -> raw
       [] w # NoWindow /\ ~InWindow(w, raw) -> NextOpening(w, raw)
       [] w # NoWindow /\ InWindow(w, raw) ->
            IF Manifests[j].interval < Day THEN raw ELSE Opening(w, raw)

\* never run, an orphaned start, or due and not longer than `lookback` ago
IsDue(j, t) ==
  /\ InWindow(Manifests[j].window, t)
  /\ marker[j].status = "done" =>
       LET due == NextDue(j, marker[j].last)
       IN due <= t /\ t <= due + Manifests[j].lookback

IsMissed(j, t) ==
  /\ InWindow(Manifests[j].window, t)
  /\ marker[j].status = "done"
  /\ t > NextDue(j, marker[j].last) + Manifests[j].lookback

-----------------------------------------------------------------------------
(* What holds a due job back.                                              *)

\* (mutant) a failure more than the ladder has
StoppedLate(j) == streak[j] > StopAt

Stopped(j) == streak[j] >= StopAt

\* (mutant) the window is a whole day, as it was until 2026-09-13
RecordedCostOfADay(j, t) ==
  IF marker[j].status = "done" /\ t - marker[j].last <= Day THEN marker[j].cost ELSE 0

\* the cost on a job's marker, while it counts
RecordedCost(j, t) ==
  IF marker[j].status = "done" /\ t - marker[j].last <= SpendWindow
    THEN marker[j].cost ELSE 0

SpendSoFar(t) == MapThenSumSet(LAMBDA j : RecordedCost(j, t), Jobs)

OverCeiling(c) == spend[c] >= Ceiling

\* (mutant) the fleet's ceiling is the only limit
RepeatsNever(c, j) == FALSE

Repeats(c, j) == RecordedCost(j, cyc[c].start) > 0

-----------------------------------------------------------------------------
(* A cycle.                                                                *)

Job(c) == cyc[c].at
NextJob(c) == cyc' = [cyc EXCEPT ![c].at = @ + 1] /\ UNCHANGED spend

Begin(c) ==
  /\ cyc[c].pc = "off"
  /\ cyc' = [cyc EXCEPT ![c] = [Off EXCEPT !.pc = "consider", !.start = now]]
  /\ spend' = [spend EXCEPT ![c] = SpendSoFar(now)]
  /\ bill' = {e \in bill : now - e.at <= SpendWindow}
  /\ beat' = TRUE
  /\ UNCHANGED <<now, disk, kills, ranAt, tries, lost, disturbed>>

Considers(c, j) == cyc[c].pc = "consider" /\ j \in Jobs /\ j = Job(c)

\* skipped: stopped, not due, or a repeat of a paid run
Skip(c) ==
  \E j \in Jobs :
    /\ Considers(c, j)
    /\ \/ Stopped(j)
       \/ ~IsDue(j, cyc[c].start) /\ ~IsMissed(j, cyc[c].start)
       \/ /\ IsDue(j, cyc[c].start) /\ Paid(j)
          /\ ~OverCeiling(c) /\ Repeats(c, j)
    /\ NextJob(c)
    /\ UNCHANGED <<now, disk, kills, history>>

\* skipped: the fleet has spent too much
SkipOverCeiling(c) ==
  \E j \in Jobs :
    /\ Considers(c, j) /\ ~Stopped(j)
    /\ IsDue(j, cyc[c].start) /\ Paid(j) /\ OverCeiling(c)
    /\ NextJob(c)
    /\ disturbed' = [disturbed EXCEPT ![j] = now]
    /\ UNCHANGED <<now, disk, kills, bill, ranAt, tries, lost, beat>>

\* mark_missed: the clock is anchored again, the last real run is kept
MissedMarker(j, t) ==
  [status |-> "done", last |-> t, cost |-> 0, real |-> marker[j].real]

MayBeMissed(j) == ~Stopped(j)

\* longer than `lookback` ago: not caught up
Miss(c) ==
  \E j \in Jobs :
    /\ Considers(c, j) /\ MayBeMissed(j)
    /\ IsMissed(j, cyc[c].start)
    /\ marker' = [marker EXCEPT ![j] = MissedMarker(j, cyc[c].start)]
    /\ NextJob(c)
    /\ UNCHANGED <<now, streak, kills, history>>

\* nothing holds the job: it will be started
Decide(c) ==
  \E j \in Jobs :
    /\ Considers(c, j) /\ ~Stopped(j)
    /\ IsDue(j, cyc[c].start)
    /\ Paid(j) => ~OverCeiling(c) /\ ~Repeats(c, j)
    /\ cyc' = [cyc EXCEPT ![c].pc = "start"]
    /\ UNCHANGED <<now, disk, spend, kills, history>>

MarkStart(c) ==
  /\ cyc[c].pc = "start"
  /\ marker' = [marker EXCEPT ![Job(c)] = [NoMarker EXCEPT !.status = "start"]]
  /\ cyc' = [cyc EXCEPT ![c].pc = "run", ![c].slow = FALSE]
  /\ tries' = [tries EXCEPT ![Job(c)] = @ + 1]
  /\ UNCHANGED <<now, streak, spend, kills, bill, ranAt, lost, beat, disturbed>>

\* the command returns, and the marker is dated at the start of the cycle
MarkDone(c) ==
  /\ cyc[c].pc = "run"
  /\ \E ok \in BOOLEAN, cost \in {0, Manifests[Job(c)].cost} :
       /\ marker' = [marker EXCEPT ![Job(c)] =
                       [status |-> "done", last |-> cyc[c].start, cost |-> cost,
                        real |-> cyc[c].start]]
       /\ cyc' = [cyc EXCEPT ![c].pc = "record", ![c].ok = ok, ![c].cost = cost]
       /\ bill' = IF cost = 0 THEN bill
                  ELSE bill \cup {[job |-> Job(c), at |-> cyc[c].start, cost |-> cost]}
  /\ ranAt' = [ranAt EXCEPT ![Job(c)] = cyc[c].start]
  /\ UNCHANGED <<now, streak, spend, kills, tries, lost, beat, disturbed>>

\* (mutant) a cycle that does not count what it spends itself
SpendAsAtTheStart(c) == spend[c]

SpendCounted(c) == spend[c] + cyc[c].cost

\* record_outcome, and the spend of this cycle
Record(c) ==
  /\ cyc[c].pc = "record"
  /\ LET j == Job(c)
         ok == cyc[c].ok
     IN /\ streak' = [streak EXCEPT ![j] = IF ok THEN 0 ELSE @ + 1]
        /\ tries' = [tries EXCEPT ![j] = IF ok THEN 0 ELSE @]
        /\ lost' = [lost EXCEPT ![j] = IF ok THEN 0 ELSE @]
  /\ spend' = [spend EXCEPT ![c] = SpendCounted(c)]
  /\ cyc' = [cyc EXCEPT ![c].pc = "consider", ![c].at = @ + 1,
                        ![c].cost = 0, ![c].ok = TRUE]
  /\ UNCHANGED <<now, marker, kills, bill, ranAt, beat, disturbed>>

End(c) ==
  /\ cyc[c].pc = "consider" /\ Job(c) \notin Jobs
  /\ cyc' = [cyc EXCEPT ![c] = Off] /\ spend' = [spend EXCEPT ![c] = 0]
  /\ UNCHANGED <<now, disk, kills, history>>

Cycle(c) ==
  \/ Begin(c) \/ Skip(c) \/ SkipOverCeiling(c) \/ Miss(c) \/ Decide(c)
  \/ MarkStart(c) \/ MarkDone(c) \/ Record(c) \/ End(c)

-----------------------------------------------------------------------------
(* Everything else.                                                        *)

\* A kill at any point.  A file that was being written may be left empty, which
\* reads as a job that never ran, or never failed.
Kill(c) ==
  /\ cyc[c].pc # "off" /\ kills < MaxKills
  /\ kills' = kills + 1 /\ disturbed' = [j \in Jobs |-> now]
  /\ cyc' = [cyc EXCEPT ![c] = Off] /\ spend' = [spend EXCEPT ![c] = 0]
  /\ LET j == Job(c)
         pc == cyc[c].pc
         counted == pc \in {"run", "record"}
     IN \/ /\ lost' = IF counted THEN [lost EXCEPT ![j] = @ + 1] ELSE lost
           /\ UNCHANGED <<disk, tries>>
        \/ /\ \/ pc \in {"start", "run"}
              \/ Considers(c, j) /\ MayBeMissed(j) /\ IsMissed(j, cyc[c].start)
           /\ marker' = [marker EXCEPT ![j] = NoMarker]
           /\ lost' = IF counted THEN [lost EXCEPT ![j] = @ + 1] ELSE lost
           /\ UNCHANGED <<streak, tries>>
        \/ /\ pc = "record"
           /\ streak' = [streak EXCEPT ![j] = 0]
           /\ tries' = [tries EXCEPT ![j] = 0] /\ lost' = [lost EXCEPT ![j] = 0]
           /\ UNCHANGED marker
  /\ UNCHANGED <<now, bill, ranAt, beat>>

\* agentm-runner.sh resume
Clear(j) ==
  /\ streak[j] > 0
  /\ streak' = [streak EXCEPT ![j] = 0]
  /\ tries' = [tries EXCEPT ![j] = 0] /\ lost' = [lost EXCEPT ![j] = 0]
  /\ disturbed' = [disturbed EXCEPT ![j] = now]
  /\ UNCHANGED <<now, marker, cycles, kills, bill, ranAt, beat>>

\* Time passes between cycles and while a command runs, for one tick at most.
\* The trigger misses a beat when the machine is off.
Tick ==
  /\ now < MaxTime
  /\ \A c \in Cycles : cyc[c].pc = "off" \/ (cyc[c].pc = "run" /\ ~cyc[c].slow)
  /\ now' = now + 1
  /\ cyc' = [c \in Cycles |-> [cyc[c] EXCEPT !.slow = (cyc[c].pc = "run")]]
  /\ beat' = FALSE
  /\ disturbed' = IF beat \/ \E c \in Cycles : cyc[c].pc = "run" THEN disturbed
                ELSE [j \in Jobs |-> now]
  /\ UNCHANGED <<disk, spend, kills, bill, ranAt, tries, lost>>

Next ==
  \/ Tick
  \/ \E c \in Cycles : Cycle(c) \/ Kill(c)
  \/ \E j \in Jobs : Clear(j)

Spec == Init /\ [][Next]_vars

-----------------------------------------------------------------------------
\* cycle.py:222-224, "a paid job that has already spent inside the window does
\* not run again inside it": no run that was marked done with a cost is followed
\* by a start of the same job within the window, whatever was missed, orphaned or
\* torn in between.
PaidOncePerWindow ==
  [][ \A c \in Cycles : MarkStart(c) /\ Paid(Job(c)) =>
        \A e \in bill : e.job = Job(c) => cyc[c].start - e.at > SpendWindow ]_vars

\* cycle.py:176-190 and :512-519: a paid job starts only while all that was spent
\* in the window, not only what the markers still show, is under the ceiling.
FleetUnderCeiling ==
  [][ \A c \in Cycles : MarkStart(c) /\ Paid(Job(c)) =>
        MapThenSumSet(LAMBDA e : e.cost,
          {e \in bill : cyc[c].start - e.at <= SpendWindow}) < Ceiling ]_vars

\* watchdog.py:71-76 and cycle.py:497-507: a job that is stopped does not run
\* and is not anchored again, until an operator clears it.
StoppedStaysPut ==
  [][ \A j \in Jobs : Stopped(j) => marker'[j] = marker[j] ]_vars

\* state.py:97-123: however often a job is missed, its marker still tells when it
\* last really ran.
RealRunIsHonest ==
  \A j \in Jobs : marker[j].status = "done" => marker[j].real = ranAt[j]

\* watchdog.py:4-8: a job is not started more often than the ladder allows without
\* a success, but for the starts that a kill cut short.
AttemptsAreBounded == \A j \in Jobs : tries[j] <= StopAt + lost[j]

\* the ticks until a job may run again: its interval and, if it is paid, the window
Wait(j) == Max({Manifests[j].interval, IF Paid(j) THEN SpendWindow + 1 ELSE 1})

\* cycle.py:151-158 and :270-287: as long as the trigger keeps its beat and nothing
\* is killed, stopped or over the ceiling, a job has run again as soon as it may,
\* but for the commands of the cycle that came too early for it and of the one
\* that runs it: a night that begins late does not make the next one later still.
RunsOnTime ==
  \A j \in Jobs : ranAt[j] > disturbed[j] /\ ~Stopped(j) =>
    now - ranAt[j] < Wait(j) + 2 * Len(Manifests)

=============================================================================
