-------------------------- MODULE RunnerCycleProofs --------------------------
(* What is proved of the unattended runner for every set of manifests,     *)
(* every limit and every clock: theorems about one cycle at a time, as the *)
(* runner assumes, except RealRunsAreHonest.                               *)
EXTENDS RunnerCycle, SequenceTheorems, FiniteSetTheorems, TLAPS

\* No two triggers have a cycle running.
OneCycle == \A c, d \in Cycles : c = d

\* A paid job is not late by more than its lookback while its last run is still
\* inside the spend window.
LateIsOutsideWindow ==
  \A j \in Jobs, last, t \in Nat :
    Paid(j) /\ t > NextDue(j, last) + Manifests[j].lookback
      => t - last > SpendWindow

Marker == [status : {"none", "start", "done"}, last : Nat, cost : Nat, real : Nat]
CycleState == [pc : {"off", "consider", "start", "run", "record"}, at : Nat,
               start : Nat, ok : BOOLEAN, cost : Nat, slow : BOOLEAN]

\* The types, without the bounds and without `spend`, which is a sum.
Types ==
  /\ now \in Nat
  /\ marker \in [Jobs -> Marker]
  /\ streak \in [Jobs -> Nat]
  /\ cyc \in [Cycles -> CycleState]
  /\ ranAt \in [Jobs -> Nat]
  /\ tries \in [Jobs -> Nat]
  /\ lost \in [Jobs -> Nat]
  /\ bill \in SUBSET [job : Jobs, at : Nat, cost : Nat]

\* A cycle that is at a job is at one of the manifests.
Busy(c) == cyc[c].pc \in {"start", "run", "record"}
Placed == \A c \in Cycles : Busy(c) => Job(c) \in Jobs

Sorted == Types /\ Placed

-----------------------------------------------------------------------------
(* Types.                                                                  *)

LEMMA ManifestTypes ==
  /\ Jobs \subseteq Nat
  /\ \A j \in Jobs : /\ Manifests[j].cost \in Nat
                     /\ Manifests[j].interval \in Nat
                     /\ Manifests[j].lookback \in Nat
  /\ {Day, SpendWindow, Ceiling, StopAt, MaxTime, MaxKills} \subseteq Nat
  /\ Day > 0 /\ StopAt > 0
<1> DEFINE Manifest == [interval : Nat, lookback : Nat, cost : Nat,
                        window : [from : 0..Day - 1, to : 0..Day - 1]]
<1>1. Manifests \in Seq(Manifest)
  BY RunnerCycleAssumption
<1>2. \A m \in Manifest : m.cost \in Nat /\ m.interval \in Nat /\ m.lookback \in Nat
  OBVIOUS
<1> HIDE DEF Manifest
<1>3. Jobs = 1..Len(Manifests) /\ Len(Manifests) \in Nat
  BY <1>1 DEF Jobs
<1>4. \A j \in Jobs : Manifests[j] \in Manifest
  BY <1>1, <1>3, ElementOfSeq
<1>5. Jobs \subseteq Nat
  BY <1>3
<1>6. {Day, SpendWindow, Ceiling, StopAt, MaxTime, MaxKills} \subseteq Nat
        /\ Day > 0 /\ StopAt > 0
  BY RunnerCycleAssumption
<1> QED  BY <1>2, <1>4, <1>5, <1>6

LEMMA JobsAreNumbered == Jobs = 1..Len(Manifests) /\ Len(Manifests) \in Nat
BY RunnerCycleAssumption DEF Jobs

LEMMA InitSorted == Init => Sorted
<1> SUFFICES ASSUME Init PROVE Sorted
  OBVIOUS
<1>1. NoMarker \in Marker /\ Off \in CycleState
  BY DEF NoMarker, Off, Marker, CycleState, Never
<1>2. Types
  BY <1>1 DEF Init, Types, Never
<1>3. \A c \in Cycles : cyc[c].pc = "off"
  BY DEF Init, Off
<1> QED  BY <1>2, <1>3 DEF Sorted, Placed, Busy

\* What a step does to the cycle at c, in the terms the types need.
LEMMA CycleTyped ==
  ASSUME Sorted, NEW c \in Cycles, NEW n \in CycleState,
         cyc' = [cyc EXCEPT ![c] = n],
         n.pc \in {"start", "run", "record"} => n.at \in Jobs
  PROVE  cyc' \in [Cycles -> CycleState] /\ Placed'
<1>1. cyc' \in [Cycles -> CycleState]
  BY DEF Sorted, Types
<1>2. \A d \in Cycles : d # c => cyc'[d] = cyc[d]
  BY DEF Sorted, Types
<1>3. cyc'[c] = n
  BY DEF Sorted, Types
<1> QED  BY <1>1, <1>2, <1>3 DEF Sorted, Placed, Busy, Job

LEMMA NextSorted == Sorted /\ [Next]_vars => Sorted'
<1> SUFFICES ASSUME Sorted, [Next]_vars PROVE Sorted'
  OBVIOUS
<1> USE DEF Sorted
<1>0. NoMarker \in Marker /\ Off \in CycleState /\ Off.pc = "off"
  BY DEF NoMarker, Off, Marker, CycleState, Never
<1>1. CASE Tick
  <2>1. \A c \in Cycles : [cyc[c] EXCEPT !.slow = (cyc[c].pc = "run")] \in CycleState
    BY DEF Types, CycleState
  <2>2. cyc' \in [Cycles -> CycleState]
    BY <1>1, <2>1 DEF Tick
  <2>3. \A c \in Cycles : cyc'[c].pc = cyc[c].pc /\ cyc'[c].at = cyc[c].at
    BY <1>1 DEF Tick, Types, CycleState
  <2>4. Placed'
    BY <2>3 DEF Placed, Busy, Job
  <2>5. now' \in Nat
    BY <1>1 DEF Tick, Types
  <2> QED  BY <1>1, <2>2, <2>4, <2>5 DEF Tick, Types, disk
<1>2. ASSUME NEW c \in Cycles, Begin(c) PROVE Sorted'
  <2> DEFINE n == [Off EXCEPT !.pc = "consider", !.start = now]
  <2>1. n \in CycleState /\ n.pc = "consider"
    BY DEF Off, CycleState, Never, Types
  <2>2. cyc' = [cyc EXCEPT ![c] = n]
    BY <1>2 DEF Begin
  <2> HIDE DEF n
  <2>3. cyc' \in [Cycles -> CycleState] /\ Placed'
    BY <2>1, <2>2, CycleTyped
  <2>4. bill' \in SUBSET [job : Jobs, at : Nat, cost : Nat]
    BY <1>2 DEF Begin, Types
  <2> QED  BY <1>2, <2>3, <2>4 DEF Begin, Types, disk
<1>3. ASSUME NEW c \in Cycles, NextJob(c), cyc[c].pc = "consider",
             UNCHANGED <<now, streak, history>>, marker' \in [Jobs -> Marker]
      PROVE  Sorted'
  <2> DEFINE n == [cyc[c] EXCEPT !.at = @ + 1]
  <2>1. n \in CycleState /\ n.pc = "consider"
    BY <1>3 DEF CycleState, Types
  <2>2. cyc' = [cyc EXCEPT ![c] = n]
    BY <1>3 DEF NextJob
  <2> HIDE DEF n
  <2>3. cyc' \in [Cycles -> CycleState] /\ Placed'
    BY <2>1, <2>2, CycleTyped
  <2> QED  BY <1>3, <2>3 DEF Types, history
<1>4. ASSUME NEW c \in Cycles, Skip(c) PROVE Sorted'
  BY <1>3, <1>4 DEF Skip, Considers, disk, Types
<1>5. ASSUME NEW c \in Cycles, SkipOverCeiling(c) PROVE Sorted'
  <2> DEFINE n == [cyc[c] EXCEPT !.at = @ + 1]
  <2>1. n \in CycleState /\ n.pc = "consider"
    BY <1>5 DEF CycleState, Types, SkipOverCeiling, Considers
  <2>2. cyc' = [cyc EXCEPT ![c] = n]
    BY <1>5 DEF NextJob, SkipOverCeiling
  <2> HIDE DEF n
  <2>3. cyc' \in [Cycles -> CycleState] /\ Placed'
    BY <2>1, <2>2, CycleTyped
  <2> QED  BY <1>5, <2>3 DEF SkipOverCeiling, Types, disk
<1>6. ASSUME NEW c \in Cycles, Miss(c) PROVE Sorted'
  <2>1. PICK j \in Jobs : Considers(c, j)
                          /\ marker' = [marker EXCEPT ![j] = MissedMarker(j, cyc[c].start)]
    BY <1>6 DEF Miss
  <2>2. MissedMarker(j, cyc[c].start) \in Marker
    BY DEF MissedMarker, Marker, Types, CycleState
  <2>3. marker' \in [Jobs -> Marker]
    BY <2>1, <2>2 DEF Types
  <2> QED  BY <1>3, <1>6, <2>1, <2>3 DEF Miss, Considers
<1>7. ASSUME NEW c \in Cycles, Decide(c) PROVE Sorted'
  <2> DEFINE n == [cyc[c] EXCEPT !.pc = "start"]
  <2>1. n \in CycleState /\ n.at \in Jobs
    BY <1>7 DEF CycleState, Types, Decide, Considers, Job
  <2>2. cyc' = [cyc EXCEPT ![c] = n]
    BY <1>7 DEF Decide
  <2> HIDE DEF n
  <2>3. cyc' \in [Cycles -> CycleState] /\ Placed'
    BY <2>1, <2>2, CycleTyped
  <2> QED  BY <1>7, <2>3 DEF Decide, Types, history, disk
<1>8. ASSUME NEW c \in Cycles, MarkStart(c) PROVE Sorted'
  <2> DEFINE n == [cyc[c] EXCEPT !.pc = "run", !.slow = FALSE]
  <2>1. Job(c) \in Jobs
    BY <1>8 DEF MarkStart, Placed, Busy
  <2>2. n \in CycleState /\ n.at \in Jobs
    BY <2>1 DEF CycleState, Types, Job
  <2>3. cyc' = [cyc EXCEPT ![c] = n]
    BY <1>8 DEF MarkStart
  <2> HIDE DEF n
  <2>4. cyc' \in [Cycles -> CycleState] /\ Placed'
    BY <2>2, <2>3, CycleTyped
  <2>5. [NoMarker EXCEPT !.status = "start"] \in Marker
    BY DEF NoMarker, Marker, Never
  <2>6. marker' \in [Jobs -> Marker] /\ tries' \in [Jobs -> Nat]
    BY <1>8, <2>1, <2>5 DEF MarkStart, Types
  <2> QED  BY <1>8, <2>4, <2>6 DEF MarkStart, Types
<1>9. ASSUME NEW c \in Cycles, MarkDone(c) PROVE Sorted'
  <2>1. Job(c) \in Jobs
    BY <1>9 DEF MarkDone, Placed, Busy
  <2>2. PICK ok \in BOOLEAN, cost \in {0, Manifests[Job(c)].cost} :
          /\ marker' = [marker EXCEPT ![Job(c)] =
                          [status |-> "done", last |-> cyc[c].start, cost |-> cost,
                           real |-> cyc[c].start]]
          /\ cyc' = [cyc EXCEPT ![c].pc = "record", ![c].ok = ok, ![c].cost = cost]
          /\ bill' = IF cost = 0 THEN bill
                     ELSE bill \cup {[job |-> Job(c), at |-> cyc[c].start, cost |-> cost]}
    BY <1>9 DEF MarkDone
  <2> DEFINE n == [cyc[c] EXCEPT !.pc = "record", !.ok = ok, !.cost = cost]
  <2>3. cost \in Nat /\ cyc[c].start \in Nat
    BY <2>1, <2>2, ManifestTypes DEF Types, CycleState
  <2>4. n \in CycleState /\ n.at \in Jobs
    BY <2>1, <2>3 DEF CycleState, Types, Job
  <2>5. cyc' = [cyc EXCEPT ![c] = n]
    BY <2>2
  <2> HIDE DEF n
  <2>6. cyc' \in [Cycles -> CycleState] /\ Placed'
    BY <2>4, <2>5, CycleTyped
  <2>7. [status |-> "done", last |-> cyc[c].start, cost |-> cost,
         real |-> cyc[c].start] \in Marker
    BY <2>3 DEF Marker
  <2>8. marker' \in [Jobs -> Marker]
    BY <2>1, <2>2, <2>7 DEF Types
  <2>9. bill' \in SUBSET [job : Jobs, at : Nat, cost : Nat]
    BY <2>1, <2>2, <2>3 DEF Types
  <2>10. ranAt' \in [Jobs -> Nat]
    BY <1>9, <2>3 DEF MarkDone, Types
  <2> QED  BY <1>9, <2>6, <2>8, <2>9, <2>10 DEF MarkDone, Types
<1>10. ASSUME NEW c \in Cycles, Record(c) PROVE Sorted'
  <2> DEFINE at == cyc[c].at + 1
             n == [cyc[c] EXCEPT !.pc = "consider", !.at = at, !.cost = 0, !.ok = TRUE]
  <2>0. cyc[c] \in CycleState /\ at \in Nat
    BY DEF CycleState, Types
  <2>2. cyc' = [cyc EXCEPT ![c] = n]
    BY <1>10, Zenon DEF Record
  <2> HIDE DEF at
  <2>9. 0 \in Nat
    OBVIOUS
  <2>1. n \in CycleState /\ n.pc = "consider"
    BY <2>0, <2>9, Zenon DEF CycleState
  <2> HIDE DEF n
  <2>3. cyc' \in [Cycles -> CycleState] /\ Placed'
    BY <2>1, <2>2, CycleTyped
  <2>4. streak' \in [Jobs -> Nat] /\ tries' \in [Jobs -> Nat] /\ lost' \in [Jobs -> Nat]
    <3>1. CASE cyc[c].ok
      BY <1>10, <3>1 DEF Record, Types
    <3>2. CASE ~cyc[c].ok
      <4>1. /\ streak' = [streak EXCEPT ![Job(c)] = @ + 1]
            /\ tries' = [tries EXCEPT ![Job(c)] = @]
            /\ lost' = [lost EXCEPT ![Job(c)] = @]
        BY <1>10, <3>2, Zenon DEF Record
      <4>2. Job(c) \in Jobs
        BY <1>10 DEF Record, Placed, Busy
      <4> QED  BY <4>1, <4>2 DEF Types
    <3> QED  BY <3>1, <3>2
  <2> QED  BY <1>10, <2>3, <2>4 DEF Record, Types
<1>11. ASSUME NEW c \in Cycles, End(c) PROVE Sorted'
  <2>1. cyc' = [cyc EXCEPT ![c] = Off]
    BY <1>11 DEF End
  <2>2. cyc' \in [Cycles -> CycleState] /\ Placed'
    BY <1>0, <2>1, CycleTyped
  <2> QED  BY <1>11, <2>2 DEF End, Types, history, disk
<1>12. ASSUME NEW c \in Cycles, Kill(c) PROVE Sorted'
  <2>1. cyc' = [cyc EXCEPT ![c] = Off]
    BY <1>12 DEF Kill
  <2>2. cyc' \in [Cycles -> CycleState] /\ Placed'
    BY <1>0, <2>1, CycleTyped
  <2>3. lost' \in [Jobs -> Nat]
    BY <1>12 DEF Kill, Types
  <2>4. streak' \in [Jobs -> Nat] /\ tries' \in [Jobs -> Nat]
    BY <1>12 DEF Kill, Types, disk
  <2>5. marker' \in [Jobs -> Marker]
    BY <1>0, <1>12 DEF Kill, Types, disk
  <2> QED  BY <1>12, <2>2, <2>3, <2>4, <2>5 DEF Kill, Types
<1>13. ASSUME NEW j \in Jobs, Clear(j) PROVE Sorted'
  <2>1. Placed'
    BY <1>13 DEF Clear, Placed, Busy, Job, cycles
  <2> QED  BY <1>13, <2>1 DEF Clear, Types, cycles
<1>14. CASE UNCHANGED vars
  BY <1>14 DEF vars, disk, cycles, history, Types, Placed, Busy, Job
<1> QED
  BY <1>1, <1>2, <1>4, <1>5, <1>6, <1>7, <1>8, <1>9, <1>10, <1>11, <1>12, <1>13, <1>14
  DEF Next, Cycle

LEMMA AlwaysSorted == Spec => []Sorted
<1> QED  BY InitSorted, NextSorted, PTL DEF Spec

-----------------------------------------------------------------------------
(* A marker tells when its job last really ran.                            *)

LEMMA InitHonest == Init => RealRunIsHonest
<1> QED  BY DEF Init, RealRunIsHonest, NoMarker

LEMMA NextHonest == Sorted /\ RealRunIsHonest /\ [Next]_vars => RealRunIsHonest'
<1> SUFFICES ASSUME Sorted, RealRunIsHonest, [Next]_vars PROVE RealRunIsHonest'
  OBVIOUS
<1> USE DEF Sorted
<1>1. ASSUME UNCHANGED <<marker, ranAt>> PROVE RealRunIsHonest'
  BY <1>1 DEF RealRunIsHonest
<1>2. CASE Tick
  BY <1>1, <1>2 DEF Tick, disk
<1>3. ASSUME NEW c \in Cycles, Miss(c) PROVE RealRunIsHonest'
  <2>1. PICK j \in Jobs : /\ IsMissed(j, cyc[c].start)
                          /\ marker' = [marker EXCEPT ![j] = MissedMarker(j, cyc[c].start)]
    BY <1>3 DEF Miss
  <2>2. marker[j].status = "done"
    BY <2>1 DEF IsMissed
  <2>3. marker'[j].real = marker[j].real
    BY <2>1 DEF MissedMarker, Types
  <2>4. \A k \in Jobs : k # j => marker'[k] = marker[k]
    BY <2>1 DEF Types
  <2>5. ranAt' = ranAt
    BY <1>3 DEF Miss, history
  <2> QED  BY <2>2, <2>3, <2>4, <2>5 DEF RealRunIsHonest
<1>4. ASSUME NEW c \in Cycles, MarkStart(c) PROVE RealRunIsHonest'
  <2>1. \A k \in Jobs : k # Job(c) => marker'[k] = marker[k]
    BY <1>4 DEF MarkStart, Types
  <2>2. Job(c) \in Jobs => marker'[Job(c)].status = "start"
    BY <1>4 DEF MarkStart, Types, NoMarker
  <2> QED  BY <1>4, <2>1, <2>2 DEF RealRunIsHonest, MarkStart
<1>5. ASSUME NEW c \in Cycles, MarkDone(c) PROVE RealRunIsHonest'
  <2>1. \A k \in Jobs : k # Job(c) => marker'[k] = marker[k] /\ ranAt'[k] = ranAt[k]
    BY <1>5 DEF MarkDone, Types
  <2>2. Job(c) \in Jobs =>
          marker'[Job(c)].real = cyc[c].start /\ ranAt'[Job(c)] = cyc[c].start
    BY <1>5 DEF MarkDone, Types
  <2> QED  BY <2>1, <2>2 DEF RealRunIsHonest
<1>6. ASSUME NEW c \in Cycles, Kill(c) PROVE RealRunIsHonest'
  <2>1. \A k \in Jobs : marker'[k] = marker[k] \/ marker'[k] = NoMarker
    BY <1>6 DEF Kill, Types, disk
  <2>2. ranAt' = ranAt
    BY <1>6 DEF Kill
  <2> QED  BY <2>1, <2>2 DEF RealRunIsHonest, NoMarker
<1>7. ASSUME NEW c \in Cycles, Begin(c) \/ Skip(c) \/ SkipOverCeiling(c) \/ Decide(c)
                               \/ Record(c) \/ End(c)
      PROVE  RealRunIsHonest'
  BY <1>1, <1>7 DEF Begin, Skip, SkipOverCeiling, Decide, Record, End, disk, history
<1>8. ASSUME NEW j \in Jobs, Clear(j) PROVE RealRunIsHonest'
  BY <1>1, <1>8 DEF Clear
<1>9. CASE UNCHANGED vars
  BY <1>1, <1>9 DEF vars, disk, history
<1> QED
  BY <1>2, <1>3, <1>4, <1>5, <1>6, <1>7, <1>8, <1>9 DEF Next, Cycle

\* state.py:97-123: for any number of cycles at once, kills and torn files, a
\* marker that says "done" tells when its job last really ran, however often the
\* job was missed since.
THEOREM RealRunsAreHonest == Spec => []RealRunIsHonest
<1> QED  BY InitHonest, NextHonest, AlwaysSorted, PTL DEF Spec

-----------------------------------------------------------------------------
(* The ladder.                                                             *)

\* A job is decided on below the stop rung, and every start of it but the one that
\* is running was counted as a failure, or cut short.
Ladder ==
  /\ \A c \in Cycles : Busy(c) => streak[Job(c)] < StopAt
  /\ \A j \in Jobs :
       /\ streak[j] <= StopAt
       /\ \/ tries[j] <= streak[j] + lost[j]
          \/ /\ tries[j] <= streak[j] + lost[j] + 1
             /\ \E c \in Cycles : cyc[c].pc \in {"run", "record"} /\ Job(c) = j

LEMMA InitLadder == Init => Ladder
<1> QED  BY ManifestTypes DEF Init, Ladder, Busy, Off

LEMMA NextLadder ==
  ASSUME OneCycle, Sorted, Ladder, [Next]_vars
  PROVE  Ladder'
<1> USE DEF Sorted
<1>0. \A c, d \in Cycles : c = d
  BY DEF OneCycle
<1>1. ASSUME UNCHANGED <<streak, tries, lost>>,
             \A c \in Cycles : /\ Busy(c)' => Busy(c)
                               /\ Busy(c) => Job(c)' = Job(c)
                               /\ cyc[c].pc \in {"run", "record"}
                                    => cyc'[c].pc \in {"run", "record"}
      PROVE  Ladder'
  BY <1>1 DEF Ladder, Busy, Job
<1>2. CASE Tick
  <2>1. \A c \in Cycles : cyc'[c].pc = cyc[c].pc /\ cyc'[c].at = cyc[c].at
    BY <1>2 DEF Tick, Types, CycleState
  <2> QED  BY <1>1, <1>2, <2>1 DEF Tick, Busy, Job, disk
<1>3. ASSUME NEW c \in Cycles, UNCHANGED <<streak, tries, lost>>,
             cyc[c].pc \in {"off", "consider"}, cyc'[c].pc \in {"off", "consider"}
      PROVE  Ladder'
  BY <1>0, <1>1, <1>3 DEF Busy
<1>4. ASSUME NEW c \in Cycles, Begin(c) PROVE Ladder'
  <2>1. cyc'[c].pc = "consider"
    BY <1>4 DEF Begin, Types, Off
  <2> QED  BY <1>3, <1>4, <2>1 DEF Begin, disk
<1>5. ASSUME NEW c \in Cycles, Skip(c) \/ SkipOverCeiling(c) \/ Miss(c) PROVE Ladder'
  <2>1. cyc[c].pc = "consider" /\ NextJob(c) /\ UNCHANGED <<streak, tries, lost>>
    BY <1>5 DEF Skip, SkipOverCeiling, Miss, Considers, disk, history
  <2>2. cyc'[c].pc = "consider"
    BY <2>1 DEF NextJob, Types
  <2> QED  BY <1>3, <2>1, <2>2
<1>6. ASSUME NEW c \in Cycles, End(c) PROVE Ladder'
  <2>1. cyc'[c].pc = "off"
    BY <1>6 DEF End, Types, Off
  <2> QED  BY <1>3, <1>6, <2>1 DEF End, disk, history
<1>7. ASSUME NEW c \in Cycles, Decide(c) PROVE Ladder'
  <2>1. cyc[c].pc = "consider" /\ Job(c) \in Jobs /\ streak[Job(c)] < StopAt
    BY <1>7, ManifestTypes DEF Decide, Considers, Stopped, Types
  <2>2. cyc'[c].pc = "start" /\ cyc'[c].at = cyc[c].at
    BY <1>7 DEF Decide, Types
  <2>3. UNCHANGED <<streak, tries, lost>>
    BY <1>7 DEF Decide, disk, history
  <2>4. \A j \in Jobs : tries[j] <= streak[j] + lost[j]
    BY <1>0, <2>1 DEF Ladder
  <2> QED  BY <1>0, <2>1, <2>2, <2>3, <2>4 DEF Ladder, Busy, Job
<1>8. ASSUME NEW c \in Cycles, MarkStart(c) PROVE Ladder'
  <2>1. Job(c) \in Jobs /\ cyc[c].pc = "start" /\ streak[Job(c)] < StopAt
    BY <1>8 DEF MarkStart, Placed, Busy, Ladder
  <2>2. cyc'[c].pc = "run" /\ cyc'[c].at = cyc[c].at
    BY <1>8 DEF MarkStart, Types
  <2>3. UNCHANGED <<streak, lost>> /\ tries' = [tries EXCEPT ![Job(c)] = @ + 1]
    BY <1>8 DEF MarkStart
  <2>4. \A j \in Jobs : tries[j] <= streak[j] + lost[j]
    BY <1>0, <2>1 DEF Ladder
  <2>5. \A j \in Jobs : j # Job(c) => tries'[j] <= streak'[j] + lost'[j]
    BY <2>3, <2>4 DEF Types
  <2>6. tries'[Job(c)] <= streak'[Job(c)] + lost'[Job(c)] + 1
    BY <2>1, <2>3, <2>4 DEF Types
  <2>7. \A j \in Jobs : streak'[j] <= StopAt
    BY <2>3 DEF Ladder
  <2> QED  BY <1>0, <2>1, <2>2, <2>3, <2>5, <2>6, <2>7 DEF Ladder, Job
<1>9. ASSUME NEW c \in Cycles, MarkDone(c) PROVE Ladder'
  <2>1. cyc[c].pc = "run" /\ cyc'[c].pc = "record" /\ cyc'[c].at = cyc[c].at
    BY <1>9 DEF MarkDone, Types
  <2> QED  BY <1>0, <1>1, <1>9, <2>1 DEF MarkDone, Busy, Job
<1>10. ASSUME NEW c \in Cycles, Record(c) PROVE Ladder'
  <2>1. Job(c) \in Jobs /\ cyc[c].pc = "record" /\ streak[Job(c)] < StopAt
    BY <1>10 DEF Record, Placed, Busy, Ladder
  <2>2. cyc'[c].pc = "consider"
    BY <1>10 DEF Record, Types
  <2>3. \A j \in Jobs : j # Job(c) =>
          tries'[j] = tries[j] /\ lost'[j] = lost[j] /\ streak'[j] = streak[j]
    BY <1>10 DEF Record, Types
  <2>4. \A j \in Jobs : j # Job(c) => tries[j] <= streak[j] + lost[j]
    BY <1>0 DEF Ladder
  <2>5. tries[Job(c)] <= streak[Job(c)] + lost[Job(c)] + 1
    <3>1. tries[Job(c)] \in Nat /\ streak[Job(c)] \in Nat /\ lost[Job(c)] \in Nat
      BY <2>1 DEF Types
    <3>2. \/ tries[Job(c)] <= streak[Job(c)] + lost[Job(c)]
          \/ tries[Job(c)] <= streak[Job(c)] + lost[Job(c)] + 1
      BY <2>1 DEF Ladder
    <3> QED  BY <3>1, <3>2
  <2>6. streak'[Job(c)] <= StopAt
          /\ tries'[Job(c)] <= streak'[Job(c)] + lost'[Job(c)]
    <3>1. CASE cyc[c].ok
      <4>1. streak'[Job(c)] = 0 /\ tries'[Job(c)] = 0 /\ lost'[Job(c)] = 0
        BY <1>10, <2>1, <3>1 DEF Record, Types
      <4> QED  BY <4>1, ManifestTypes
    <3>2. CASE ~cyc[c].ok
      <4>1. /\ streak' = [streak EXCEPT ![Job(c)] = @ + 1]
            /\ tries' = [tries EXCEPT ![Job(c)] = @]
            /\ lost' = [lost EXCEPT ![Job(c)] = @]
        BY <1>10, <3>2, Zenon DEF Record
      <4>2. streak'[Job(c)] = streak[Job(c)] + 1
            /\ tries'[Job(c)] = tries[Job(c)] /\ lost'[Job(c)] = lost[Job(c)]
        BY <2>1, <4>1 DEF Types
      <4>3. tries[Job(c)] \in Nat /\ streak[Job(c)] \in Nat /\ lost[Job(c)] \in Nat
        BY <2>1 DEF Types
      <4> QED  BY <2>1, <2>5, <4>2, <4>3, ManifestTypes
    <3> QED  BY <3>1, <3>2
  <2>7. \A j \in Jobs : streak'[j] <= StopAt /\ tries'[j] <= streak'[j] + lost'[j]
    BY <2>3, <2>4, <2>6 DEF Ladder
  <2> QED  BY <1>0, <2>2, <2>7 DEF Ladder, Busy
<1>11. ASSUME NEW c \in Cycles, Kill(c) PROVE Ladder'
  <2>1. cyc'[c].pc = "off"
    BY <1>11 DEF Kill, Types, Off
  <2>2. \A j \in Jobs : j # Job(c) =>
          tries'[j] = tries[j] /\ lost'[j] = lost[j] /\ streak'[j] = streak[j]
    BY <1>11 DEF Kill, Types, disk
  <2>3. \A j \in Jobs : j # Job(c) => tries[j] <= streak[j] + lost[j]
    BY <1>0 DEF Ladder
  <2>4. Job(c) \in Jobs =>
          streak'[Job(c)] <= StopAt /\ tries'[Job(c)] <= streak'[Job(c)] + lost'[Job(c)]
    <3> SUFFICES ASSUME Job(c) \in Jobs
                 PROVE  streak'[Job(c)] <= StopAt
                        /\ tries'[Job(c)] <= streak'[Job(c)] + lost'[Job(c)]
      OBVIOUS
    <3>1. CASE UNCHANGED <<streak, tries>> /\ cyc[c].pc \in {"run", "record"}
               /\ lost' = [lost EXCEPT ![Job(c)] = @ + 1]
      BY <3>1 DEF Ladder, Types
    <3>2. CASE UNCHANGED <<streak, tries, lost>> /\ cyc[c].pc \notin {"run", "record"}
      <4>1. tries[Job(c)] <= streak[Job(c)] + lost[Job(c)]
        BY <1>0, <3>2 DEF Ladder
      <4> QED  BY <3>2, <4>1 DEF Ladder
    <3>3. CASE /\ streak' = [streak EXCEPT ![Job(c)] = 0]
               /\ tries' = [tries EXCEPT ![Job(c)] = 0]
               /\ lost' = [lost EXCEPT ![Job(c)] = 0]
      BY <3>3, ManifestTypes DEF Types
    <3> QED  BY <1>11, <3>1, <3>2, <3>3 DEF Kill, disk
  <2>5. \A j \in Jobs : streak'[j] <= StopAt /\ tries'[j] <= streak'[j] + lost'[j]
    BY <2>2, <2>3, <2>4 DEF Ladder
  <2> QED  BY <1>0, <2>1, <2>5 DEF Ladder, Busy
<1>12. ASSUME NEW j \in Jobs, Clear(j) PROVE Ladder'
  <2>1. /\ streak' = [streak EXCEPT ![j] = 0]
        /\ tries' = [tries EXCEPT ![j] = 0]
        /\ lost' = [lost EXCEPT ![j] = 0]
        /\ cyc' = cyc
    BY <1>12 DEF Clear, cycles
  <2>2. \A k \in Jobs : k # j =>
          tries'[k] = tries[k] /\ lost'[k] = lost[k] /\ streak'[k] = streak[k]
    BY <2>1 DEF Types
  <2>3. tries'[j] = 0 /\ lost'[j] = 0 /\ streak'[j] = 0
    BY <2>1 DEF Types
  <2>4. \A c \in Cycles : Busy(c)' => streak'[Job(c)'] < StopAt
    BY <2>1, <2>2, <2>3, ManifestTypes DEF Ladder, Busy, Job, Placed
  <2> QED  BY <2>1, <2>2, <2>3, <2>4, ManifestTypes DEF Ladder, Job
<1>13. CASE UNCHANGED vars
  BY <1>1, <1>13 DEF vars, disk, cycles, history, Busy, Job
<1> QED
  BY <1>2, <1>4, <1>5, <1>6, <1>7, <1>8, <1>9, <1>10, <1>11, <1>12, <1>13
  DEF Next, Cycle

LEMMA AlwaysLadder == ASSUME OneCycle PROVE Spec => [](Sorted /\ Ladder)
<1>1. Sorted /\ Ladder /\ [Next]_vars => Ladder'
  BY NextLadder
<1> QED  BY <1>1, InitLadder, AlwaysSorted, PTL DEF Spec

\* watchdog.py:4-8: with one cycle at a time, a job is started at most StopAt
\* times without a success or a clear, but for the starts that kills cut short.
THEOREM LadderBoundsAttempts == ASSUME OneCycle PROVE Spec => []AttemptsAreBounded
<1>1. Sorted /\ Ladder => AttemptsAreBounded
  <2> SUFFICES ASSUME Sorted, Ladder, NEW j \in Jobs PROVE tries[j] <= StopAt + lost[j]
    BY DEF AttemptsAreBounded
  <2>1. CASE tries[j] <= streak[j] + lost[j]
    BY <2>1, ManifestTypes DEF Ladder, Sorted, Types
  <2>2. CASE tries[j] <= streak[j] + lost[j] + 1 /\ streak[j] < StopAt
    BY <2>2, ManifestTypes DEF Sorted, Types
  <2> QED  BY <2>1, <2>2 DEF Ladder, Busy
<1> QED  BY <1>1, AlwaysLadder, PTL

\* watchdog.py:71-76, cycle.py:497-507: with one cycle at a time, no step moves the
\* marker of a stopped job: it is neither run nor anchored again.
THEOREM StoppedStaysStopped == ASSUME OneCycle PROVE Spec => StoppedStaysPut
<1>1. ASSUME Sorted, Ladder, [Next]_vars
      PROVE  [\A j \in Jobs : Stopped(j) => marker'[j] = marker[j]]_vars
  <2> SUFFICES ASSUME NEW j \in Jobs, Stopped(j), Next PROVE marker'[j] = marker[j]
    BY <1>1
  <2> USE <1>1 DEF Sorted
  <2>1. streak[j] >= StopAt
    BY DEF Stopped
  <2>2. \A c \in Cycles : Busy(c) => Job(c) # j
    BY <2>1, ManifestTypes DEF Ladder, Types
  <2>3. ASSUME NEW c \in Cycles, Miss(c) PROVE marker'[j] = marker[j]
    <3>1. PICK k \in Jobs : /\ ~Stopped(k)
                            /\ marker' = [marker EXCEPT ![k] = MissedMarker(k, cyc[c].start)]
      BY <2>3 DEF Miss, MayBeMissed
    <3> QED  BY <3>1 DEF Types
  <2>4. ASSUME NEW c \in Cycles, MarkStart(c) PROVE marker'[j] = marker[j]
    BY <2>2, <2>4 DEF MarkStart, Busy, Types
  <2>5. ASSUME NEW c \in Cycles, MarkDone(c) PROVE marker'[j] = marker[j]
    BY <2>2, <2>5 DEF MarkDone, Busy, Types
  <2>6. ASSUME NEW c \in Cycles, Kill(c) PROVE marker'[j] = marker[j]
    <3>1. CASE marker' = marker
      BY <3>1
    <3>2. CASE cyc[c].pc \in {"start", "run"} /\ marker' = [marker EXCEPT ![Job(c)] = NoMarker]
      BY <2>2, <3>2 DEF Busy, Types
    <3>3. CASE /\ Considers(c, Job(c)) /\ ~Stopped(Job(c))
               /\ marker' = [marker EXCEPT ![Job(c)] = NoMarker]
      BY <3>3 DEF Types
    <3> QED  BY <2>6, <3>1, <3>2, <3>3 DEF Kill, MayBeMissed, disk
  <2>7. ASSUME NEW c \in Cycles, Begin(c) \/ Skip(c) \/ SkipOverCeiling(c) \/ Decide(c)
                                 \/ Record(c) \/ End(c)
        PROVE  marker'[j] = marker[j]
    BY <2>7 DEF Begin, Skip, SkipOverCeiling, Decide, Record, End, disk
  <2>8. CASE Tick
    BY <2>8 DEF Tick, disk
  <2>9. ASSUME NEW k \in Jobs, Clear(k) PROVE marker'[j] = marker[j]
    BY <2>9 DEF Clear
  <2> QED  BY <2>3, <2>4, <2>5, <2>6, <2>7, <2>8, <2>9 DEF Next, Cycle
<1> QED  BY <1>1, AlwaysLadder, PTL DEF Spec, StoppedStaysPut

-----------------------------------------------------------------------------
(* A paid job runs once in a window.                                       *)

\* cycle.py:287-290: without a window, an interval and a lookback that make up the
\* spend window are enough for LateIsOutsideWindow.
LEMMA WindowlessIsLate ==
  ASSUME NEW j \in Jobs, Manifests[j].window = NoWindow,
         Manifests[j].interval + Manifests[j].lookback >= SpendWindow,
         NEW last \in Nat, NEW t \in Nat, t > NextDue(j, last) + Manifests[j].lookback
  PROVE  t - last > SpendWindow
<1>1. NextDue(j, last) = last + Manifests[j].interval
  BY DEF NextDue
<1> QED  BY <1>1, ManifestTypes

\* What is on a bill is on the marker still, or no longer counts for anyone.
Covered(e) ==
  /\ marker[e.job].status = "done"
  /\ marker[e.job].last = e.at
  /\ marker[e.job].cost > 0

Aged(e) ==
  /\ now - e.at > SpendWindow
  /\ \A c \in Cycles : cyc[c].pc # "off" => cyc[c].start - e.at > SpendWindow

Cleared(c) ==
  Paid(Job(c)) => \A e \in bill : e.job = Job(c) => cyc[c].start - e.at > SpendWindow

Accounted ==
  /\ \A c \in Cycles : cyc[c].pc # "off" => cyc[c].start <= now
  /\ \A e \in bill : Paid(e.job) /\ (Covered(e) \/ Aged(e))
  /\ \A c \in Cycles : cyc[c].pc \in {"start", "run"} => Cleared(c)

LEMMA InitAccounted == Init => Accounted
<1> QED  BY DEF Init, Accounted, Off

LEMMA NextAccounted ==
  ASSUME OneCycle, LateIsOutsideWindow, Sorted, Accounted, [Next]_vars
  PROVE  Accounted'
<1> USE DEF Sorted
<1>0. \A c, d \in Cycles : c = d
  BY DEF OneCycle
<1>a. /\ now \in Nat /\ SpendWindow \in Nat
      /\ \A c \in Cycles : cyc[c].start \in Nat
      /\ \A e \in bill : e.job \in Jobs /\ e.at \in Nat /\ e.cost \in Nat
      /\ \A j \in Jobs : marker[j].last \in Nat /\ marker[j].cost \in Nat
  BY ManifestTypes DEF Types, CycleState, Marker
\* a step of a cycle that goes on as it was, or ends, and leaves the markers
<1>1. ASSUME UNCHANGED <<now, marker, bill>>,
             \A c \in Cycles :
               \/ cyc'[c].pc \notin {"start", "run"}
               \/ cyc[c].pc \in {"start", "run"} /\ Job(c)' = Job(c),
             \A c \in Cycles : cyc'[c].pc # "off" =>
               cyc[c].pc # "off" /\ cyc'[c].start = cyc[c].start
      PROVE  Accounted'
  <2>1. \A e \in bill : Paid(e.job) /\ (Covered(e)' \/ Aged(e)')
    BY <1>1 DEF Accounted, Covered, Aged, Paid
  <2>2. \A c \in Cycles : cyc'[c].pc \in {"start", "run"} => Cleared(c)'
    BY <1>1 DEF Accounted, Cleared, Paid
  <2> QED  BY <1>1, <2>1, <2>2 DEF Accounted, Paid
\* a step that writes the marker of a job whose bills are all out of the window
<1>2. ASSUME NEW j \in Jobs, NEW c \in Cycles,
             now' = now, bill' = bill, cyc[c].pc # "off",
             \A k \in Jobs : k # j => marker'[k] = marker[k],
             \A e \in bill : e.job = j => cyc[c].start - e.at > SpendWindow,
             cyc'[c].pc # "off" => cyc'[c].start = cyc[c].start,
             cyc'[c].pc \in {"start", "run"} =>
               cyc[c].pc \in {"start", "run"} /\ Job(c)' = Job(c)
      PROVE  Accounted'
  <2>1. cyc[c].start <= now
    BY <1>2 DEF Accounted
  <2>2. ASSUME NEW e \in bill, e.job = j PROVE Aged(e)'
    <3>1. cyc[c].start - e.at > SpendWindow
      BY <1>2, <2>2
    <3>2. now - e.at > SpendWindow
      BY <1>a, <2>1, <3>1
    <3> QED  BY <1>0, <1>2, <3>1, <3>2 DEF Aged
  <2>3. ASSUME NEW e \in bill, e.job # j PROVE Covered(e)' \/ Aged(e)'
    <3>1. Covered(e) \/ Aged(e)
      BY DEF Accounted
    <3>2. Covered(e) => Covered(e)'
      BY <1>a, <1>2, <2>3 DEF Covered
    <3>3. Aged(e) => Aged(e)'
      BY <1>0, <1>2 DEF Aged
    <3> QED  BY <3>1, <3>2, <3>3
  <2>4. \A e \in bill' : Paid(e.job)' /\ (Covered(e)' \/ Aged(e)')
    BY <1>2, <2>2, <2>3 DEF Accounted, Paid
  <2>5. cyc'[c].pc \in {"start", "run"} => Cleared(c)'
    BY <1>2 DEF Accounted, Cleared, Paid
  <2>6. \A d \in Cycles : cyc'[d].pc # "off" => cyc'[d].start <= now'
    BY <1>0, <1>2, <2>1
  <2>7. \A d \in Cycles : cyc'[d].pc \in {"start", "run"} => Cleared(d)'
    BY <1>0, <2>5
  <2> QED  BY <2>4, <2>6, <2>7 DEF Accounted
<1>3. CASE Tick
  <2>1. \A c \in Cycles : /\ cyc'[c].pc = cyc[c].pc /\ cyc'[c].at = cyc[c].at
                          /\ cyc'[c].start = cyc[c].start
    BY <1>3 DEF Tick, Types, CycleState
  <2>2. now' = now + 1 /\ marker' = marker /\ bill' = bill
    BY <1>3 DEF Tick, disk
  <2>3. \A e \in bill : Paid(e.job) /\ (Covered(e)' \/ Aged(e)')
    BY <1>a, <2>1, <2>2 DEF Accounted, Covered, Aged
  <2>4. \A c \in Cycles : cyc'[c].pc \in {"start", "run"} => Cleared(c)'
    BY <2>1, <2>2 DEF Accounted, Cleared, Job
  <2>5. \A c \in Cycles : cyc'[c].pc # "off" => cyc'[c].start <= now'
    BY <1>a, <2>1, <2>2 DEF Accounted
  <2> QED  BY <2>2, <2>3, <2>4, <2>5 DEF Accounted, Paid
<1>4. ASSUME NEW c \in Cycles, Begin(c) PROVE Accounted'
  <2>1. cyc'[c].pc = "consider" /\ cyc'[c].start = now
    BY <1>4 DEF Begin, Types, Off
  <2>2. now' = now /\ marker' = marker /\ bill' \subseteq bill
    BY <1>4 DEF Begin, disk
  <2>3. \A e \in bill : Paid(e.job) /\ (Covered(e)' \/ Aged(e)')
    BY <1>0, <2>1, <2>2 DEF Accounted, Covered, Aged
  <2>4. \A d \in Cycles : cyc'[d].pc # "off" => cyc'[d].start <= now'
    BY <1>0, <1>a, <2>1, <2>2
  <2>5. \A d \in Cycles : cyc'[d].pc \notin {"start", "run"}
    BY <1>0, <2>1
  <2> QED  BY <2>2, <2>3, <2>4, <2>5 DEF Accounted, Paid
<1>5. ASSUME NEW c \in Cycles, Skip(c) \/ SkipOverCeiling(c) PROVE Accounted'
  <2>1. cyc[c].pc = "consider" /\ NextJob(c) /\ UNCHANGED <<now, marker, bill>>
    BY <1>5 DEF Skip, SkipOverCeiling, Considers, disk, history
  <2>2. cyc'[c].pc = "consider" /\ cyc'[c].start = cyc[c].start
    BY <2>1 DEF NextJob, Types, CycleState
  <2> QED  BY <1>0, <1>1, <2>1, <2>2
<1>6. ASSUME NEW c \in Cycles, Miss(c) PROVE Accounted'
  <2>1. PICK j \in Jobs : /\ cyc[c].pc = "consider" /\ IsMissed(j, cyc[c].start)
                          /\ marker' = [marker EXCEPT ![j] = MissedMarker(j, cyc[c].start)]
                          /\ NextJob(c) /\ now' = now /\ bill' = bill
    BY <1>6 DEF Miss, Considers, history
  <2>2. cyc'[c].pc = "consider" /\ cyc'[c].start = cyc[c].start
    BY <2>1 DEF NextJob, Types, CycleState
  <2>3. Paid(j) => cyc[c].start - marker[j].last > SpendWindow
    BY <1>a, <2>1 DEF IsMissed, LateIsOutsideWindow
  <2>4. \A e \in bill : e.job = j => cyc[c].start - e.at > SpendWindow
    BY <1>a, <2>1, <2>3 DEF Accounted, Covered, Aged
  <2>5. \A k \in Jobs : k # j => marker'[k] = marker[k]
    BY <2>1 DEF Types
  <2> QED  BY <1>2, <2>1, <2>2, <2>4, <2>5
<1>7. ASSUME NEW c \in Cycles, Decide(c) PROVE Accounted'
  <2>1. /\ cyc[c].pc = "consider" /\ Job(c) \in Jobs /\ UNCHANGED <<now, marker, bill>>
        /\ Paid(Job(c)) => ~Repeats(c, Job(c))
    BY <1>7 DEF Decide, Considers, disk, history
  <2>2. /\ cyc'[c].pc = "start" /\ cyc'[c].at = cyc[c].at
        /\ cyc'[c].start = cyc[c].start
    BY <1>7 DEF Decide, Types, CycleState
  <2>3. Cleared(c)
    <3> SUFFICES ASSUME Paid(Job(c)), NEW e \in bill, e.job = Job(c)
                 PROVE  cyc[c].start - e.at > SpendWindow
      BY DEF Cleared
    <3>1. CASE Aged(e)
      BY <2>1, <3>1 DEF Aged
    <3>2. CASE Covered(e)
      <4>1. ~(RecordedCost(Job(c), cyc[c].start) > 0)
        BY <2>1 DEF Repeats
      <4>2. ~(cyc[c].start - e.at <= SpendWindow)
        BY <3>2, <4>1 DEF RecordedCost, Covered
      <4> QED  BY <1>a, <4>2
    <3> QED  BY <3>1, <3>2 DEF Accounted
  <2>4. Cleared(c)'
    BY <2>1, <2>2, <2>3 DEF Cleared, Job
  <2>5. \A e \in bill : Covered(e)' \/ Aged(e)'
    BY <1>0, <2>1, <2>2 DEF Accounted, Covered, Aged
  <2> QED  BY <1>0, <2>1, <2>2, <2>4, <2>5 DEF Accounted, Paid
<1>8. ASSUME NEW c \in Cycles, MarkStart(c) PROVE Accounted'
  <2>1. cyc[c].pc = "start" /\ Job(c) \in Jobs /\ now' = now /\ bill' = bill
    BY <1>8 DEF MarkStart, Placed, Busy
  <2>2. /\ cyc'[c].pc = "run" /\ cyc'[c].at = cyc[c].at
        /\ cyc'[c].start = cyc[c].start
    BY <1>8 DEF MarkStart, Types, CycleState
  <2>3. \A k \in Jobs : k # Job(c) => marker'[k] = marker[k]
    BY <1>8 DEF MarkStart, Types
  <2>4. \A e \in bill : e.job = Job(c) => cyc[c].start - e.at > SpendWindow
    BY <2>1 DEF Accounted, Cleared
  <2> QED  BY <1>2, <2>1, <2>2, <2>3, <2>4 DEF Job
<1>9. ASSUME NEW c \in Cycles, MarkDone(c) PROVE Accounted'
  <2> DEFINE j == Job(c)
  <2>1. cyc[c].pc = "run" /\ j \in Jobs /\ now' = now
    BY <1>9 DEF MarkDone, Placed, Busy
  <2>2. PICK ok \in BOOLEAN, cost \in {0, Manifests[j].cost} :
          /\ marker' = [marker EXCEPT ![j] =
                          [status |-> "done", last |-> cyc[c].start, cost |-> cost,
                           real |-> cyc[c].start]]
          /\ cyc' = [cyc EXCEPT ![c].pc = "record", ![c].ok = ok, ![c].cost = cost]
          /\ bill' = IF cost = 0 THEN bill
                     ELSE bill \cup {[job |-> j, at |-> cyc[c].start, cost |-> cost]}
    BY <1>9 DEF MarkDone
  <2>3. cyc'[c].pc = "record" /\ cyc'[c].start = cyc[c].start
    BY <2>2, Zenon DEF Types, CycleState
  <2>4. \A k \in Jobs : k # j => marker'[k] = marker[k]
    BY <2>2 DEF Types
  <2>5. \A e \in bill : e.job = j => cyc[c].start - e.at > SpendWindow
    BY <2>1 DEF Accounted, Cleared
  <2>6. cyc[c].start <= now
    BY <2>1 DEF Accounted
  <2>7. ASSUME NEW e \in bill PROVE Paid(e.job) /\ (Covered(e)' \/ Aged(e)')
    <3>1. CASE e.job = j
      <4>1. cyc[c].start - e.at > SpendWindow
        BY <2>5, <3>1
      <4>2. now - e.at > SpendWindow
        BY <1>a, <2>6, <4>1
      <4> QED  BY <1>0, <2>1, <2>3, <4>1, <4>2 DEF Aged, Accounted
    <3>2. CASE e.job # j
      <4>1. Covered(e) => Covered(e)'
        BY <1>a, <2>4, <3>2 DEF Covered
      <4>2. Aged(e) => Aged(e)'
        BY <1>0, <2>1, <2>3 DEF Aged
      <4> QED  BY <4>1, <4>2 DEF Accounted
    <3> QED  BY <3>1, <3>2
  <2>8. CASE cost = 0
    <3>1. bill' = bill
      BY <2>2, <2>8
    <3> QED  BY <1>0, <2>1, <2>3, <2>6, <2>7, <3>1 DEF Accounted, Paid
  <2>9. CASE cost # 0
    <3>0. PICK n : n = [job |-> j, at |-> cyc[c].start, cost |-> cost]
      OBVIOUS
    <3>1. bill' = bill \cup {n}
      BY <2>2, <2>9, <3>0
    <3>2. n.job = j /\ n.at = cyc[c].start
      BY <3>0
    <3>3. Paid(j) /\ cost > 0
      BY <2>1, <2>2, <2>9, ManifestTypes DEF Paid
    <3>4. /\ marker'[j].status = "done" /\ marker'[j].last = cyc[c].start
          /\ marker'[j].cost = cost
      BY <2>1, <2>2 DEF Types
    <3>5. Paid(n.job) /\ Covered(n)'
      BY <3>2, <3>3, <3>4 DEF Covered
    <3>6. \A e \in bill' : Paid(e.job) /\ (Covered(e)' \/ Aged(e)')
      BY <2>7, <3>1, <3>5
    <3> QED  BY <1>0, <2>1, <2>3, <2>6, <3>6 DEF Accounted, Paid
  <2> QED  BY <2>8, <2>9
<1>10. ASSUME NEW c \in Cycles, Record(c) PROVE Accounted'
  <2>1. cyc[c].pc = "record" /\ UNCHANGED <<now, marker, bill>>
    BY <1>10 DEF Record
  <2>2. cyc'[c].pc = "consider" /\ cyc'[c].start = cyc[c].start
    BY <1>10, Zenon DEF Record, Types, CycleState
  <2> QED  BY <1>0, <1>1, <2>1, <2>2
<1>11. ASSUME NEW c \in Cycles, End(c) PROVE Accounted'
  <2>1. cyc'[c].pc = "off" /\ UNCHANGED <<now, marker, bill>>
    BY <1>11 DEF End, Types, Off, disk, history
  <2> QED  BY <1>0, <1>1, <2>1
<1>12. ASSUME NEW c \in Cycles, Kill(c) PROVE Accounted'
  <2>1. /\ cyc[c].pc # "off" /\ cyc'[c].pc = "off" /\ now' = now /\ bill' = bill
    BY <1>12 DEF Kill, Types, Off
  <2>2. CASE marker' = marker
    BY <1>0, <1>1, <2>1, <2>2
  <2>3. CASE marker' = [marker EXCEPT ![Job(c)] = NoMarker]
             /\ cyc[c].pc \in {"start", "run"}
    <3>1. Job(c) \in Jobs
      BY <2>3 DEF Placed, Busy
    <3>2. \A k \in Jobs : k # Job(c) => marker'[k] = marker[k]
      BY <2>3 DEF Types
    <3>3. \A e \in bill : e.job = Job(c) => cyc[c].start - e.at > SpendWindow
      BY <2>3 DEF Accounted, Cleared
    <3> QED  BY <1>2, <2>1, <3>1, <3>2, <3>3
  <2>4. CASE /\ marker' = [marker EXCEPT ![Job(c)] = NoMarker]
             /\ Considers(c, Job(c)) /\ IsMissed(Job(c), cyc[c].start)
    <3>1. Job(c) \in Jobs
      BY <2>4 DEF Considers
    <3>2. \A k \in Jobs : k # Job(c) => marker'[k] = marker[k]
      BY <2>4 DEF Types
    <3>3. Paid(Job(c)) => cyc[c].start - marker[Job(c)].last > SpendWindow
      BY <1>a, <2>4, <3>1 DEF IsMissed, LateIsOutsideWindow
    <3>4. \A e \in bill : e.job = Job(c) => cyc[c].start - e.at > SpendWindow
      BY <1>a, <2>1, <3>3 DEF Accounted, Covered, Aged
    <3> QED  BY <1>2, <2>1, <3>1, <3>2, <3>4
  <2> QED  BY <1>12, <2>2, <2>3, <2>4 DEF Kill, disk
<1>13. ASSUME NEW j \in Jobs, Clear(j) PROVE Accounted'
  <2>1. UNCHANGED <<now, marker, bill, cyc>>
    BY <1>13 DEF Clear, cycles
  <2> QED  BY <1>1, <2>1 DEF Job
<1>14. CASE UNCHANGED vars
  <2>1. UNCHANGED <<now, marker, bill, cyc>>
    BY <1>14 DEF vars, disk, cycles, history
  <2> QED  BY <1>1, <2>1 DEF Job
<1> QED
  BY <1>3, <1>4, <1>5, <1>6, <1>7, <1>8, <1>9, <1>10, <1>11, <1>12, <1>13, <1>14
  DEF Next, Cycle

\* cycle.py:222-224: with one cycle at a time, and as long as no paid job's lookback
\* runs out inside the spend window, a paid job that has spent is not started again
\* within the window, whatever is killed, torn or cleared.
THEOREM PaidJobsRunOncePerWindow ==
  ASSUME OneCycle, LateIsOutsideWindow
  PROVE  Spec => PaidOncePerWindow
<1>1. Sorted /\ Accounted /\ [Next]_vars => Accounted'
  BY NextAccounted
<1>2. Accounted =>
        [\A c \in Cycles : MarkStart(c) /\ Paid(Job(c)) =>
           \A e \in bill : e.job = Job(c) => cyc[c].start - e.at > SpendWindow]_vars
  BY DEF Accounted, Cleared, MarkStart
<1> QED  BY <1>1, <1>2, InitAccounted, AlwaysSorted, PTL DEF Spec, PaidOncePerWindow

-----------------------------------------------------------------------------
(* Sums.  A sum of a finite set is the number of its units, a unit of x    *)
(* being x with one of the numbers up to the value of x: so sums are       *)
(* compared by injections and grow with their sets.                        *)

Some(s) == CHOOSE x \in s : TRUE
Units(S, g) == {u \in S \X Nat : u[2] \in 1..g[u[1]]}

\* F tallies the subsets of S as the folds do, one chosen element after the other.
Tallies(F, S, g) ==
  \A s \in SUBSET S : F[s] = IF s = {} THEN 0 ELSE g[Some(s)] + F[s \ {Some(s)}]

\* among the subsets of a finite set there is one that no element can be taken from
LEMMA SmallestSubset ==
  ASSUME NEW S, IsFiniteSet(S), NEW C \in SUBSET (SUBSET S), C # {}
  PROVE  \E s \in C : \A x \in s : s \ {x} \notin C
<1>1. C \subseteq FiniteSubsetsOf(S)
  BY FS_Subset DEF FiniteSubsetsOf
<1>2. PICK s \in C : \A r \in C : ~(<<r, s>> \in StrictSubsetOrdering(S))
  <2>1. IsWellFoundedOn(StrictSubsetOrdering(S), FiniteSubsetsOf(S))
    BY FS_StrictSubsetOrderingWellFounded
  <2> QED  BY <1>1, <2>1, WFMin
<1>3. ASSUME NEW x \in s, s \ {x} \in C PROVE FALSE
  <2>1. s \ {x} \subseteq s /\ s \ {x} # s
    OBVIOUS
  <2>2. <<s \ {x}, s>> \in StrictSubsetOrdering(S)
    BY <1>3, <2>1 DEF StrictSubsetOrdering
  <2> QED  BY <1>2, <1>3, <2>2
<1> QED  BY <1>3

LEMMA UnitsOfOneMore ==
  ASSUME NEW s, NEW g, NEW x \in s, g[x] \in Nat, IsFiniteSet(Units(s \ {x}, g))
  PROVE  /\ IsFiniteSet(Units(s, g))
         /\ Cardinality(Units(s, g)) = g[x] + Cardinality(Units(s \ {x}, g))
<1> DEFINE rest == Units(s \ {x}, g)
           own == {x} \X (1..g[x])
           n == g[x]
<1>1. IsFiniteSet(own) /\ Cardinality(own) = n
  <2>1. IsFiniteSet({x}) /\ Cardinality({x}) = 1
    BY FS_Singleton
  <2>2. IsFiniteSet(1..n) /\ Cardinality(1..n) = n
    <3> HIDE DEF n
    <3>1. n \in Nat
      BY DEF n
    <3> QED  BY <3>1, FS_Interval
  <2>3. IsFiniteSet(own) /\ Cardinality(own) = 1 * n
    BY <2>1, <2>2, FS_Product
  <2> QED  BY <2>3
<1>2. Units(s, g) = rest \cup own
  BY DEF Units
<1>3. rest \cap own = {}
  BY DEF Units
<1>4. Cardinality(rest) \in Nat /\ n \in Nat
  BY FS_CardinalityType
<1>5. IsFiniteSet(rest)
  OBVIOUS
<1> HIDE DEF rest, own, n
<1>6. /\ IsFiniteSet(rest \cup own)
      /\ Cardinality(rest \cup own) = Cardinality(rest) + n - 0
  BY <1>1, <1>3, <1>5, FS_Union, FS_EmptySet
<1>7. Cardinality(rest \cup own) = n + Cardinality(rest)
  BY <1>4, <1>6
<1> QED  BY <1>2, <1>6, <1>7 DEF rest, n

LEMMA NoUnits == ASSUME NEW g PROVE IsFiniteSet(Units({}, g)) /\ Cardinality(Units({}, g)) = 0
<1>1. Units({}, g) = {}
  BY DEF Units
<1> QED  BY <1>1, FS_EmptySet

LEMMA UnitsAreFinite ==
  ASSUME NEW S, IsFiniteSet(S), NEW g, \A x \in S : g[x] \in Nat, NEW s \in SUBSET S
  PROVE  IsFiniteSet(Units(s, g)) /\ Cardinality(Units(s, g)) \in Nat
<1> DEFINE C == {r \in SUBSET S : ~IsFiniteSet(Units(r, g))}
<1>1. C = {}
  <2> SUFFICES ASSUME C # {} PROVE FALSE
    OBVIOUS
  <2>1. PICK r \in C : \A x \in r : r \ {x} \notin C
    BY SmallestSubset
  <2>2. r # {}
    BY NoUnits
  <2>3. PICK x \in r : r \ {x} \notin C
    BY <2>1, <2>2
  <2>4. IsFiniteSet(Units(r \ {x}, g)) /\ g[x] \in Nat
    BY <2>3
  <2>5. IsFiniteSet(Units(r, g))
    BY <2>4, UnitsOfOneMore
  <2> QED  BY <2>5
<1>2. IsFiniteSet(Units(s, g))
  BY <1>1
<1> QED  BY <1>2, FS_CardinalityType

LEMMA UnitsTally ==
  ASSUME NEW S, IsFiniteSet(S), NEW g, \A x \in S : g[x] \in Nat
  PROVE  Tallies([s \in SUBSET S |-> Cardinality(Units(s, g))], S, g)
<1> DEFINE F == [s \in SUBSET S |-> Cardinality(Units(s, g))]
<1> SUFFICES ASSUME NEW s \in SUBSET S
             PROVE  F[s] = IF s = {} THEN 0 ELSE g[Some(s)] + F[s \ {Some(s)}]
  BY DEF Tallies
<1>1. CASE s = {}
  BY <1>1, NoUnits
<1>2. CASE s # {}
  <2>1. Some(s) \in s
    BY <1>2 DEF Some
  <2>2. IsFiniteSet(Units(s \ {Some(s)}, g)) /\ g[Some(s)] \in Nat
    BY <2>1, UnitsAreFinite
  <2>3. Cardinality(Units(s, g)) = g[Some(s)] + Cardinality(Units(s \ {Some(s)}, g))
    BY <2>1, <2>2, UnitsOfOneMore
  <2> QED  BY <1>2, <2>3
<1> QED  BY <1>1, <1>2

LEMMA TallyIsUnits ==
  ASSUME NEW S, IsFiniteSet(S), NEW g, \A x \in S : g[x] \in Nat,
         NEW F, Tallies(F, S, g)
  PROVE  F[S] = Cardinality(Units(S, g))
<1> DEFINE C == {s \in SUBSET S : F[s] # Cardinality(Units(s, g))}
<1>1. C = {}
  <2> SUFFICES ASSUME C # {} PROVE FALSE
    OBVIOUS
  <2>1. PICK s \in C : \A x \in s : s \ {x} \notin C
    BY SmallestSubset
  <2>2. F[s] = IF s = {} THEN 0 ELSE g[Some(s)] + F[s \ {Some(s)}]
    BY DEF Tallies
  <2>3. s # {}
    BY <2>2, NoUnits
  <2>4. Some(s) \in s
    BY <2>3 DEF Some
  <2>5. F[s \ {Some(s)}] = Cardinality(Units(s \ {Some(s)}, g))
    BY <2>1, <2>4
  <2>6. IsFiniteSet(Units(s \ {Some(s)}, g)) /\ g[Some(s)] \in Nat
    BY <2>4, UnitsAreFinite
  <2>7. Cardinality(Units(s, g)) = g[Some(s)] + Cardinality(Units(s \ {Some(s)}, g))
    BY <2>4, <2>6, UnitsOfOneMore
  <2> QED  BY <2>2, <2>3, <2>5, <2>7
<1> QED  BY <1>1

\* the costs of a bill
Spent(B) == MapThenSumSet(LAMBDA e : e.cost, B)
Costs(B) == [e \in B |-> e.cost]

LEMMA SpentIsUnits ==
  ASSUME NEW B, IsFiniteSet(B), \A e \in B : e.cost \in Nat
  PROVE  Spent(B) = Cardinality(Units(B, Costs(B))) /\ Spent(B) \in Nat
<1> DEFINE P(G) == G = [s \in SUBSET B |-> IF s = {} THEN 0
                                           ELSE (Some(s)).cost + G[s \ {Some(s)}]]
           iter == CHOOSE G : P(G)
           F == [s \in SUBSET B |-> Cardinality(Units(s, Costs(B)))]
<1>1. \A s \in SUBSET B : s # {} => Some(s) \in B /\ Costs(B)[Some(s)] = (Some(s)).cost
  BY DEF Some, Costs
<1>2. \A e \in B : Costs(B)[e] \in Nat
  BY DEF Costs
<1>3. P(F)
  <2>1. Tallies(F, B, Costs(B))
    BY <1>2, UnitsTally
  <2>2. \A s \in SUBSET B : F[s] = IF s = {} THEN 0 ELSE (Some(s)).cost + F[s \ {Some(s)}]
    BY <1>1, <2>1 DEF Tallies
  <2>3. F = [s \in SUBSET B |-> F[s]]
    OBVIOUS
  <2> HIDE DEF F
  <2> QED  BY <2>2, <2>3
<1>4. P(iter)
  <2> HIDE DEF P, F
  <2> QED  BY <1>3
<1>5. Spent(B) = iter[B]
  BY Zenon DEF Spent, MapThenSumSet, MapThenFoldSet, Some
<1>6. Tallies(iter, B, Costs(B))
  <2> HIDE DEF iter
  <2> QED  BY <1>1, <1>4 DEF Tallies
<1> HIDE DEF iter, F, P
<1>7. iter[B] = Cardinality(Units(B, Costs(B)))
  BY <1>2, <1>6, TallyIsUnits
<1> QED  BY <1>2, <1>5, <1>7, UnitsAreFinite

LEMMA OneMoreCost ==
  ASSUME NEW B, IsFiniteSet(B), \A e \in B : e.cost \in Nat, NEW n, n.cost \in Nat
  PROVE  Spent(B \cup {n}) <= Spent(B) + n.cost
<1>1. CASE n \in B
  <2>1. B \cup {n} = B
    BY <1>1
  <2>2. Spent(B) <= Spent(B) + n.cost
    <3>1. Spent(B) \in Nat
      BY SpentIsUnits
    <3> QED  BY <3>1
  <2> QED  BY <2>1, <2>2, Zenon
<1>2. CASE n \notin B
  <2> DEFINE all == B \cup {n}
  <2>1. IsFiniteSet(all) /\ \A e \in all : e.cost \in Nat
    BY FS_AddElement
  <2>2. all \ {n} = B /\ n \in all
    BY <1>2
  <2>3. Costs(all)[n] = n.cost
    BY DEF Costs
  <2>4. Units(B, Costs(all)) = Units(B, Costs(B))
    <3>1. \A e \in B : Costs(all)[e] = Costs(B)[e]
      BY DEF Costs
    <3> QED  BY <3>1 DEF Units
  <2>5. IsFiniteSet(Units(B, Costs(B)))
    <3>1. \A e \in B : Costs(B)[e] \in Nat
      BY DEF Costs
    <3> QED  BY <3>1, UnitsAreFinite
  <2>6. Spent(all) = Cardinality(Units(all, Costs(all)))
    BY <2>1, SpentIsUnits
  <2>7. Spent(B) = Cardinality(Units(B, Costs(B))) /\ Spent(B) \in Nat
    BY SpentIsUnits
  <2> HIDE DEF all
  <2>8. Cardinality(Units(all, Costs(all))) = n.cost + Cardinality(Units(B, Costs(B)))
    <3>1. Costs(all)[n] \in Nat /\ IsFiniteSet(Units(all \ {n}, Costs(all)))
      BY <2>2, <2>3, <2>4, <2>5
    <3>2. Cardinality(Units(all, Costs(all)))
            = Costs(all)[n] + Cardinality(Units(all \ {n}, Costs(all)))
      BY <2>2, <3>1, UnitsOfOneMore
    <3> QED  BY <2>2, <2>3, <2>4, <3>2
  <2>9. Spent(all) <= Spent(B) + n.cost
    BY <2>6, <2>7, <2>8
  <2> QED  BY <2>9 DEF all
<1> QED  BY <1>1, <1>2

-----------------------------------------------------------------------------
(* The fleet's ceiling.  While a bill counts, its marker shows it, so what *)
(* a cycle finds on the markers is at least what was billed; from there on *)
(* it counts each run of its own.                                          *)

\* the bills in B that still count at t
Counted(B, t) == {e \in B : t - e.at <= SpendWindow}

\* A bill has the price of its job, and so has a marker, if it has one.
Priced ==
  /\ IsFiniteSet(bill)
  /\ \A e \in bill : e.cost = Manifests[e.job].cost
  /\ \A j \in Jobs : marker[j].cost \in {0, Manifests[j].cost}

\* A cycle knows of all that counts, and holds a paid job it has decided on to it.
Funded ==
  /\ spend \in [Cycles -> Nat]
  /\ \A c \in Cycles : cyc[c].pc # "off" =>
       Spent(Counted(bill, cyc[c].start)) <= spend[c] + cyc[c].cost
  /\ \A c \in Cycles : cyc[c].pc # "record" => cyc[c].cost = 0
  /\ \A c \in Cycles : cyc[c].pc = "start" /\ Paid(Job(c)) => spend[c] < Ceiling

Shown(t) == [j \in Jobs |-> RecordedCost(j, t)]

LEMMA ShownTypes ==
  ASSUME Sorted, NEW t \in Nat
  PROVE  IsFiniteSet(Jobs) /\ \A j \in Jobs : Shown(t)[j] \in Nat
<1>1. IsFiniteSet(Jobs)
  BY JobsAreNumbered, FS_Interval
<1>2. \A j \in Jobs : RecordedCost(j, t) \in Nat
  BY DEF RecordedCost, Sorted, Types, Marker
<1> QED  BY <1>1, <1>2 DEF Shown

LEMMA SpendIsUnits ==
  ASSUME Sorted, NEW t \in Nat
  PROVE  /\ SpendSoFar(t) = Cardinality(Units(Jobs, Shown(t)))
         /\ SpendSoFar(t) \in Nat
<1> DEFINE P(G) == G = [s \in SUBSET Jobs |-> IF s = {} THEN 0
                          ELSE RecordedCost(Some(s), t) + G[s \ {Some(s)}]]
           iter == CHOOSE G : P(G)
           F == [s \in SUBSET Jobs |-> Cardinality(Units(s, Shown(t)))]
<1>1. \A s \in SUBSET Jobs : s # {} =>
        Some(s) \in Jobs /\ Shown(t)[Some(s)] = RecordedCost(Some(s), t)
  BY DEF Some, Shown
<1>2. IsFiniteSet(Jobs) /\ \A j \in Jobs : Shown(t)[j] \in Nat
  BY ShownTypes
<1>3. P(F)
  <2>1. Tallies(F, Jobs, Shown(t))
    BY <1>2, UnitsTally
  <2>2. \A s \in SUBSET Jobs :
          F[s] = IF s = {} THEN 0 ELSE RecordedCost(Some(s), t) + F[s \ {Some(s)}]
    BY <1>1, <2>1 DEF Tallies
  <2>3. F = [s \in SUBSET Jobs |-> F[s]]
    OBVIOUS
  <2> HIDE DEF F
  <2> QED  BY <2>2, <2>3
<1>4. P(iter)
  <2> HIDE DEF P, F
  <2> QED  BY <1>3
<1>5. SpendSoFar(t) = iter[Jobs]
  BY Zenon DEF SpendSoFar, MapThenSumSet, MapThenFoldSet, Some
<1>6. Tallies(iter, Jobs, Shown(t))
  <2> HIDE DEF iter
  <2> QED  BY <1>1, <1>4 DEF Tallies
<1> HIDE DEF iter, F, P
<1>7. iter[Jobs] = Cardinality(Units(Jobs, Shown(t)))
  BY <1>2, <1>6, TallyIsUnits
<1> QED  BY <1>2, <1>5, <1>7, UnitsAreFinite

\* what is billed is shown, once
LEMMA MarkersShowTheSpend ==
  ASSUME Sorted, Accounted, Priced
  PROVE  Spent(Counted(bill, now)) <= SpendSoFar(now)
<1> DEFINE B == Counted(bill, now)
           U == Units(B, Costs(B))
           V == Units(Jobs, Shown(now))
           f == [u \in U |-> <<u[1].job, u[2]>>]
<1>1. now \in Nat /\ B \subseteq bill
  BY DEF Sorted, Types, Counted
<1>2. \A e \in B : e \in [job : Jobs, at : Nat, cost : Nat]
  BY <1>1 DEF Sorted, Types
<1>3. IsFiniteSet(B)
  BY <1>1, FS_Subset DEF Priced
<1>4. ASSUME NEW e \in B
      PROVE  /\ e.job \in Jobs /\ marker[e.job].last = e.at
             /\ e.cost = Manifests[e.job].cost /\ Shown(now)[e.job] = e.cost
  <2>1. e \in bill /\ now - e.at <= SpendWindow /\ e.job \in Jobs
    BY <1>2 DEF Counted
  <2>2. now - e.at \in Int /\ SpendWindow \in Int
    BY <1>1, <1>2, ManifestTypes
  <2>3. Covered(e)
    BY <2>1, <2>2 DEF Accounted, Aged
  <2>4. marker[e.job].cost = Manifests[e.job].cost /\ e.cost = Manifests[e.job].cost
    <3>1. marker[e.job].cost \in Nat
      BY <2>1 DEF Sorted, Types, Marker
    <3> QED  BY <2>1, <2>3, <3>1 DEF Priced, Covered
  <2>5. RecordedCost(e.job, now) = marker[e.job].cost
    BY <2>1, <2>3 DEF RecordedCost, Covered
  <2> QED  BY <2>1, <2>3, <2>4, <2>5 DEF Covered, Shown
<1>5. f \in [U -> V]
  <2> SUFFICES ASSUME NEW u \in U PROVE <<u[1].job, u[2]>> \in V
    OBVIOUS
  <2>1. u \in B \X Nat /\ u[1] \in B /\ u[2] \in Nat /\ u[2] \in 1..u[1].cost
    BY DEF Units, Costs
  <2>2. u[1].job \in Jobs /\ Shown(now)[u[1].job] = u[1].cost
    BY <1>4, <2>1
  <2> HIDE DEF U, B
  <2> QED  BY <2>1, <2>2 DEF Units
<1>6. ASSUME NEW u \in U, NEW v \in U, f[u] = f[v] PROVE u = v
  <2>1. /\ u \in B \X Nat /\ v \in B \X Nat /\ u[1] \in B /\ v[1] \in B
        /\ u = <<u[1], u[2]>> /\ v = <<v[1], v[2]>>
    BY DEF Units
  <2>2. u[1].job = v[1].job /\ u[2] = v[2]
    BY <1>6
  <2>3. u[1].at = v[1].at /\ u[1].cost = v[1].cost
    BY <1>4, <2>1, <2>2
  <2>4. u[1] \in [job : Jobs, at : Nat, cost : Nat]
        /\ v[1] \in [job : Jobs, at : Nat, cost : Nat]
    BY <1>2, <2>1
  <2>5. u[1] = v[1]
    BY <2>2, <2>3, <2>4
  <2> QED  BY <2>1, <2>2, <2>5
<1>7. f \in Injection(U, V)
  BY <1>5, <1>6 DEF Injection, IsInjective
<1>8. IsFiniteSet(V)
  BY <1>1, ShownTypes, UnitsAreFinite
<1>9. Cardinality(U) <= Cardinality(V)
  <2> HIDE DEF f, U, V
  <2> QED  BY <1>7, <1>8, FS_Injection
<1>10. Spent(B) = Cardinality(U)
  BY <1>2, <1>3, SpentIsUnits
<1>11. SpendSoFar(now) = Cardinality(V)
  BY <1>1, SpendIsUnits
<1> HIDE DEF U, V
<1> QED  BY <1>9, <1>10, <1>11

LEMMA InitFunded == Init => Priced /\ Funded
<1> SUFFICES ASSUME Init PROVE Priced /\ Funded
  OBVIOUS
<1>1. \A c \in Cycles : cyc[c].pc = "off" /\ cyc[c].cost = 0
  BY DEF Init, Off
<1>2. \A j \in Jobs : marker[j].cost = 0
  BY DEF Init, NoMarker
<1>3. bill = {} /\ spend \in [Cycles -> Nat]
  BY DEF Init
<1> QED  BY <1>1, <1>2, <1>3, FS_EmptySet DEF Priced, Funded

LEMMA NextPriced ==
  ASSUME Sorted, Priced, [Next]_vars PROVE Priced'
<1> USE DEF Sorted
<1>1. ASSUME bill' = bill,
             \A j \in Jobs : marker'[j].cost \in {0, Manifests[j].cost}
      PROVE  Priced'
  BY <1>1 DEF Priced
<1>2. ASSUME UNCHANGED <<marker, bill>> PROVE Priced'
  BY <1>1, <1>2 DEF Priced
<1>3. ASSUME NEW c \in Cycles, Begin(c) PROVE Priced'
  <2>1. bill' \subseteq bill /\ marker' = marker
    BY <1>3 DEF Begin, disk
  <2>2. IsFiniteSet(bill')
    BY <2>1, FS_Subset DEF Priced
  <2> QED  BY <2>1, <2>2 DEF Priced
<1>4. ASSUME NEW c \in Cycles, Miss(c) PROVE Priced'
  <2>1. PICK j \in Jobs : marker' = [marker EXCEPT ![j] = MissedMarker(j, cyc[c].start)]
    BY <1>4 DEF Miss
  <2>2. MissedMarker(j, cyc[c].start).cost = 0
    BY DEF MissedMarker
  <2> QED  BY <1>1, <1>4, <2>1, <2>2 DEF Priced, Miss, history, Types
<1>5. ASSUME NEW c \in Cycles, MarkStart(c) PROVE Priced'
  BY <1>1, <1>5 DEF Priced, MarkStart, NoMarker, Types
<1>6. ASSUME NEW c \in Cycles, MarkDone(c) PROVE Priced'
  <2> DEFINE j == Job(c)
  <2>1. j \in Jobs
    BY <1>6 DEF MarkDone, Placed, Busy
  <2>2. PICK ok \in BOOLEAN, cost \in {0, Manifests[j].cost} :
          /\ marker' = [marker EXCEPT ![j] =
                          [status |-> "done", last |-> cyc[c].start, cost |-> cost,
                           real |-> cyc[c].start]]
          /\ bill' = IF cost = 0 THEN bill
                     ELSE bill \cup {[job |-> j, at |-> cyc[c].start, cost |-> cost]}
    BY <1>6 DEF MarkDone
  <2>3. \A k \in Jobs : marker'[k].cost \in {0, Manifests[k].cost}
    BY <2>1, <2>2 DEF Priced, Types
  <2>4. IsFiniteSet(bill')
    <3>1. PICK n : n = [job |-> j, at |-> cyc[c].start, cost |-> cost]
      OBVIOUS
    <3>2. IsFiniteSet(bill \cup {n}) /\ IsFiniteSet(bill)
      BY FS_AddElement DEF Priced
    <3>3. bill' = bill \/ bill' = bill \cup {n}
      BY <2>2, <3>1
    <3> QED  BY <3>2, <3>3, Zenon
  <2>5. \A e \in bill' : e.cost = Manifests[e.job].cost
    BY <2>2 DEF Priced
  <2> QED  BY <2>3, <2>4, <2>5 DEF Priced
<1>7. ASSUME NEW c \in Cycles, Kill(c) PROVE Priced'
  <2>1. \A j \in Jobs : marker'[j] = marker[j] \/ marker'[j] = NoMarker
    BY <1>7 DEF Kill, Types, disk
  <2>2. NoMarker.cost = 0
    BY DEF NoMarker
  <2> QED  BY <1>1, <1>7, <2>1, <2>2 DEF Priced, Kill
<1>8. ASSUME NEW c \in Cycles, Skip(c) \/ SkipOverCeiling(c) \/ Decide(c)
                               \/ Record(c) \/ End(c)
      PROVE  Priced'
  BY <1>2, <1>8 DEF Skip, SkipOverCeiling, Decide, Record, End, disk, history
<1>9. CASE Tick
  BY <1>2, <1>9 DEF Tick, disk
<1>10. ASSUME NEW j \in Jobs, Clear(j) PROVE Priced'
  BY <1>2, <1>10 DEF Clear
<1>11. CASE UNCHANGED vars
  BY <1>2, <1>11 DEF vars, disk, history
<1> QED
  BY <1>3, <1>4, <1>5, <1>6, <1>7, <1>8, <1>9, <1>10, <1>11 DEF Next, Cycle

LEMMA NextFunded ==
  ASSUME OneCycle, Sorted, Accounted, Priced, Funded, [Next]_vars PROVE Funded'
<1> USE DEF Sorted
<1>0. \A c, d \in Cycles : c = d
  BY DEF OneCycle
<1>a. /\ \A c \in Cycles : cyc[c] \in CycleState /\ spend[c] \in Nat
      /\ \A c \in Cycles : cyc[c].cost \in Nat /\ cyc[c].start \in Nat
  BY DEF Types, CycleState, Funded
\* what becomes of the cycle at c
<1>1. ASSUME NEW c \in Cycles, spend' \in [Cycles -> Nat],
             cyc'[c].pc # "off" =>
               Spent(Counted(bill', cyc'[c].start)) <= spend'[c] + cyc'[c].cost,
             cyc'[c].pc # "record" => cyc'[c].cost = 0,
             cyc'[c].pc = "start" /\ Paid(cyc'[c].at) => spend'[c] < Ceiling
      PROVE  Funded'
  BY <1>0, <1>1 DEF Funded, Counted, Paid, Job
\* a step that neither bills nor pays
<1>2. ASSUME NEW c \in Cycles, UNCHANGED <<spend, bill>>,
             cyc[c].pc # "off", cyc[c].pc # "record", cyc'[c].pc # "record",
             cyc'[c].start = cyc[c].start, cyc'[c].cost = cyc[c].cost,
             cyc'[c].pc = "start" /\ Paid(cyc'[c].at) => spend[c] < Ceiling
      PROVE  Funded'
  BY <1>1, <1>2 DEF Funded
<1>3. CASE Tick
  <2>1. \A c \in Cycles : /\ cyc'[c].pc = cyc[c].pc /\ cyc'[c].at = cyc[c].at
                          /\ cyc'[c].start = cyc[c].start /\ cyc'[c].cost = cyc[c].cost
    BY <1>a, <1>3 DEF Tick, CycleState
  <2>2. UNCHANGED <<spend, bill>>
    BY <1>3 DEF Tick
  <2> QED  BY <2>1, <2>2 DEF Funded, Counted, Paid, Job
<1>4. ASSUME NEW c \in Cycles, Begin(c) PROVE Funded'
  <2>1. cyc'[c].pc = "consider" /\ cyc'[c].start = now /\ cyc'[c].cost = 0
    BY <1>4 DEF Begin, Types, Off
  <2>2. bill' = Counted(bill, now) /\ spend' = [spend EXCEPT ![c] = SpendSoFar(now)]
    BY <1>4 DEF Begin, Counted
  <2>3. now \in Nat
    BY DEF Types
  <2>4. SpendSoFar(now) \in Nat
    BY <2>3, SpendIsUnits
  <2>5. spend' \in [Cycles -> Nat] /\ spend'[c] = SpendSoFar(now)
    BY <2>2, <2>4 DEF Funded
  <2>6. Counted(bill', now) = Counted(bill, now)
    BY <2>2 DEF Counted
  <2>7. Spent(Counted(bill', now)) <= SpendSoFar(now)
    <3>1. Spent(Counted(bill, now)) <= SpendSoFar(now)
      BY MarkersShowTheSpend
    <3> QED  BY <2>6, <3>1, Zenon
  <2>8. Spent(Counted(bill', cyc'[c].start)) <= spend'[c] + cyc'[c].cost
    BY <2>1, <2>4, <2>5, <2>7
  <2> QED  BY <1>1, <2>1, <2>5, <2>8
<1>5. ASSUME NEW c \in Cycles, Skip(c) \/ SkipOverCeiling(c) \/ Miss(c) PROVE Funded'
  <2>1. cyc[c].pc = "consider" /\ NextJob(c) /\ bill' = bill
    BY <1>5 DEF Skip, SkipOverCeiling, Miss, Considers, history
  <2>2. /\ cyc'[c].pc = "consider" /\ cyc'[c].start = cyc[c].start
        /\ cyc'[c].cost = cyc[c].cost /\ spend' = spend
    BY <2>1 DEF NextJob, Types, CycleState
  <2> QED  BY <1>2, <2>1, <2>2
<1>6. ASSUME NEW c \in Cycles, Decide(c) PROVE Funded'
  <2>1. /\ cyc[c].pc = "consider" /\ UNCHANGED <<spend, bill>>
        /\ Paid(Job(c)) => ~(spend[c] >= Ceiling)
    BY <1>6 DEF Decide, Considers, OverCeiling, history
  <2>2. /\ cyc'[c].pc = "start" /\ cyc'[c].at = cyc[c].at
        /\ cyc'[c].start = cyc[c].start /\ cyc'[c].cost = cyc[c].cost
    BY <1>6 DEF Decide, Types, CycleState
  <2>3. Paid(cyc[c].at) => spend[c] < Ceiling
    BY <1>a, <2>1, ManifestTypes DEF Job
  <2> QED  BY <1>2, <2>1, <2>2, <2>3
<1>7. ASSUME NEW c \in Cycles, MarkStart(c) PROVE Funded'
  <2>1. cyc[c].pc = "start" /\ UNCHANGED <<spend, bill>>
    BY <1>7 DEF MarkStart
  <2>2. /\ cyc'[c].pc = "run" /\ cyc'[c].start = cyc[c].start
        /\ cyc'[c].cost = cyc[c].cost
    BY <1>7 DEF MarkStart, Types, CycleState
  <2> QED  BY <1>2, <2>1, <2>2
<1>8. ASSUME NEW c \in Cycles, MarkDone(c) PROVE Funded'
  <2> DEFINE j == Job(c)
  <2>1. cyc[c].pc = "run" /\ j \in Jobs /\ spend' = spend
    BY <1>8 DEF MarkDone, Placed, Busy
  <2>2. PICK ok \in BOOLEAN, cost \in {0, Manifests[j].cost} :
          /\ cyc' = [cyc EXCEPT ![c].pc = "record", ![c].ok = ok, ![c].cost = cost]
          /\ bill' = IF cost = 0 THEN bill
                     ELSE bill \cup {[job |-> j, at |-> cyc[c].start, cost |-> cost]}
    BY <1>8 DEF MarkDone
  <2>3. cyc'[c].pc = "record" /\ cyc'[c].start = cyc[c].start /\ cyc'[c].cost = cost
    BY <2>2, Zenon DEF Types, CycleState
  <2>4. cost \in Nat
    BY <2>1, <2>2, ManifestTypes
  <2>5. Spent(Counted(bill, cyc[c].start)) <= spend[c]
    BY <1>a, <2>1 DEF Funded
  <2>6. Spent(Counted(bill', cyc[c].start)) <= spend[c] + cost
    <3> DEFINE B == Counted(bill, cyc[c].start)
               n == [job |-> j, at |-> cyc[c].start, cost |-> cost]
    <3>1. IsFiniteSet(B) /\ \A e \in B : e.cost \in Nat
      <4>1. B \subseteq bill
        BY DEF Counted
      <4> QED  BY <4>1, FS_Subset DEF Priced, Types
    <3>2. Spent(B) \in Nat
      BY <3>1, SpentIsUnits
    <3>3. CASE cost = 0
      <4>1. bill' = bill
        BY <2>2, <3>3
      <4> QED  BY <2>5, <3>3, <4>1, <1>a
    <3>4. CASE cost # 0
      <4>1. bill' = bill \cup {n}
        BY <2>2, <3>4
      <4>2. n.cost = cost /\ n.at = cyc[c].start
        OBVIOUS
      <4>3. Counted(bill', cyc[c].start) = B \cup {n}
        BY <1>a, <4>1, <4>2, ManifestTypes DEF Counted
      <4> HIDE DEF B, n
      <4>4. Spent(B \cup {n}) <= Spent(B) + n.cost
        BY <2>4, <3>1, <4>2, OneMoreCost
      <4>5. Spent(B) <= spend[c]
        BY <2>5 DEF B
      <4>6. Spent(B \cup {n}) \in Nat
        <5>1. IsFiniteSet(B \cup {n}) /\ \A e \in B \cup {n} : e.cost \in Nat
          BY <2>4, <3>1, <4>2, FS_AddElement
        <5> QED  BY <5>1, SpentIsUnits
      <4>7. Spent(B \cup {n}) <= spend[c] + cost
        BY <1>a, <2>4, <3>2, <4>2, <4>4, <4>5, <4>6
      <4> QED  BY <4>3, <4>7, Zenon
    <3> QED  BY <3>3, <3>4
  <2>7. spend' \in [Cycles -> Nat]
    BY <2>1 DEF Funded
  <2> QED  BY <1>1, <2>1, <2>3, <2>6, <2>7
<1>9. ASSUME NEW c \in Cycles, Record(c) PROVE Funded'
  <2>1. /\ cyc[c].pc = "record" /\ bill' = bill
        /\ spend' = [spend EXCEPT ![c] = spend[c] + cyc[c].cost]
    BY <1>9 DEF Record, SpendCounted
  <2>2. cyc'[c].pc = "consider" /\ cyc'[c].start = cyc[c].start /\ cyc'[c].cost = 0
    BY <1>9, Zenon DEF Record, Types, CycleState
  <2>3. spend' \in [Cycles -> Nat] /\ spend'[c] = spend[c] + cyc[c].cost
    BY <1>a, <2>1 DEF Funded
  <2>4. Spent(Counted(bill, cyc[c].start)) <= spend'[c] + 0
    BY <1>a, <2>1, <2>3 DEF Funded
  <2> QED  BY <1>1, <2>1, <2>2, <2>3, <2>4
<1>10. ASSUME NEW c \in Cycles, End(c) \/ Kill(c) PROVE Funded'
  <2>1. cyc'[c].pc = "off" /\ cyc'[c].cost = 0
    BY <1>10 DEF End, Kill, Types, Off
  <2>2. spend' \in [Cycles -> Nat]
    BY <1>10 DEF End, Kill, Funded
  <2> QED  BY <1>1, <2>1, <2>2
<1>11. ASSUME NEW j \in Jobs, Clear(j) PROVE Funded'
  BY <1>11 DEF Clear, cycles, Funded, Counted, Paid, Job
<1>12. CASE UNCHANGED vars
  BY <1>12 DEF vars, cycles, history, Funded, Counted, Paid, Job
<1> QED
  BY <1>3, <1>4, <1>5, <1>6, <1>7, <1>8, <1>9, <1>10, <1>11, <1>12 DEF Next, Cycle

\* cycle.py:176-190 and :512-519: with one cycle at a time, and as long as no paid
\* job's lookback runs out inside the spend window, a paid job starts only while
\* all that was spent in the window is under the ceiling, whatever is killed, torn,
\* missed or cleared in between.
THEOREM SpendStaysUnderTheCeiling ==
  ASSUME OneCycle, LateIsOutsideWindow
  PROVE  Spec => FleetUnderCeiling
<1>1. Sorted /\ Accounted /\ [Next]_vars => Accounted'
  BY NextAccounted
<1>2. Sorted /\ Priced /\ [Next]_vars => Priced'
  BY NextPriced
<1>3. Sorted /\ Accounted /\ Priced /\ Funded /\ [Next]_vars => Funded'
  BY NextFunded
<1>4. Sorted /\ Priced /\ Funded =>
        [\A c \in Cycles : MarkStart(c) /\ Paid(Job(c)) =>
           MapThenSumSet(LAMBDA e : e.cost,
             {e \in bill : cyc[c].start - e.at <= SpendWindow}) < Ceiling]_vars
  <2> SUFFICES ASSUME Sorted, Priced, Funded, NEW c \in Cycles, MarkStart(c), Paid(Job(c))
               PROVE  Spent(Counted(bill, cyc[c].start)) < Ceiling
    BY DEF Spent, Counted
  <2>1. cyc[c].pc = "start" /\ cyc[c].cost = 0 /\ spend[c] \in Nat /\ spend[c] < Ceiling
    BY DEF MarkStart, Funded
  <2>2. Spent(Counted(bill, cyc[c].start)) <= spend[c]
    BY <2>1 DEF Funded
  <2>3. Spent(Counted(bill, cyc[c].start)) \in Nat
    <3>1. Counted(bill, cyc[c].start) \subseteq bill
      BY DEF Counted
    <3>2. /\ IsFiniteSet(Counted(bill, cyc[c].start))
          /\ \A e \in Counted(bill, cyc[c].start) : e.cost \in Nat
      BY <3>1, FS_Subset DEF Priced, Sorted, Types
    <3> QED  BY <3>2, SpentIsUnits
  <2> QED  BY <2>1, <2>2, <2>3, ManifestTypes
<1> QED
  BY <1>1, <1>2, <1>3, <1>4, InitAccounted, InitFunded, AlwaysSorted, PTL
  DEF Spec, FleetUnderCeiling

-----------------------------------------------------------------------------
(* A job runs on time.                                                     *)

\* After a run at `last`, j is due from `first` on, and stays so in its window, in
\* its lookback and past the spend window for as long as the cycle that came too
\* early for it can keep it waiting: a tick for each command.
Room(j, last, first) ==
  /\ last < first /\ first <= last + Wait(j)
  /\ \A t \in first..first + Len(Manifests) - 1 :
       /\ InWindow(Manifests[j].window, t)
       /\ NextDue(j, last) <= t
       /\ t <= NextDue(j, last) + Manifests[j].lookback
       /\ Paid(j) => t - last > SpendWindow

\* No manifest squeezes its job out.  The lemmas at the end show it of the two
\* kinds of manifest the repository has.
RoomToRun ==
  \A j \in Jobs, last \in Nat :
    InWindow(Manifests[j].window, last) => \E first \in Nat : Room(j, last, first)

\* the ticks a cycle may have taken: one for each command, if it has begun
Elapsed(c) ==
  IF cyc[c].pc = "record" \/ (cyc[c].pc = "run" /\ cyc[c].slow)
    THEN cyc[c].at ELSE cyc[c].at - 1

\* A cycle is behind the clock by its commands only, and starts jobs in their windows.
Clocked ==
  /\ beat \in BOOLEAN /\ disturbed \in [Jobs -> Nat]
  /\ \A j \in Jobs : ranAt[j] <= now
  /\ \A c \in Cycles : cyc[c].pc # "off" =>
       /\ cyc[c].start <= now /\ now <= cyc[c].start + Elapsed(c)
       /\ cyc[c].at \in 1..Len(Manifests) + 1
       /\ beat => cyc[c].start = now
  /\ \A c \in Cycles : cyc[c].pc \in {"start", "run"} =>
       InWindow(Manifests[Job(c)].window, cyc[c].start)

\* the cycle has decided on j
Passed(c, j) == cyc[c].at > j \/ (cyc[c].at = j /\ cyc[c].pc = "record")

\* With room from `first` on, a cycle that passed j by began before, every cycle
\* begins before the room is over, and so does the next one.
Awaited(j, first) ==
  /\ (\A c \in Cycles : cyc[c].pc = "off") =>
       /\ now < first + Len(Manifests)
       /\ beat => now < first
  /\ \A c \in Cycles : cyc[c].pc # "off" =>
       /\ cyc[c].start < first + Len(Manifests)
       /\ Passed(c, j) => cyc[c].start < first

\* the marker tells of the last run, but while the next one is under way
Marked(j) ==
  \/ marker[j].status = "done" /\ marker[j].last = ranAt[j]
  \/ \E c \in Cycles : cyc[c].pc = "run" /\ Job(c) = j

Held(j) == ranAt[j] <= disturbed[j] \/ Stopped(j)

Punctual(j) ==
  /\ InWindow(Manifests[j].window, ranAt[j])
  /\ Marked(j)
  /\ \A first \in Nat : Room(j, ranAt[j], first) => Awaited(j, first)

Timely == \A j \in Jobs : ~Held(j) => Punctual(j)

LEMMA InitTimely == Init => Clocked /\ Timely
<1> SUFFICES ASSUME Init PROVE Clocked /\ Timely
  OBVIOUS
<1>1. \A c \in Cycles : cyc[c].pc = "off"
  BY DEF Init, Off
<1>2. /\ beat \in BOOLEAN /\ disturbed \in [Jobs -> Nat]
      /\ \A j \in Jobs : ranAt[j] <= now /\ ranAt[j] <= disturbed[j]
  <2>1. now = 1 /\ \A j \in Jobs : ranAt[j] = 0 /\ disturbed[j] = 1
    BY DEF Init, Never
  <2>2. beat \in BOOLEAN /\ disturbed \in [Jobs -> Nat]
    BY DEF Init
  <2> QED  BY <2>1, <2>2
<1>3. Clocked
  BY <1>1, <1>2 DEF Clocked
<1>4. Timely
  BY <1>2 DEF Timely, Held
<1> QED  BY <1>3, <1>4

\* A step of the clock: what the cycle at c becomes.
LEMMA CycleClocked ==
  ASSUME OneCycle, Sorted, Clocked, NEW c \in Cycles, UNCHANGED <<now, beat>>,
         cyc'[c].pc # "off" =>
           /\ cyc'[c].start <= now /\ now <= cyc'[c].start + Elapsed(c)'
           /\ cyc'[c].at \in 1..Len(Manifests) + 1
           /\ beat => cyc'[c].start = now,
         cyc'[c].pc \in {"start", "run"} =>
           InWindow(Manifests[cyc'[c].at].window, cyc'[c].start),
         disturbed' \in [Jobs -> Nat], \A j \in Jobs : ranAt'[j] <= now
  PROVE  Clocked'
<1>1. \A d \in Cycles : d = c
  BY DEF OneCycle
<1>2. \A d \in Cycles : cyc'[d].pc \in {"start", "run"} =>
        InWindow(Manifests[Job(d)].window, cyc[d].start)'
  BY <1>1 DEF Job, InWindow, NoWindow
<1> QED  BY <1>1, <1>2 DEF Clocked

LEMMA NextClocked ==
  ASSUME OneCycle, Sorted, Clocked, [Next]_vars PROVE Clocked'
<1> USE JobsAreNumbered DEF Sorted
<1>0. \A c, d \in Cycles : c = d
  BY DEF OneCycle
<1>a. /\ now \in Nat /\ disturbed \in [Jobs -> Nat]
      /\ \A c \in Cycles : cyc[c] \in CycleState
      /\ \A c \in Cycles : cyc[c].start \in Nat /\ cyc[c].at \in Nat
      /\ \A j \in Jobs : ranAt[j] <= now
      /\ \A c \in Cycles : cyc[c].pc # "off" =>
           /\ cyc[c].start <= now /\ now <= cyc[c].start + Elapsed(c)
           /\ cyc[c].at \in 1..Len(Manifests) + 1
           /\ beat => cyc[c].start = now
  BY DEF Types, CycleState, Clocked
<1>1. CASE Tick
  <2>1. \A c \in Cycles : /\ cyc'[c].pc = cyc[c].pc /\ cyc'[c].at = cyc[c].at
                          /\ cyc'[c].start = cyc[c].start
                          /\ cyc'[c].slow = (cyc[c].pc = "run")
    BY <1>a, <1>1 DEF Tick, CycleState
  <2>2. now' = now + 1 /\ ~beat' /\ beat' \in BOOLEAN /\ ranAt' = ranAt
    BY <1>1 DEF Tick
  <2>3. disturbed' \in [Jobs -> Nat]
    BY <1>a, <1>1 DEF Tick
  <2>4. \A c \in Cycles : cyc[c].pc # "off" =>
          cyc[c].start <= now + 1 /\ now + 1 <= cyc'[c].start + Elapsed(c)'
    <3> SUFFICES ASSUME NEW c \in Cycles, cyc[c].pc # "off"
                 PROVE  cyc[c].start <= now + 1 /\ now + 1 <= cyc'[c].start + Elapsed(c)'
      OBVIOUS
    <3>1. cyc[c].pc = "run" /\ ~cyc[c].slow
      BY <1>1 DEF Tick
    <3>2. Elapsed(c) = cyc[c].at - 1 /\ Elapsed(c)' = cyc[c].at
      BY <2>1, <3>1 DEF Elapsed
    <3>3. cyc[c].start <= now /\ now <= cyc[c].start + Elapsed(c)
      BY <1>a
    <3> QED  BY <1>a, <2>1, <3>2, <3>3
  <2>5. \A c \in Cycles : cyc'[c].pc \in {"start", "run"} =>
          InWindow(Manifests[Job(c)].window, cyc[c].start)'
    BY <2>1 DEF Clocked, Job, InWindow, NoWindow
  <2>6. \A c \in Cycles : cyc'[c].pc # "off" =>
          /\ cyc'[c].start <= now' /\ now' <= cyc'[c].start + Elapsed(c)'
          /\ cyc'[c].at \in 1..Len(Manifests) + 1
    BY <1>a, <2>1, <2>2, <2>4
  <2>7. \A j \in Jobs : ranAt'[j] <= now'
    <3>1. \A j \in Jobs : ranAt[j] \in Nat
      BY DEF Types
    <3> QED  BY <1>a, <2>2, <3>1
  <2> QED  BY <2>2, <2>3, <2>5, <2>6, <2>7 DEF Clocked
<1>2. ASSUME NEW c \in Cycles, Begin(c) PROVE Clocked'
  <2>1. cyc'[c].pc = "consider" /\ cyc'[c].start = now /\ cyc'[c].at = 1
    BY <1>2 DEF Begin, Types, Off
  <2>2. UNCHANGED <<now, ranAt, disturbed>> /\ beat' \in BOOLEAN
    BY <1>2 DEF Begin
  <2>3. Elapsed(c)' = 0
    BY <2>1 DEF Elapsed
  <2>4. \A d \in Cycles : cyc'[d].pc \in {"start", "run"} =>
          InWindow(Manifests[Job(d)].window, cyc[d].start)'
    BY <1>0, <2>1
  <2> QED  BY <1>0, <1>a, <2>1, <2>2, <2>3, <2>4 DEF Clocked
<1>3. ASSUME NEW c \in Cycles, cyc[c].pc = "consider", NextJob(c), Job(c) \in Jobs,
             UNCHANGED <<now, beat, ranAt>>, disturbed' \in [Jobs -> Nat]
      PROVE  Clocked'
  <2>1. /\ cyc'[c].pc = "consider" /\ cyc'[c].start = cyc[c].start
        /\ cyc'[c].at = cyc[c].at + 1
    BY <1>a, <1>3 DEF NextJob, Types, CycleState
  <2>2. Elapsed(c)' = cyc[c].at /\ Elapsed(c) = cyc[c].at - 1
    BY <1>a, <1>3, <2>1 DEF Elapsed
  <2>3. now <= cyc'[c].start + Elapsed(c)'
    <3>1. now <= cyc[c].start + (cyc[c].at - 1)
      BY <1>a, <1>3, <2>2
    <3>2. now <= cyc[c].start + cyc[c].at
      BY <1>a, <3>1
    <3> QED  BY <2>1, <2>2, <3>2
  <2>4. cyc'[c].at \in 1..Len(Manifests) + 1
    BY <1>3, <2>1 DEF Job
  <2> QED  BY <1>3, <1>a, <2>1, <2>3, <2>4, CycleClocked
<1>4. ASSUME NEW c \in Cycles, Skip(c) \/ Miss(c) PROVE Clocked'
  BY <1>3, <1>4, <1>a DEF Skip, Miss, Considers, disk, history
<1>5. ASSUME NEW c \in Cycles, SkipOverCeiling(c) PROVE Clocked'
  BY <1>3, <1>5, <1>a DEF SkipOverCeiling, Considers
<1>6. ASSUME NEW c \in Cycles, Decide(c) PROVE Clocked'
  <2>1. /\ cyc[c].pc = "consider" /\ Job(c) \in Jobs /\ IsDue(Job(c), cyc[c].start)
        /\ UNCHANGED <<now, beat, ranAt, disturbed>>
    BY <1>6 DEF Decide, Considers, history
  <2>2. /\ cyc'[c].pc = "start" /\ cyc'[c].start = cyc[c].start
        /\ cyc'[c].at = cyc[c].at
    BY <1>a, <1>6 DEF Decide, Types, CycleState
  <2>3. Elapsed(c)' = Elapsed(c)
    BY <2>1, <2>2 DEF Elapsed
  <2>4. InWindow(Manifests[cyc'[c].at].window, cyc'[c].start)
    BY <2>1, <2>2 DEF IsDue, Job
  <2> QED  BY <1>a, <2>1, <2>2, <2>3, <2>4, CycleClocked
<1>7. ASSUME NEW c \in Cycles, MarkStart(c) PROVE Clocked'
  <2>1. cyc[c].pc = "start" /\ UNCHANGED <<now, beat, ranAt, disturbed>>
    BY <1>7 DEF MarkStart
  <2>2. /\ cyc'[c].pc = "run" /\ cyc'[c].start = cyc[c].start
        /\ cyc'[c].at = cyc[c].at /\ ~cyc'[c].slow
    BY <1>a, <1>7 DEF MarkStart, Types, CycleState
  <2>3. Elapsed(c)' = Elapsed(c)
    BY <2>1, <2>2 DEF Elapsed
  <2>4. InWindow(Manifests[cyc'[c].at].window, cyc'[c].start)
    BY <2>1, <2>2 DEF Clocked, Job
  <2> QED  BY <1>a, <2>1, <2>2, <2>3, <2>4, CycleClocked
<1>8. ASSUME NEW c \in Cycles, MarkDone(c) PROVE Clocked'
  <2>1. cyc[c].pc = "run" /\ UNCHANGED <<now, beat, disturbed>>
    BY <1>8 DEF MarkDone
  <2>2. /\ cyc'[c].pc = "record" /\ cyc'[c].start = cyc[c].start
        /\ cyc'[c].at = cyc[c].at
    <3>1. PICK ok \in BOOLEAN, cost \in {0, Manifests[Job(c)].cost} :
            cyc' = [cyc EXCEPT ![c].pc = "record", ![c].ok = ok, ![c].cost = cost]
      BY <1>8 DEF MarkDone
    <3> QED  BY <3>1, Zenon DEF Types, CycleState
  <2>3. Elapsed(c)' = cyc[c].at /\ Elapsed(c) <= cyc[c].at
    BY <1>a, <2>1, <2>2 DEF Elapsed
  <2>4. \A j \in Jobs : ranAt'[j] \in {ranAt[j], cyc[c].start}
    BY <1>8 DEF MarkDone, Types
  <2>5. \A j \in Jobs : ranAt'[j] <= now
    BY <1>a, <2>1, <2>4
  <2>6. now <= cyc'[c].start + Elapsed(c)'
    <3>1. Elapsed(c) \in Int
      BY <1>a DEF Elapsed
    <3> QED  BY <1>a, <2>1, <2>2, <2>3, <3>1
  <2> QED  BY <1>a, <2>1, <2>2, <2>5, <2>6, CycleClocked
<1>9. ASSUME NEW c \in Cycles, Record(c) PROVE Clocked'
  <2>1. cyc[c].pc = "record" /\ Job(c) \in Jobs /\ UNCHANGED <<now, beat, ranAt, disturbed>>
    BY <1>9 DEF Record, Placed, Busy
  <2>2. /\ cyc'[c].pc = "consider" /\ cyc'[c].start = cyc[c].start
        /\ cyc'[c].at = cyc[c].at + 1
    BY <1>9, Zenon DEF Record, Types, CycleState
  <2>3. Elapsed(c)' = cyc[c].at /\ Elapsed(c) = cyc[c].at
    BY <1>a, <2>1, <2>2 DEF Elapsed
  <2>4. cyc'[c].at \in 1..Len(Manifests) + 1
    BY <2>1, <2>2 DEF Job
  <2> QED  BY <1>a, <2>1, <2>2, <2>3, <2>4, CycleClocked
<1>10. ASSUME NEW c \in Cycles, End(c) \/ Kill(c) PROVE Clocked'
  <2>1. cyc'[c].pc = "off" /\ UNCHANGED <<now, beat, ranAt>>
    BY <1>10 DEF End, Kill, Types, Off, disk, history
  <2>2. disturbed' \in [Jobs -> Nat]
    BY <1>a, <1>10 DEF End, Kill, history
  <2> QED  BY <1>a, <2>1, <2>2, CycleClocked
<1>11. ASSUME NEW j \in Jobs, Clear(j) PROVE Clocked'
  <2>1. UNCHANGED <<now, beat, ranAt, cyc>> /\ disturbed' \in [Jobs -> Nat]
    BY <1>a, <1>11 DEF Clear, cycles
  <2> QED  BY <2>1 DEF Clocked, Job, Elapsed, InWindow, NoWindow
<1>12. CASE UNCHANGED vars
  BY <1>12 DEF vars, disk, cycles, history, Clocked, Job, Elapsed, InWindow, NoWindow
<1> QED
  BY <1>1, <1>2, <1>4, <1>5, <1>6, <1>7, <1>8, <1>9, <1>10, <1>11, <1>12 DEF Next, Cycle

LEMMA WindowTypes ==
  ASSUME NEW j \in Jobs
  PROVE  Manifests[j].window \in [from : 0..Day - 1, to : 0..Day - 1]
<1> DEFINE Manifest == [interval : Nat, lookback : Nat, cost : Nat,
                        window : [from : 0..Day - 1, to : 0..Day - 1]]
<1>1. Manifests \in Seq(Manifest) /\ j \in 1..Len(Manifests)
  BY RunnerCycleAssumption, JobsAreNumbered
<1>2. \A m \in Manifest : m.window \in [from : 0..Day - 1, to : 0..Day - 1]
  OBVIOUS
<1> HIDE DEF Manifest
<1>3. Manifests[j] \in Manifest
  BY <1>1, ElementOfSeq
<1> QED  BY <1>2, <1>3

LEMMA NextDueIsATime ==
  ASSUME NEW j \in Jobs, NEW last \in Nat
  PROVE  NextDue(j, last) \in Int /\ Manifests[j].lookback \in Nat
<1>1. Manifests[j].window.from \in Int
  <2>1. 0..Day - 1 \subseteq Int
    OBVIOUS
  <2> QED  BY <2>1, WindowTypes
<1>2. Manifests[j].interval \in Nat /\ Manifests[j].lookback \in Nat /\ Day \in Nat /\ Day > 0
  BY ManifestTypes
<1> DEFINE raw == last + Manifests[j].interval
           late == (raw - Manifests[j].window.from) % Day
<1>3. raw \in Nat /\ late \in Int
  BY <1>1, <1>2
<1>4. Opening(Manifests[j].window, raw) = raw - late
  BY DEF Opening
<1> HIDE DEF late
<1>5. NextDue(j, last) \in {raw, raw - late + Day, raw - late}
  BY <1>4 DEF NextDue, NextOpening
<1> QED  BY <1>2, <1>3, <1>5

\* Being punctual after a step, in terms of the new state.
LEMMA PunctualNext ==
  ASSUME NEW j \in Jobs, InWindow(Manifests[j].window, ranAt'[j]), Marked(j)',
         \A first \in Nat : Room(j, ranAt'[j], first) => Awaited(j, first)'
  PROVE  Punctual(j)'
<1>1. InWindow(Manifests[j].window, ranAt[j])'
  BY DEF InWindow, NoWindow
<1>2. ASSUME NEW first \in Nat, Room(j, ranAt[j], first)' PROVE Room(j, ranAt'[j], first)
  BY <1>2 DEF Room, Wait, InWindow, NextDue, NextOpening, Opening, NoWindow, Paid, Max
<1> QED  BY <1>1, <1>2 DEF Punctual

LEMMA NextTimely ==
  ASSUME OneCycle, RoomToRun, Sorted, Ladder, Clocked, Timely, [Next]_vars
  PROVE  Timely'
<1> SUFFICES ASSUME NEW j \in Jobs, ~Held(j)' PROVE Punctual(j)'
  BY DEF Timely
<1> DEFINE n == Len(Manifests)
<1> USE DEF Sorted
<1>0. \A c, d \in Cycles : c = d
  BY DEF OneCycle
<1>a. /\ now \in Nat /\ ranAt[j] \in Nat /\ disturbed[j] \in Nat /\ ranAt[j] <= now
      /\ n \in Nat /\ j \in 1..n
      /\ \A c \in Cycles : cyc[c].start \in Nat /\ cyc[c].at \in Nat
  <2>1. now \in Nat /\ ranAt[j] \in Nat /\ disturbed[j] \in Nat /\ ranAt[j] <= now
    BY DEF Types, Clocked
  <2>2. n \in Nat /\ j \in 1..n
    BY JobsAreNumbered
  <2>3. \A c \in Cycles : cyc[c].start \in Nat /\ cyc[c].at \in Nat
    BY DEF Types, CycleState
  <2> QED  BY <2>1, <2>2, <2>3
<1>b. ~(ranAt'[j] <= disturbed'[j]) /\ ~(streak'[j] >= StopAt)
  BY DEF Held, Stopped
<1> HIDE DEF n
\* a step that leaves the job's streak, and what holds it up, finds it punctual
<1>p. ASSUME ranAt'[j] = ranAt[j], disturbed'[j] = disturbed[j],
             streak'[j] = streak[j] \/ ~(streak[j] >= StopAt)
      PROVE  Punctual(j)
  BY <1>b, <1>p DEF Timely, Held, Stopped
<1>q. ASSUME Punctual(j), ranAt'[j] = ranAt[j], Marked(j)',
             \A first \in Nat : Room(j, ranAt[j], first) /\ Awaited(j, first) => Awaited(j, first)'
      PROVE  Punctual(j)'
  BY <1>q, PunctualNext DEF Punctual
\* a step of a cycle that goes on need only not pass the job by once it has room
<1>h. ASSUME NEW c \in Cycles, Punctual(j), ranAt'[j] = ranAt[j], Marked(j)',
             cyc[c].pc # "off", cyc'[c].pc # "off", cyc'[c].start = cyc[c].start,
             \A first \in Nat : Room(j, ranAt[j], first) /\ Awaited(j, first) /\ Passed(c, j)'
               => cyc[c].start < first
      PROVE  Punctual(j)'
  <2>1. ASSUME NEW first \in Nat, Room(j, ranAt[j], first), Awaited(j, first)
        PROVE  Awaited(j, first)'
    BY <1>0, <1>h, <2>1 DEF Awaited
  <2> QED  BY <1>h, <1>q, <2>1
\* and need not at all if it is at another job
<1>o. ASSUME NEW c \in Cycles, Punctual(j), ranAt'[j] = ranAt[j], Marked(j)',
             cyc[c].pc # "off", cyc'[c].pc # "off", cyc'[c].start = cyc[c].start,
             Passed(c, j)' => Passed(c, j)
      PROVE  Punctual(j)'
  <2>1. \A first \in Nat : Awaited(j, first) /\ Passed(c, j)' => cyc[c].start < first
    BY <1>o DEF Awaited
  <2> QED  BY <1>h, <1>o, <2>1
\* what the job's marker tells a cycle that considers it
<1>m. ASSUME NEW c \in Cycles, Punctual(j), cyc[c].pc # "run" \/ Job(c) # j
      PROVE  marker[j].status = "done" /\ marker[j].last = ranAt[j]
  BY <1>0, <1>m DEF Punctual, Marked
<1>1. CASE Tick
  <2>1. \A c \in Cycles : /\ cyc'[c].pc = cyc[c].pc /\ cyc'[c].at = cyc[c].at
                          /\ cyc'[c].start = cyc[c].start
    BY <1>1 DEF Tick, Types, CycleState
  <2>2. now' = now + 1 /\ ~beat' /\ UNCHANGED <<ranAt, marker, streak>>
    BY <1>1 DEF Tick, disk
  <2>3. ~(disturbed'[j] = now)
    BY <1>a, <1>b, <2>2
  <2>4. (beat \/ \E c \in Cycles : cyc[c].pc = "run") /\ disturbed' = disturbed
    BY <1>1, <2>3 DEF Tick
  <2>5. Punctual(j)
    BY <1>p, <2>2, <2>4
  <2>6. Marked(j)'
    BY <2>1, <2>2, <2>5 DEF Punctual, Marked, Job
  <2>7. ASSUME NEW first \in Nat, Awaited(j, first) PROVE Awaited(j, first)'
    <3>1. (\A c \in Cycles : cyc'[c].pc = "off") => now' < first + n /\ ~beat'
      BY <1>a, <2>1, <2>2, <2>4, <2>7 DEF Awaited
    <3>2. \A c \in Cycles : cyc'[c].pc # "off" =>
            cyc'[c].start < first + n /\ (Passed(c, j)' => cyc'[c].start < first)
      BY <2>1, <2>7 DEF Awaited, Passed, n
    <3> QED  BY <3>1, <3>2 DEF Awaited, n
  <2> QED  BY <1>q, <2>2, <2>5, <2>6, <2>7
<1>2. ASSUME NEW c \in Cycles, Begin(c) PROVE Punctual(j)'
  <2>1. /\ cyc[c].pc = "off" /\ cyc'[c].pc = "consider" /\ cyc'[c].start = now
        /\ cyc'[c].at = 1
    BY <1>2 DEF Begin, Types, Off
  <2>2. UNCHANGED <<ranAt, disturbed, marker, streak>>
    BY <1>2 DEF Begin, disk
  <2>3. Punctual(j)
    BY <1>p, <2>2
  <2>4. Marked(j)'
    BY <1>m, <2>1, <2>2, <2>3 DEF Marked
  <2>5. ~Passed(c, j)'
    BY <1>a, <2>1 DEF Passed
  <2>6. ASSUME NEW first \in Nat, Awaited(j, first) PROVE Awaited(j, first)'
    <3>1. now < first + n
      BY <1>0, <2>1, <2>6 DEF Awaited, n
    <3> QED  BY <1>0, <2>1, <2>5, <3>1 DEF Awaited, n
  <2> QED  BY <1>q, <2>2, <2>3, <2>4, <2>6
\* what skipping, missing or deciding does to the cycle
<1>c. ASSUME NEW c \in Cycles, cyc[c].pc = "consider", NextJob(c)
      PROVE  /\ cyc'[c].pc = "consider" /\ cyc'[c].start = cyc[c].start
             /\ cyc'[c].at = cyc[c].at + 1
             /\ Passed(c, j)' /\ cyc[c].at # j => Passed(c, j)
  <2>1. /\ cyc'[c].pc = "consider" /\ cyc'[c].start = cyc[c].start
        /\ cyc'[c].at = cyc[c].at + 1
    BY <1>c DEF NextJob, Types, CycleState
  <2> QED  BY <1>a, <2>1 DEF Passed
\* a job that has room is due, may run again, and is not missed
<1>d. ASSUME NEW c \in Cycles, Punctual(j), cyc[c].pc = "consider", NEW first \in Nat,
             Room(j, ranAt[j], first), Awaited(j, first)
      PROVE  /\ ~IsMissed(j, cyc[c].start)
             /\ ~(cyc[c].start < first) =>
                  IsDue(j, cyc[c].start) /\ (Paid(j) => ~Repeats(c, j))
  <2> DEFINE t == cyc[c].start
             due == NextDue(j, ranAt[j])
             last == first + n - 1
  <2>1. marker[j].status = "done" /\ marker[j].last = ranAt[j]
    BY <1>d, <1>m
  <2>2. due \in Int /\ Manifests[j].lookback \in Nat
    BY <1>a, NextDueIsATime
  <2>3. t \in Nat /\ t < first + n
    BY <1>a, <1>d DEF Awaited, n
  <2>4. last \in first..last /\ last <= due + Manifests[j].lookback
    BY <1>a, <1>d DEF Room, n
  <2>5. ~IsMissed(j, t)
    BY <1>a, <2>1, <2>2, <2>3, <2>4 DEF IsMissed
  <2>6. ASSUME ~(t < first) PROVE IsDue(j, t) /\ (Paid(j) => ~Repeats(c, j))
    <3>1. t \in first..last
      BY <1>a, <2>3, <2>6
    <3>2. /\ InWindow(Manifests[j].window, t) /\ due <= t
          /\ t <= due + Manifests[j].lookback
          /\ Paid(j) => t - ranAt[j] > SpendWindow
      BY <1>d, <3>1 DEF Room, n
    <3>3. IsDue(j, t)
      BY <2>1, <3>2 DEF IsDue
    <3>4. Paid(j) => ~(t - ranAt[j] <= SpendWindow)
      BY <1>a, <2>3, <3>2, ManifestTypes
    <3>5. Paid(j) => ~(RecordedCost(j, t) > 0)
      BY <2>1, <3>4 DEF RecordedCost
    <3> QED  BY <3>3, <3>5 DEF Repeats
  <2> QED  BY <2>5, <2>6
<1>3. ASSUME NEW c \in Cycles, Skip(c) PROVE Punctual(j)'
  <2>1. PICK k \in Jobs :
          /\ Considers(c, k) /\ NextJob(c)
          /\ \/ Stopped(k)
             \/ ~IsDue(k, cyc[c].start) /\ ~IsMissed(k, cyc[c].start)
             \/ IsDue(k, cyc[c].start) /\ Paid(k) /\ ~OverCeiling(c) /\ Repeats(c, k)
    BY <1>3 DEF Skip
  <2>2. UNCHANGED <<ranAt, disturbed, marker, streak>>
    BY <1>3 DEF Skip, disk, history
  <2>3. cyc[c].pc = "consider" /\ k = cyc[c].at
    BY <2>1 DEF Considers, Job
  <2>4. Punctual(j)
    BY <1>p, <2>2
  <2>5. Marked(j)'
    BY <1>m, <2>2, <2>3, <2>4 DEF Marked
  <2>6. CASE k = j
    <3>1. ~Stopped(j)
      BY <1>b, <2>2 DEF Stopped
    <3>2. ASSUME NEW first \in Nat, Room(j, ranAt[j], first), Awaited(j, first)
          PROVE  cyc[c].start < first
      BY <1>d, <2>1, <2>3, <2>4, <2>6, <3>1, <3>2
    <3> QED  BY <1>c, <1>h, <2>1, <2>2, <2>3, <2>4, <2>5, <3>2
  <2>7. CASE k # j
    BY <1>c, <1>o, <2>1, <2>2, <2>3, <2>4, <2>5, <2>7
  <2> QED  BY <2>6, <2>7
<1>4. ASSUME NEW c \in Cycles, SkipOverCeiling(c) PROVE Punctual(j)'
  <2>1. PICK k \in Jobs : /\ Considers(c, k) /\ NextJob(c)
                          /\ disturbed' = [disturbed EXCEPT ![k] = now]
    BY <1>4 DEF SkipOverCeiling
  <2>2. UNCHANGED <<ranAt, marker, streak>>
    BY <1>4 DEF SkipOverCeiling, disk
  <2>3. k # j
    BY <1>a, <1>b, <2>1, <2>2 DEF Clocked
  <2>4. disturbed'[j] = disturbed[j]
    BY <2>1, <2>3 DEF Clocked
  <2>5. cyc[c].pc = "consider" /\ k = cyc[c].at
    BY <2>1 DEF Considers, Job
  <2>6. Punctual(j)
    BY <1>p, <2>2, <2>4
  <2>7. Marked(j)'
    BY <1>m, <2>2, <2>5, <2>6 DEF Marked
  <2> QED  BY <1>c, <1>o, <2>1, <2>2, <2>3, <2>5, <2>6, <2>7
<1>5. ASSUME NEW c \in Cycles, Miss(c) PROVE Punctual(j)'
  <2>1. PICK k \in Jobs :
          /\ Considers(c, k) /\ NextJob(c) /\ IsMissed(k, cyc[c].start)
          /\ marker' = [marker EXCEPT ![k] = MissedMarker(k, cyc[c].start)]
    BY <1>5 DEF Miss
  <2>2. UNCHANGED <<ranAt, disturbed, streak>>
    BY <1>5 DEF Miss, history
  <2>3. cyc[c].pc = "consider" /\ k = cyc[c].at
    BY <2>1 DEF Considers, Job
  <2>4. Punctual(j)
    BY <1>p, <2>2
  <2>5. k # j
    <3>1. PICK first \in Nat : Room(j, ranAt[j], first)
      BY <1>a, <2>4 DEF RoomToRun, Punctual
    <3>2. Awaited(j, first)
      BY <2>4, <3>1 DEF Punctual
    <3> QED  BY <1>d, <2>1, <2>3, <2>4, <3>1, <3>2
  <2>6. marker'[j] = marker[j]
    BY <2>1, <2>5 DEF Types
  <2>7. Marked(j)'
    BY <1>m, <2>2, <2>3, <2>4, <2>6 DEF Marked
  <2> QED  BY <1>c, <1>o, <2>1, <2>2, <2>3, <2>4, <2>5, <2>7
<1>6. ASSUME NEW c \in Cycles, Decide(c) PROVE Punctual(j)'
  <2>1. cyc[c].pc = "consider" /\ UNCHANGED <<ranAt, disturbed, marker, streak>>
    BY <1>6 DEF Decide, Considers, disk, history
  <2>2. /\ cyc'[c].pc = "start" /\ cyc'[c].start = cyc[c].start
        /\ cyc'[c].at = cyc[c].at
    BY <1>6 DEF Decide, Types, CycleState
  <2>3. Punctual(j)
    BY <1>p, <2>1
  <2>4. Marked(j)'
    BY <1>m, <2>1, <2>3 DEF Marked
  <2> QED  BY <1>o, <2>1, <2>2, <2>3, <2>4 DEF Passed
<1>7. ASSUME NEW c \in Cycles, MarkStart(c) PROVE Punctual(j)'
  <2>1. cyc[c].pc = "start" /\ UNCHANGED <<ranAt, disturbed, streak>>
    BY <1>7 DEF MarkStart
  <2>2. /\ cyc'[c].pc = "run" /\ cyc'[c].start = cyc[c].start
        /\ cyc'[c].at = cyc[c].at
    BY <1>7 DEF MarkStart, Types, CycleState
  <2>3. Punctual(j)
    BY <1>p, <2>1
  <2>4. Job(c) # j => marker'[j] = marker[j]
    BY <1>7 DEF MarkStart, Types
  <2>5. Marked(j)'
    BY <1>m, <2>1, <2>2, <2>3, <2>4 DEF Marked, Job
  <2> QED  BY <1>o, <2>1, <2>2, <2>3, <2>5 DEF Passed
<1>8. ASSUME NEW c \in Cycles, MarkDone(c) PROVE Punctual(j)'
  <2>1. PICK ok \in BOOLEAN, cost \in {0, Manifests[Job(c)].cost} :
          /\ marker' = [marker EXCEPT ![Job(c)] =
                          [status |-> "done", last |-> cyc[c].start, cost |-> cost,
                           real |-> cyc[c].start]]
          /\ cyc' = [cyc EXCEPT ![c].pc = "record", ![c].ok = ok, ![c].cost = cost]
    BY <1>8 DEF MarkDone
  <2>2. /\ cyc[c].pc = "run" /\ UNCHANGED <<disturbed, streak>>
        /\ ranAt' = [ranAt EXCEPT ![Job(c)] = cyc[c].start]
    BY <1>8 DEF MarkDone
  <2>3. /\ cyc'[c].pc = "record" /\ cyc'[c].start = cyc[c].start
        /\ cyc'[c].at = cyc[c].at
    BY <2>1, Zenon DEF Types, CycleState
  <2>4. CASE Job(c) = j
    <3>1. ranAt'[j] = cyc[c].start
      BY <2>2, <2>4 DEF Types
    <3>2. InWindow(Manifests[j].window, ranAt'[j])
      BY <2>2, <2>4, <3>1 DEF Clocked
    <3>3. marker'[j].status = "done" /\ marker'[j].last = cyc[c].start
      BY <2>1, <2>4 DEF Types
    <3>4. Marked(j)'
      BY <3>1, <3>3 DEF Marked
    <3>5. ASSUME NEW first \in Nat, Room(j, ranAt'[j], first) PROVE Awaited(j, first)'
      <4>1. cyc[c].start < first
        BY <3>1, <3>5 DEF Room
      <4> QED  BY <1>0, <1>a, <2>3, <4>1 DEF Awaited, n
    <3> QED  BY <3>2, <3>4, <3>5, PunctualNext
  <2>5. CASE Job(c) # j
    <3>1. ranAt'[j] = ranAt[j] /\ marker'[j] = marker[j]
      BY <2>1, <2>2, <2>5 DEF Types
    <3>2. Punctual(j)
      BY <1>p, <2>2, <3>1
    <3>3. Marked(j)'
      BY <1>m, <2>5, <3>1, <3>2 DEF Marked
    <3> QED  BY <1>o, <2>2, <2>3, <2>5, <3>1, <3>2, <3>3 DEF Passed, Job
  <2> QED  BY <2>4, <2>5
<1>9. ASSUME NEW c \in Cycles, Record(c) PROVE Punctual(j)'
  <2>1. cyc[c].pc = "record" /\ UNCHANGED <<ranAt, disturbed, marker>>
    BY <1>9 DEF Record
  <2>2. /\ cyc'[c].pc = "consider" /\ cyc'[c].start = cyc[c].start
        /\ cyc'[c].at = cyc[c].at + 1
    BY <1>9, Zenon DEF Record, Types, CycleState
  <2>3. streak'[j] = streak[j] \/ ~(streak[j] >= StopAt)
    <3>1. CASE Job(c) = j
      BY <2>1, <3>1, ManifestTypes DEF Ladder, Busy, Types
    <3>2. CASE Job(c) # j
      BY <1>9, <3>2 DEF Record, Types
    <3> QED  BY <3>1, <3>2
  <2>4. Punctual(j)
    BY <1>p, <2>1, <2>3
  <2>5. Marked(j)'
    BY <1>m, <2>1, <2>4 DEF Marked
  <2>6. Passed(c, j)' => Passed(c, j)
    BY <1>a, <2>1, <2>2 DEF Passed
  <2> QED  BY <1>o, <2>1, <2>2, <2>4, <2>5, <2>6
<1>10. ASSUME NEW c \in Cycles, End(c) PROVE Punctual(j)'
  <2>1. /\ cyc[c].pc = "consider" /\ Job(c) \notin Jobs /\ cyc'[c].pc = "off"
        /\ UNCHANGED <<now, beat, ranAt, disturbed, marker, streak>>
    BY <1>10 DEF End, Types, Off, disk, history
  <2>2. Punctual(j)
    BY <1>p, <2>1
  <2>3. Marked(j)'
    BY <1>m, <2>1, <2>2 DEF Marked
  <2>4. /\ cyc[c].at = n + 1 /\ now <= cyc[c].start + Elapsed(c)
        /\ beat => cyc[c].start = now
    BY <1>a, <2>1, JobsAreNumbered DEF Clocked, Job, n
  <2>5. now <= cyc[c].start + n /\ Passed(c, j)
    BY <1>a, <2>1, <2>4 DEF Elapsed, Passed
  <2>6. ASSUME NEW first \in Nat, Awaited(j, first) PROVE Awaited(j, first)'
    <3>1. cyc[c].start < first
      BY <2>1, <2>5, <2>6 DEF Awaited
    <3>2. now < first + n /\ (beat => now < first)
      BY <1>a, <2>4, <2>5, <3>1
    <3> QED  BY <1>0, <2>1, <3>2 DEF Awaited, n
  <2> QED  BY <1>q, <2>1, <2>2, <2>3, <2>6
<1>11. ASSUME NEW c \in Cycles, Kill(c) PROVE Punctual(j)'
  <2>1. disturbed'[j] = now /\ ranAt' = ranAt
    BY <1>11 DEF Kill
  <2> QED  BY <1>a, <1>b, <2>1
<1>12. ASSUME NEW k \in Jobs, Clear(k) PROVE Punctual(j)'
  <2>1. /\ UNCHANGED <<now, cyc, ranAt, marker, beat>>
        /\ streak' = [streak EXCEPT ![k] = 0] /\ disturbed' = [disturbed EXCEPT ![k] = now]
    BY <1>12 DEF Clear, cycles
  <2>2. k # j
    BY <1>a, <1>b, <2>1 DEF Clocked
  <2>3. streak'[j] = streak[j] /\ disturbed'[j] = disturbed[j]
    BY <2>1, <2>2 DEF Types, Clocked
  <2>4. Punctual(j)
    BY <1>p, <2>1, <2>3
  <2>5. Marked(j)' /\ \A first \in Nat : Awaited(j, first) => Awaited(j, first)'
    BY <2>1, <2>4 DEF Punctual, Marked, Awaited, Passed, Job
  <2> QED  BY <1>q, <2>1, <2>4, <2>5
<1>13. CASE UNCHANGED vars
  <2>1. UNCHANGED <<now, cyc, ranAt, disturbed, marker, streak, beat>>
    BY <1>13 DEF vars, disk, cycles, history
  <2>2. Punctual(j)
    BY <1>p, <2>1
  <2>3. Marked(j)' /\ \A first \in Nat : Awaited(j, first) => Awaited(j, first)'
    BY <2>1, <2>2 DEF Punctual, Marked, Awaited, Passed, Job
  <2> QED  BY <1>q, <2>1, <2>2, <2>3
<1> QED
  BY <1>1, <1>2, <1>3, <1>4, <1>5, <1>6, <1>7, <1>8, <1>9, <1>10, <1>11, <1>12, <1>13
  DEF Next, Cycle

LEMMA MaxOfTwo == ASSUME NEW a \in Int, NEW b \in Int
                  PROVE  Max({a, b}) \in {a, b} /\ Max({a, b}) >= a /\ Max({a, b}) >= b
<1> DEFINE m == IF a >= b THEN a ELSE b
<1>1. m \in {a, b} /\ \A y \in {a, b} : m >= y
  OBVIOUS
<1>2. \E x \in {a, b} : \A y \in {a, b} : x >= y
  BY <1>1
<1>3. Max({a, b}) \in {a, b} /\ \A y \in {a, b} : Max({a, b}) >= y
  BY <1>2, Zenon DEF Max
<1> QED  BY <1>3

LEMMA WaitTypes ==
  ASSUME NEW j \in Jobs
  PROVE  Wait(j) \in Nat /\ Wait(j) >= Manifests[j].interval /\ Wait(j) >= 1
         /\ (Paid(j) => Wait(j) > SpendWindow)
<1> DEFINE a == Manifests[j].interval
           b == IF Paid(j) THEN SpendWindow + 1 ELSE 1
<1>1. /\ a \in Nat /\ b \in Nat /\ a \in Int /\ b \in Int /\ SpendWindow \in Nat
      /\ b >= 1 /\ (Paid(j) => b > SpendWindow)
  BY ManifestTypes
<1>2. Wait(j) = Max({a, b})
  BY DEF Wait
<1> HIDE DEF a, b
<1>3. Wait(j) \in {a, b} /\ Wait(j) >= a /\ Wait(j) >= b
  BY <1>1, <1>2, MaxOfTwo
<1>4. Wait(j) \in Nat /\ Wait(j) >= a /\ Wait(j) >= 1 /\ (Paid(j) => Wait(j) > SpendWindow)
  BY <1>1, <1>3
<1> QED  BY <1>4 DEF a

LEMMA TimelyIsOnTime == RoomToRun /\ Sorted /\ Clocked /\ Timely => RunsOnTime
<1> SUFFICES ASSUME RoomToRun, Sorted, Clocked, Timely,
                    NEW j \in Jobs, ranAt[j] > disturbed[j], ~Stopped(j)
             PROVE  now - ranAt[j] < Wait(j) + 2 * Len(Manifests)
  BY DEF RunsOnTime
<1> DEFINE n == Len(Manifests)
<1>1. /\ now \in Nat /\ ranAt[j] \in Nat /\ disturbed[j] \in Nat /\ Wait(j) \in Nat
      /\ n \in Nat /\ j \in 1..n
  BY JobsAreNumbered, WaitTypes DEF Sorted, Types, Clocked
<1>2. Punctual(j)
  BY <1>1 DEF Timely, Held
<1>3. PICK first \in Nat : Room(j, ranAt[j], first)
  BY <1>1, <1>2 DEF RoomToRun, Punctual
<1>4. Awaited(j, first) /\ first <= ranAt[j] + Wait(j)
  BY <1>2, <1>3 DEF Punctual, Room
<1>5. CASE \A c \in Cycles : cyc[c].pc = "off"
  <2>1. now < first + n
    BY <1>4, <1>5 DEF Awaited
  <2> QED  BY <1>1, <1>4, <2>1
<1>6. CASE \E c \in Cycles : cyc[c].pc # "off"
  <2>1. PICK c \in Cycles : cyc[c].pc # "off"
    BY <1>6
  <2>2. cyc[c].start \in Nat /\ cyc[c].at \in Nat /\ cyc[c].start < first + n
    BY <1>4, <2>1 DEF Awaited, Sorted, Types, CycleState
  <2>3. now <= cyc[c].start + Elapsed(c) /\ cyc[c].at \in 1..n + 1
    BY <2>1 DEF Clocked
  <2>4. Busy(c) => cyc[c].at <= n
    BY <1>1, JobsAreNumbered DEF Sorted, Placed, Job
  <2>5. Elapsed(c) \in Nat /\ Elapsed(c) <= n
    BY <1>1, <2>2, <2>3, <2>4 DEF Elapsed, Busy
  <2> HIDE DEF n
  <2>6. now < first + n + n
    BY <1>1, <2>2, <2>3, <2>5
  <2> QED  BY <1>1, <1>4, <2>6 DEF n
<1> QED  BY <1>5, <1>6

-----------------------------------------------------------------------------
(* The manifests that have room.                                           *)

WindowLength(w) == (w.to - w.from) % Day

\* The manifests under templates/jobs/ are of two kinds.  Without a window, the
\* interval and the lookback cover the wait and a cycle's commands.  With one, the
\* interval is a number of days, the window and the lookback are as long as a
\* cycle's commands, and what was spent in one window does not count in the next.
Regular(j) ==
  LET i == Manifests[j].interval
      l == Manifests[j].lookback
      w == Manifests[j].window
  IN \/ w = NoWindow /\ i + l >= Wait(j) + Len(Manifests) - 1
     \/ /\ w # NoWindow
        /\ \E days \in Nat : days > 0 /\ i = days * Day
        /\ WindowLength(w) >= Len(Manifests) /\ l >= Len(Manifests) - 1
        /\ Paid(j) => SpendWindow <= i - WindowLength(w)

LEMMA DivMod ==
  ASSUME NEW a \in Int, NEW d \in Nat, d > 0
  PROVE  /\ a % d \in 0..d - 1
         /\ \E q \in Int : a = (q * d) + (a % d)
<1>1. a % d \in 0..d - 1 /\ a \div d \in Int
  OBVIOUS
<1>2. a = (d * (a \div d)) + (a % d)
  OBVIOUS
<1>3. d * (a \div d) = (a \div d) * d
  BY <1>1
<1> QED  BY <1>1, <1>2, <1>3

LEMMA ModUnique ==
  ASSUME NEW a \in Int, NEW d \in Nat, d > 0, NEW q \in Int, NEW m \in 0..d - 1,
         a = (q * d) + m
  PROVE  a % d = m
OBVIOUS

\* a time is in a window when it is less than the window's length past an opening
LEMMA WindowIsItsLength ==
  ASSUME NEW w \in [from : 0..Day - 1, to : 0..Day - 1], w # NoWindow, NEW t \in Int
  PROVE  InWindow(w, t) <=> (t - w.from) % Day < WindowLength(w)
<1> DEFINE m == t % Day
           past == IF m >= w.from THEN m - w.from ELSE (m - w.from) + Day
           length == IF w.to >= w.from THEN w.to - w.from ELSE (w.to - w.from) + Day
<1>1. Day \in Nat /\ Day > 0 /\ w.from \in 0..Day - 1 /\ w.to \in 0..Day - 1
  BY ManifestTypes
<1>2. PICK q \in Int : t = (q * Day) + m
  BY <1>1, DivMod
<1>3. m \in 0..Day - 1 /\ t - w.from \in Int /\ q - 1 \in Int
  BY <1>1, DivMod
<1>4. (t - w.from) % Day = past
  <2>1. past \in 0..Day - 1
    BY <1>1, <1>3
  <2>2. CASE m >= w.from
    <3>1. t - w.from = (q * Day) + past
      BY <1>1, <1>2, <1>3, <2>2
    <3> HIDE DEF past
    <3> QED  BY <1>1, <1>3, <2>1, <3>1, ModUnique
  <2>3. CASE m < w.from
    <3>1. t - w.from = ((q - 1) * Day) + past
      BY <1>1, <1>2, <1>3, <2>3
    <3> HIDE DEF past
    <3> QED  BY <1>1, <1>3, <2>1, <3>1, ModUnique
  <2> QED  BY <1>1, <1>3, <2>2, <2>3
<1>5. WindowLength(w) = length
  <2>1. length \in 0..Day - 1
    BY <1>1
  <2>2. CASE w.to >= w.from
    <3>1. w.to - w.from = (0 * Day) + length
      BY <1>1, <2>2
    <3> QED  BY <1>1, <2>1, <3>1, ModUnique DEF WindowLength
  <2>3. CASE w.to < w.from
    <3>1. w.to - w.from = ((0 - 1) * Day) + length
      BY <1>1, <2>3
    <3> QED  BY <1>1, <2>1, <3>1, ModUnique DEF WindowLength
  <2> QED  BY <1>1, <2>2, <2>3
<1>6. InWindow(w, t) <=> \/ w.from < w.to /\ m \in w.from..w.to - 1
                         \/ w.from > w.to /\ m \notin w.to..w.from - 1
  BY DEF InWindow
<1> HIDE DEF m
<1> QED  BY <1>1, <1>3, <1>4, <1>5, <1>6

LEMMA WindowlessHasRoom ==
  ASSUME NEW j \in Jobs, Manifests[j].window = NoWindow,
         Manifests[j].interval + Manifests[j].lookback >= Wait(j) + Len(Manifests) - 1,
         NEW last \in Nat
  PROVE  \E first \in Nat : Room(j, last, first)
<1> DEFINE first == last + Wait(j)
           i == Manifests[j].interval
           l == Manifests[j].lookback
           n == Len(Manifests)
<1>1. /\ i \in Nat /\ l \in Nat /\ n \in Nat /\ SpendWindow \in Nat
      /\ Wait(j) \in Nat /\ Wait(j) >= i /\ Wait(j) >= 1
      /\ Paid(j) => Wait(j) > SpendWindow
  BY ManifestTypes, JobsAreNumbered, WaitTypes
<1>2. NextDue(j, last) = last + i
  BY DEF NextDue
<1>3. i + l >= Wait(j) + n - 1
  OBVIOUS
<1> HIDE DEF i, l, n
<1>4. ASSUME NEW t \in first..first + n - 1
      PROVE  last + i <= t /\ t <= last + i + l /\ (Paid(j) => t - last > SpendWindow)
  <2>1. t \in Int /\ last + Wait(j) <= t /\ t <= last + Wait(j) + n - 1
    BY <1>1
  <2> QED  BY <1>1, <1>3, <2>1
<1>5. \A t : InWindow(Manifests[j].window, t)
  BY DEF InWindow
<1>6. first \in Nat /\ last < first /\ first <= last + Wait(j)
  BY <1>1
<1>7. Room(j, last, first)
  BY <1>2, <1>4, <1>5, <1>6 DEF Room, i, l, n
<1> QED  BY <1>6, <1>7

LEMMA NightlyHasRoom ==
  ASSUME NEW j \in Jobs, Manifests[j].window # NoWindow,
         NEW days \in Nat, days > 0, Manifests[j].interval = days * Day,
         WindowLength(Manifests[j].window) >= Len(Manifests),
         Manifests[j].lookback >= Len(Manifests) - 1,
         Paid(j) => SpendWindow <= Manifests[j].interval - WindowLength(Manifests[j].window),
         NEW last \in Nat, InWindow(Manifests[j].window, last)
  PROVE  \E first \in Nat : Room(j, last, first)
<1> DEFINE i == Manifests[j].interval
           l == Manifests[j].lookback
           w == Manifests[j].window
           n == Len(Manifests)
           m == (last - w.from) % Day
           raw == last + i
           first == raw - m
<1>1. /\ i \in Nat /\ l \in Nat /\ n \in Nat /\ SpendWindow \in Nat
      /\ Wait(j) \in Nat /\ Wait(j) >= i /\ Day \in Nat /\ Day > 0
  BY ManifestTypes, JobsAreNumbered, WaitTypes
<1>2. w \in [from : 0..Day - 1, to : 0..Day - 1] /\ w.from \in Int
  <2>1. 0..Day - 1 \subseteq Int
    OBVIOUS
  <2> QED  BY <2>1, WindowTypes
<1>w. last - w.from \in Int /\ w.to - w.from \in Int /\ last \in Int
  BY <1>1, <1>2
<1>3. PICK q \in Int : last - w.from = (q * Day) + m
  BY <1>1, <1>w, DivMod
<1>4. m \in 0..Day - 1 /\ m < WindowLength(w)
  <2>1. m \in 0..Day - 1
    BY <1>1, <1>w, DivMod
  <2>2. m < WindowLength(w)
    BY <1>2, <1>w, WindowIsItsLength
  <2> QED  BY <2>1, <2>2
<1>5. WindowLength(w) \in 0..Day - 1
  <2>1. (w.to - w.from) % Day \in 0..Day - 1
    BY <1>1, <1>w, DivMod
  <2> QED  BY <2>1 DEF WindowLength
<1>6. i = days * Day /\ i >= Day
  <2>1. i = days * Day
    OBVIOUS
  <2>2. (days - 1) * Day >= 0
    BY <1>1
  <2> QED  BY <1>1, <2>1, <2>2
<1>8. /\ raw \in Nat /\ first \in Nat /\ last < first /\ first <= last + i
      /\ raw = first + m /\ first = last + i - m /\ raw - m = first
  <2> HIDE DEF m
  <2> QED  BY <1>1, <1>4, <1>5, <1>6
<1>r. raw = last + i
  OBVIOUS
<1> HIDE DEF m, first, raw
\* the window of the day that is `days` later
<1>7. ASSUME NEW t \in Int, NEW k \in 0..Day - 1, t = first + k
      PROVE  (t - w.from) % Day = k
  <2> DEFINE a == t - w.from
  <2>1. PICK before \in Int, after \in Int : before = q * Day /\ after = days * Day
    BY <1>1
  <2>2. (q + days) * Day = before + after /\ q + days \in Int
    BY <1>1, <2>1
  <2>3. last - w.from = before + m /\ i = after
    BY <1>3, <1>6, <2>1
  <2>4. a = t - w.from
    OBVIOUS
  <2> HIDE DEF a, i
  <2>5. a = ((q + days) * Day) + k /\ a \in Int
    <3>1. w.from \in Int /\ m \in Int /\ first \in Int /\ k \in Int /\ last \in Int
      BY <1>2, <1>4, <1>8
    <3>2. first = (last + i) - m /\ i \in Int
      BY <1>1, <1>8, <3>1
    <3> HIDE DEF w
    <3>3. a = (before + after) + k /\ a \in Int
      BY <1>7, <2>3, <2>4, <3>1, <3>2
    <3> QED  BY <2>2, <3>3
  <2>6. a % Day = k
    BY <1>1, <2>2, <2>5, ModUnique
  <2> QED  BY <2>6 DEF a
<1>9. (raw - w.from) % Day = m
  BY <1>4, <1>7, <1>8
<1>10. InWindow(w, raw)
  BY <1>2, <1>4, <1>8, <1>9, WindowIsItsLength
<1>11. NextDue(j, last) = first
  <2>1. Opening(w, raw) = first
    BY <1>8, <1>9 DEF Opening
  <2>2. ~(i < Day)
    BY <1>1, <1>6
  <2> QED  BY <1>10, <1>r, <2>1, <2>2 DEF NextDue
<1>12. ASSUME NEW t \in first..first + n - 1
       PROVE  /\ InWindow(w, t) /\ first <= t /\ t <= first + l
              /\ Paid(j) => t - last > SpendWindow
  <2> DEFINE k == t - first
  <2>1. k \in 0..n - 1 /\ t = first + k
    BY <1>1, <1>8
  <2> HIDE DEF k
  <2>2. n <= WindowLength(w) /\ n - 1 <= l
    OBVIOUS
  <2>3. k \in 0..Day - 1 /\ k < WindowLength(w)
    BY <1>1, <1>5, <2>1, <2>2
  <2>4. InWindow(w, t)
    <3>1. t \in Int
      BY <1>8
    <3>2. (t - w.from) % Day = k
      BY <1>7, <2>1, <2>3, <3>1
    <3> QED  BY <1>2, <2>3, <3>1, <3>2, WindowIsItsLength
  <2>5. first <= t /\ t <= first + l
    <3> HIDE DEF l, n
    <3> QED  BY <1>1, <1>8, <2>1, <2>2
  <2>6. Paid(j) => t - last > SpendWindow
    <3>1. Paid(j) => SpendWindow <= i - WindowLength(w)
      OBVIOUS
    <3> HIDE DEF i
    <3> QED  BY <1>1, <1>4, <1>5, <1>8, <2>1, <3>1
  <2> QED  BY <2>4, <2>5, <2>6
<1>13. first <= last + Wait(j)
  BY <1>1, <1>8
<1>14. Room(j, last, first)
  BY <1>8, <1>11, <1>12, <1>13 DEF Room
<1> QED  BY <1>8, <1>14

LEMMA RegularHasRoom == (\A j \in Jobs : Regular(j)) => RoomToRun
<1> SUFFICES ASSUME NEW j \in Jobs, Regular(j), NEW last \in Nat,
                    InWindow(Manifests[j].window, last)
             PROVE  \E first \in Nat : Room(j, last, first)
  BY DEF RoomToRun
<1>1. CASE Manifests[j].window = NoWindow
  BY <1>1, WindowlessHasRoom DEF Regular
<1>2. CASE Manifests[j].window # NoWindow
  <2>1. PICK days \in Nat : days > 0 /\ Manifests[j].interval = days * Day
    BY <1>2 DEF Regular
  <2> QED  BY <1>2, <2>1, NightlyHasRoom DEF Regular
<1> QED  BY <1>1, <1>2

\* cycle.py:151-158 and :270-287: with one cycle at a time and manifests of the two
\* kinds the repository has, a job that nothing disturbs runs again as soon as it
\* may, but for the commands of two cycles, night after night.
THEOREM NightsDoNotDrift ==
  ASSUME OneCycle, \A j \in Jobs : Regular(j)
  PROVE  Spec => []RunsOnTime
<1>1. RoomToRun
  BY RegularHasRoom
<1>2. Sorted /\ Clocked /\ [Next]_vars => Clocked'
  BY NextClocked
<1>3. Sorted /\ Ladder /\ Clocked /\ Timely /\ [Next]_vars => Timely'
  BY <1>1, NextTimely
<1>4. Sorted /\ Clocked /\ Timely => RunsOnTime
  BY <1>1, TimelyIsOnTime
<1> QED  BY <1>2, <1>3, <1>4, InitTimely, AlwaysLadder, PTL DEF Spec

=============================================================================
