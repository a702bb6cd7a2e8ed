------------------------ MODULE ChildSupervisorProofs ------------------------
(* What the supervisor of a model child guarantees, for any number of      *)
(* concurrent requests, any threshold and any number of faults.            *)
EXTENDS ChildSupervisor, FiniteSetTheorems, TLAPS

\* Whoever could be killed is the child in service, or the one that was in
\* service when the supervisor was closed, and it is the one that is asked.
InService ==
  /\ loop = "serving" => killChild = last
  /\ killChild # None =>
       /\ killChild = last /\ client = last
       /\ loop = "serving" \/ (cancelled /\ loop = "done")

\* a caller that failed late has nothing more from the predecessor to come
LateOnce ==
  killChild # None =>
    \A c \in strays : at[c] \in {"asked", "answered", "failed"} => asked[c] = last

\* the count is never ahead of what the history holds against the child
CountIsFair == killChild # None => fails <= own + Cardinality(strays)

SupInv == TypeOK /\ NoOrphan /\ InService /\ LateOnce /\ CountIsFair /\ DegradedIsCondemned

LEMMA InitSupInv == Init => SupInv
<1> SUFFICES ASSUME Init PROVE SupInv
  OBVIOUS
<1> USE SupervisorAssumption DEF Init
<1>1. alive \subseteq {0} /\ up = alive /\ squatted \in BOOLEAN
  BY Zenon
<1>2. fails \in 0..(FailThreshold - 1) /\ backoff \in 0..MaxBackoff
  OBVIOUS
<1>3. client \in Nat \cup {None} /\ loop \in Running \cup {"done"}
      /\ state \in {"off", "starting", "warm", "degraded"}
  BY DEF Running
<1>4. TypeOK
  <2>1. alive \subseteq 0..last /\ up \subseteq alive /\ wedged \subseteq up
    BY <1>1
  <2>2. at \in [Callers -> {"idle", "asked", "answered", "failed", "kill"}]
        /\ asked \in [Callers -> Nat \cup {None}]
    OBVIOUS
  <2>3. served \in BOOLEAN /\ cancelled \in BOOLEAN
    OBVIOUS
  <2>4. last \in Nat /\ faults \in Nat /\ own \in Nat /\ strays \subseteq Callers
        /\ killChild \in Nat \cup {None}
    OBVIOUS
  <2> QED
    BY <1>1, <1>2, <1>3, <2>1, <2>2, <2>3, <2>4, Zenon DEF TypeOK
<1>5. NoOrphan /\ InService /\ LateOnce /\ CountIsFair /\ DegradedIsCondemned
  BY <1>1 DEF NoOrphan, InService, LateOnce, CountIsFair, DegradedIsCondemned
<1> QED
  BY <1>4, <1>5 DEF SupInv

\* what the end of a child leaves behind
LEMMA GoneTypes ==
  ASSUME TypeOK, NEW g, Gone(g)
  PROVE  /\ alive' \subseteq alive /\ up' \subseteq alive' /\ wedged' \subseteq up'
         /\ squatted' \in BOOLEAN
<1>1. squatted' \in BOOLEAN
  BY Zenon DEF Gone
<1> QED
  BY <1>1 DEF Gone, TypeOK

LEMMA StepTypeOK == TypeOK /\ [Next]_vars => TypeOK'
<1> SUFFICES ASSUME TypeOK, [Next]_vars PROVE TypeOK'
  OBVIOUS
<1> USE SupervisorAssumption
    DEF TypeOK, status, world, requests, goroutine, history, Goto, Return, Fault, Running
<1>1. CASE Load
  BY <1>1 DEF Load
<1>2. ASSUME NEW g \in alive, Wedge(g) \/ Die(g) PROVE TypeOK'
  <2>1. CASE Wedge(g)
    BY <2>1 DEF Wedge
  <2>2. CASE Die(g)
    <3>1. /\ alive' \subseteq alive /\ up' \subseteq alive' /\ wedged' \subseteq up'
          /\ squatted' \in BOOLEAN
      BY <2>2, GoneTypes DEF Die
    <3>2. faults' \in Nat
      BY <2>2 DEF Die
    <3> QED
      BY <2>2, <3>1, <3>2 DEF Die
  <2> QED
    BY <1>2, <2>1, <2>2
<1>3. CASE Exit \/ OtherLeaves
  <2>1. CASE Exit
    BY <2>1, GoneTypes DEF Exit
  <2>2. CASE OtherLeaves
    BY <2>2, GoneTypes DEF OtherLeaves
  <2> QED
    BY <1>3, <2>1, <2>2
<1>4. CASE Close
  BY <1>4 DEF Close
<1>5. CASE Spawn
  <2>1. faults' = faults \/ faults' = faults + 1
    BY <1>5, Zenon DEF Spawn
  <2>2. \/ last' = last + 1 /\ alive' = alive \cup {last + 1}
        \/ last' = last /\ alive' = alive
    BY <1>5, Zenon DEF Spawn
  <2>3. last' \in Nat /\ alive' \subseteq 0..last' /\ alive \subseteq alive' /\ faults' \in Nat
    <3>1. last' \in Nat /\ faults' \in Nat /\ alive \subseteq alive'
      BY <2>1, <2>2
    <3>2. ASSUME NEW g \in alive' PROVE g \in 0..last'
      <4>1. g \in 0..last \/ g = last'
        BY <2>2
      <4> QED
        BY <4>1, <2>2
    <3> QED
      BY <3>1, <3>2
  <2>4. loop' \in Running /\ served' \in BOOLEAN
    BY <1>5, Zenon DEF Spawn
  <2> QED
    BY <1>5, <2>3, <2>4 DEF Spawn
<1>6. CASE Healthy
  BY <1>6 DEF Healthy
<1>7. CASE GiveUpLoading
  <2>1. faults' = faults \/ faults' = faults + 1
    BY <1>7, Zenon DEF GiveUpLoading
  <2>2. faults' \in Nat
    BY <2>1
  <2> QED
    BY <1>7, <2>2, GoneTypes DEF GiveUpLoading, Reap
<1>8. CASE Warm
  BY <1>8 DEF Warm, SetWarm
<1>9. CASE NoticeExit \/ StopServing \/ Stop
  BY <1>9, GoneTypes DEF NoticeExit, StopServing, Stop, ForgetChild, Reap
<1>10. CASE Retry \/ BackoffOver
  <2>1. backoff' \in 0..MaxBackoff
    <3>1. CASE Retry
      <4>1. NextDelay \in 0..MaxBackoff
        <5>1. 0 \in 0..MaxBackoff
          OBVIOUS
        <5> QED
          BY <5>1, Zenon DEF NextDelay
      <4> QED
        BY <3>1, <4>1 DEF Retry
    <3>2. CASE BackoffOver
      BY <3>2 DEF BackoffOver
    <3> QED
      BY <1>10, <3>1, <3>2
  <2> QED
    BY <1>10, <2>1 DEF Retry, BackoffOver
<1>11. ASSUME NEW c \in Callers, Ask(c) PROVE TypeOK'
  BY <1>11 DEF Ask
<1>12. ASSUME NEW c \in Callers, Answer(c) PROVE TypeOK'
  <2>1. faults' = faults \/ faults' = faults + 1
    BY <1>12, Zenon DEF Answer
  <2>2. faults' \in Nat
    BY <2>1
  <2>4. /\ \E to \in {"idle", "answered", "failed"} : at' = [at EXCEPT ![c] = to]
        /\ asked' = asked \/ asked' = [asked EXCEPT ![c] = None]
    BY <1>12 DEF Answer
  <2>5. at' \in [Callers -> {"idle", "asked", "answered", "failed", "kill"}]
    BY <2>4
  <2>6. asked' \in [Callers -> Nat \cup {None}]
    BY <2>4
  <2> HIDE DEF Goto, Return, Fault
  <2> QED
    BY <1>12, <2>2, <2>5, <2>6 DEF Answer
<1>13. ASSUME NEW c \in Callers, RecordSuccess(c) PROVE TypeOK'
  BY <1>13 DEF RecordSuccess
<1>14. ASSUME NEW c \in Callers, RecordFailure(c) PROVE TypeOK'
  BY <1>14 DEF RecordFailure, Condemned
<1>15. ASSUME NEW c \in Callers, Kill(c) PROVE TypeOK'
  BY <1>15, GoneTypes DEF Kill
<1>16. CASE UNCHANGED vars
  BY <1>16 DEF vars
<1> QED
  BY <1>1, <1>2, <1>3, <1>4, <1>5, <1>6, <1>7, <1>8, <1>9, <1>10, <1>11, <1>12,
     <1>13, <1>14, <1>15, <1>16 DEF Next, Supervise, Request

\* a failure that is counted against a child adds one to what is held against it
LEMMA OneFailureMore ==
  ASSUME TypeOK, LateOnce, killChild # None, NEW c \in Callers, RecordFailure(c)
  PROVE  own' + Cardinality(strays') = own + Cardinality(strays) + 1
<1> USE DEF TypeOK
<1>1. IsFiniteSet(strays) /\ Cardinality(strays) \in Nat
  BY SupervisorAssumption, FS_Subset, FS_CardinalityType
<1>2. CASE asked[c] = last
  BY <1>1, <1>2 DEF RecordFailure
<1>3. CASE asked[c] # last
  <2>1. c \notin strays
    BY <1>3 DEF RecordFailure, LateOnce
  <2>2. Cardinality(strays \cup {c}) = Cardinality(strays) + 1
    BY <1>1, <2>1, FS_AddElement
  <2>3. own' = own /\ strays' = strays \cup {c}
    BY <1>3, Zenon DEF RecordFailure
  <2> QED
    BY <1>1, <2>2, <2>3
<1> QED
  BY <1>2, <1>3

LEMMA StepSupInv == SupInv /\ [Next]_vars => SupInv'
<1> SUFFICES ASSUME SupInv, [Next]_vars PROVE SupInv'
  OBVIOUS
<1>t. TypeOK'
  BY StepTypeOK DEF SupInv
<1> DEFINE Rest == NoOrphan /\ InService /\ LateOnce /\ CountIsFair /\ DegradedIsCondemned
<1> SUFFICES Rest'
  BY <1>t DEF SupInv
<1> USE SupervisorAssumption
    DEF SupInv, TypeOK, NoOrphan, InService, LateOnce, CountIsFair, DegradedIsCondemned,
        status, world, requests, goroutine, history, Goto, Return, Gone, Running
<1>1. CASE Load
  BY <1>1 DEF Load
<1>2. ASSUME NEW g \in alive, Wedge(g) \/ Die(g) PROVE Rest'
  BY <1>2 DEF Wedge, Die
<1>3. CASE Exit \/ OtherLeaves
  BY <1>3 DEF Exit, OtherLeaves
<1>4. CASE Close
  BY <1>4 DEF Close
<1>5. CASE Spawn
  <2>1. CASE last' = last
    BY <1>5, <2>1 DEF Spawn
  <2>2. CASE loop' = "loading" /\ last' = last + 1 /\ alive' = alive \cup {last + 1}
    BY <1>5, <2>2 DEF Spawn
  <2> QED
    BY <1>5, <2>1, <2>2 DEF Spawn
<1>6. CASE Healthy
  BY <1>6 DEF Healthy
<1>7. CASE GiveUpLoading
  BY <1>7 DEF GiveUpLoading, Reap
<1>8. CASE Warm
  BY <1>8, FS_EmptySet DEF Warm, SetWarm
<1>9. CASE NoticeExit \/ StopServing \/ Stop
  <2>1. CASE NoticeExit
    BY <2>1 DEF NoticeExit, ForgetChild
  <2>2. CASE StopServing
    BY <2>2 DEF StopServing, Reap
  <2>3. CASE Stop
    BY <2>3 DEF Stop
  <2> QED
    BY <1>9, <2>1, <2>2, <2>3
<1>10. CASE Retry \/ BackoffOver
  <2>1. CASE Retry
    BY <2>1 DEF Retry
  <2>2. CASE BackoffOver
    BY <2>2 DEF BackoffOver
  <2> QED
    BY <1>10, <2>1, <2>2
<1>11. ASSUME NEW c \in Callers, Ask(c) PROVE Rest'
  BY <1>11 DEF Ask
<1>12. ASSUME NEW c \in Callers, Answer(c) PROVE Rest'
  BY <1>12 DEF Answer
<1>13. ASSUME NEW c \in Callers, RecordSuccess(c) PROVE Rest'
  BY <1>13, FS_EmptySet DEF RecordSuccess
<1>14. ASSUME NEW c \in Callers, RecordFailure(c) PROVE Rest'
  <2>1. killChild # None =>
          /\ own' + Cardinality(strays') = own + Cardinality(strays) + 1
          /\ Cardinality(strays) \in Nat /\ Cardinality(strays') \in Nat
    BY <1>14, <1>t, OneFailureMore, SupervisorAssumption, FS_Subset, FS_CardinalityType
  <2>2. killChild' = killChild /\ (fails' = 0 \/ fails' = fails + 1)
    BY <1>14 DEF RecordFailure
  <2>3. CountIsFair'
    BY <2>1, <2>2, <1>t
  <2>4. LateOnce'
    BY <1>14 DEF RecordFailure
  <2>5. NoOrphan' /\ InService' /\ DegradedIsCondemned'
    BY <1>14 DEF RecordFailure
  <2> QED
    BY <2>3, <2>4, <2>5
<1>15. ASSUME NEW c \in Callers, Kill(c) PROVE Rest'
  BY <1>15 DEF Kill
<1>16. CASE UNCHANGED vars
  BY <1>16 DEF vars
<1> QED
  BY <1>1, <1>2, <1>3, <1>4, <1>5, <1>6, <1>7, <1>8, <1>9, <1>10, <1>11, <1>12,
     <1>13, <1>14, <1>15, <1>16 DEF Next, Supervise, Request

\* Types: in particular the count of failures never reaches the threshold.
THEOREM SupervisorTypes == Spec => []TypeOK
<1>1. SupInv => TypeOK
  BY DEF SupInv
<1> QED
  BY InitSupInv, StepSupInv, <1>1, PTL DEF Spec

\* No exit from runOnce leaves a model process behind.
THEOREM NoChildIsOrphaned == Spec => []NoOrphan
<1>1. SupInv => NoOrphan
  BY DEF SupInv
<1> QED
  BY InitSupInv, StepSupInv, <1>1, PTL DEF Spec

\* A child that serves under a degraded status is dead or about to be killed.
THEOREM DegradedChildIsCondemned == Spec => []DegradedIsCondemned
<1>1. SupInv => DegradedIsCondemned
  BY DEF SupInv
<1> QED
  BY InitSupInv, StepSupInv, <1>1, PTL DEF Spec

\* A request condemns only the child in service, which has failed, since it
\* became warm, FailThreshold requests of its own less one for each caller whose
\* request to the predecessor came back late.
THEOREM ChildIsCondemnedForCause == Spec => CondemnedForCause
<1> DEFINE Cause ==
      \A c \in Callers :
        at[c] = "failed" /\ at'[c] = "kill" /\ asked'[c] # None =>
          /\ own' + Cardinality(strays') >= FailThreshold
          /\ asked'[c] = last /\ (loop = "serving" \/ cancelled)
<1>1. SupInv /\ [Next]_vars => [Cause]_vars
  <2> SUFFICES ASSUME SupInv, Next, NEW c \in Callers,
                      at[c] = "failed", at'[c] = "kill", asked'[c] # None
               PROVE  /\ own' + Cardinality(strays') >= FailThreshold
                      /\ asked'[c] = last /\ (loop = "serving" \/ cancelled)
    OBVIOUS
  <2>1. at' # at
    OBVIOUS
  <2>2. PICK d \in Callers : Request(d)
    BY <2>1 DEF Next, Supervise, Load, Exit, OtherLeaves, Wedge, Die, Close, Spawn, Healthy,
         GiveUpLoading, Warm, NoticeExit, StopServing, Retry, BackoffOver, Stop, requests
  <2> USE DEF SupInv, TypeOK
  <2>3. d = c
    BY <2>2 DEF Request, Ask, Answer, RecordSuccess, RecordFailure, Kill, Goto, Return
  <2>4. RecordFailure(c)
    BY <2>2, <2>3 DEF Request, Ask, Answer, RecordSuccess, RecordFailure, Kill, Goto, Return
  <2>5. Condemned(fails + 1) /\ asked'[c] = killChild
    BY <2>4 DEF RecordFailure, Return
  <2>6. own' + Cardinality(strays') = own + Cardinality(strays) + 1
    BY <2>4, <2>5, OneFailureMore DEF InService
  <2>7. fails <= own + Cardinality(strays) /\ Cardinality(strays) \in Nat
    BY <2>5, SupervisorAssumption, FS_Subset, FS_CardinalityType DEF CountIsFair
  <2>8. own' + Cardinality(strays') >= FailThreshold
    BY <2>5, <2>6, <2>7, SupervisorAssumption DEF Condemned
  <2> QED
    BY <2>5, <2>8 DEF InService
<1> QED
  BY InitSupInv, StepSupInv, <1>1, PTL DEF Spec, CondemnedForCause

=============================================================================
