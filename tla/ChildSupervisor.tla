--------------------------- MODULE ChildSupervisor ---------------------------
(***************************************************************************)
(* The supervisor of one llama-server child, daemon/internal/embed/        *)
(* supervisor.go and daemon/internal/rerank/supervisor.go (the same loop   *)
(* over another endpoint): one goroutine spawns the child, waits for       *)
(* /health, and restarts it with backoff; the search requests read the     *)
(* client under a lock, ask the child without it, and come back to count   *)
(* what it answered, condemning the child after a run of failures.         *)
(*                                                                         *)
(* Children are numbered in the order they are spawned.  Child 0 is a      *)
(* server someone else runs: the one Attach points at, or one that sits on *)
(* the fixed port `serve` passes (Options.Port), which answers whatever    *)
(* asks that port.                                                         *)
(***************************************************************************)
EXTENDS Integers, FiniteSets

CONSTANTS Callers,        \* concurrent requests
          None,
          FailThreshold,  \* consecutive failures that condemn a child
          MaxBackoff,     \* how many doublings take one second to one minute
          MaxFaults       \* BOUND: faults of children, ports and callers

ASSUME SupervisorAssumption ==
  /\ IsFiniteSet(Callers)
  /\ None \notin Nat
  /\ FailThreshold \in Nat \ {0}
  /\ MaxBackoff \in Nat
  /\ MaxFaults \in Nat

VARIABLES loop,       \* where the supervise goroutine is
          served,     \* what the last runOnce returned
          backoff,    \* doublings of the delay
          cancelled,  \* Close was called
          state,      \* what the status surface reports
          client,     \* the child requests go to, None without one
          killChild,  \* the child recordFailure would kill
          fails,      \* consecutive failed requests
          last,       \* the youngest child
          alive,      \* the children that run
          up,         \* those that answer /health
          wedged,     \* those that answer /health and fail every request
          squatted,   \* child 0 sits on the port the supervisor uses
          at, asked,  \* where each request is, and the child it asked
          faults,     \* faults so far
          own,        \* history, since the child became warm and the last success:
              \* failures of requests that were sent to it,
  strays      \* and the callers that failed late with its predecessor

status == <<state, client, killChild, fails>>
world == <<alive, up, wedged, squatted, faults>>
requests == <<at, asked>>
goroutine == <<loop, served, backoff, last>>
history == <<own, strays>>
vars == <<goroutine, cancelled, status, world, requests, history>>

Running == {"spawn", "loading", "warming", "serving", "exited", "backoff"}

\* New with a model and a binary; New without one of them; Attach
Init ==
  /\ \/ loop = "spawn" /\ state = "starting" /\ client = None /\ squatted \in BOOLEAN
     \/ loop = "done" /\ state \in {"off", "degraded"} /\ client = None /\ squatted = FALSE
     \/ loop = "done" /\ state = "warm" /\ client = 0 /\ squatted = TRUE
  /\ alive = IF squatted THEN {0} ELSE {}
  /\ up = alive /\ wedged = {}
  /\ served = FALSE /\ backoff = 0 /\ cancelled = FALSE
  /\ killChild = None /\ fails = 0 /\ last = 0
  /\ at = [c \in Callers |-> "idle"] /\ asked = [c \in Callers |-> None]
  /\ faults = 0 /\ own = 0 /\ strays = {}

Goto(c, to) == at' = [at EXCEPT ![c] = to] /\ UNCHANGED asked
Return(c) == at' = [at EXCEPT ![c] = "idle"] /\ asked' = [asked EXCEPT ![c] = None]
Fault == faults < MaxFaults /\ faults' = faults + 1

\* the server that answers on the port of child g
Server(g) == IF squatted THEN 0 ELSE g

-----------------------------------------------------------------------------
(* The children.                                                           *)

\* the weights of the youngest child have loaded; it needs the port to itself
Load ==
  /\ last \in alive \ up /\ ~squatted
  /\ up' = up \cup {last}
  /\ UNCHANGED <<alive, wedged, squatted, faults, goroutine, cancelled, status, requests, history>>

\* a bad decode poisons the process: /health stays ok, every request fails
Wedge(g) ==
  /\ g \in up \ wedged /\ Fault
  /\ wedged' = wedged \cup {g}
  /\ UNCHANGED <<alive, up, squatted, goroutine, cancelled, status, requests, history>>

Gone(g) ==
  /\ alive' = alive \ {g} /\ up' = up \ {g} /\ wedged' = wedged \ {g}
  /\ squatted' = (squatted /\ g # 0)

Die(g) ==
  /\ g \in alive /\ Fault /\ Gone(g)
  /\ UNCHANGED <<goroutine, cancelled, status, requests, history>>

\* a child that cannot bind its port exits by itself, and exec.CommandContext
\* kills the child of a cancelled context
Exit ==
  /\ last # 0 /\ last \in alive /\ (squatted \/ cancelled)
  /\ Gone(last)
  /\ UNCHANGED <<faults, goroutine, cancelled, status, requests, history>>

\* the server that holds the fixed port is stopped
OtherLeaves ==
  /\ squatted /\ loop # "done" /\ Gone(0)
  /\ UNCHANGED <<faults, goroutine, cancelled, status, requests, history>>

-----------------------------------------------------------------------------
(* The supervise goroutine.                                                *)

Close ==
  /\ ~cancelled /\ loop \in Running
  /\ cancelled' = TRUE
  /\ UNCHANGED <<goroutine, status, world, requests, history>>

\* a port, then the process; a child on a port that is taken costs a fault, so
\* that its respawns are bounded
Spawn ==
  /\ loop = "spawn" /\ ~cancelled
  /\ \/ /\ loop' = "loading" /\ last' = last + 1 /\ alive' = alive \cup {last + 1}
        /\ IF squatted THEN Fault ELSE UNCHANGED faults
        /\ UNCHANGED served
     \/ loop' = "exited" /\ served' = FALSE /\ Fault /\ UNCHANGED <<last, alive>>
  /\ UNCHANGED <<backoff, cancelled, status, up, wedged, squatted, requests, history>>

\* whatever answers on the port: nobody looks at the process itself
Healthy ==
  /\ loop = "loading" /\ ~cancelled
  /\ Server(last) \in up
  /\ loop' = "warming"
  /\ UNCHANGED <<served, backoff, last, cancelled, status, world, requests, history>>

\* (mutant) the child that did not become healthy is left running
AbandonedLoad == UNCHANGED <<alive, up, wedged, squatted>>

\* the deferred reap
Reap == Gone(last)

\* three minutes without an answer from /health, or the context's end
GiveUpLoading ==
  /\ loop = "loading"
  /\ \/ cancelled /\ loop' = "done" /\ UNCHANGED faults
     \/ ~cancelled /\ loop' = "exited"
        /\ IF last \in alive /\ ~squatted THEN Fault ELSE UNCHANGED faults
  /\ served' = FALSE
  /\ Reap
  /\ UNCHANGED <<backoff, last, cancelled, status, requests, history>>

\* (mutant) the failures of the last child are held against this one
WarmKeepsCount ==
  state' = "warm" /\ client' = last /\ killChild' = last /\ fails' = fails

\* (mutant) nothing to kill the child with
WarmCannotKill ==
  state' = "warm" /\ client' = last /\ killChild' = None /\ fails' = 0

SetWarm ==
  state' = "warm" /\ client' = last /\ killChild' = last /\ fails' = 0

Warm ==
  /\ loop = "warming"
  /\ SetWarm
  /\ loop' = "serving" /\ served' = TRUE
  /\ own' = 0 /\ strays' = {}
  /\ UNCHANGED <<backoff, last, cancelled, world, requests>>

ForgetChild == client' = None /\ killChild' = None

\* the waiter reports the exit of the child
NoticeExit ==
  /\ loop = "serving" /\ last \notin alive
  /\ loop' = IF cancelled THEN "done" ELSE "exited"
  /\ ForgetChild
  /\ UNCHANGED <<served, backoff, last, cancelled, state, fails, world, requests, history>>

\* the context ends while the child serves: reaped, and the status stays as it is
StopServing ==
  /\ loop = "serving" /\ cancelled
  /\ loop' = "done" /\ Reap
  /\ UNCHANGED <<served, backoff, last, cancelled, status, faults, requests, history>>

\* the delay starts over once a child was healthy, whatever it did after that
NextDelay == IF served THEN 0 ELSE backoff

Retry ==
  /\ loop = "exited" /\ ~cancelled
  /\ loop' = "backoff" /\ backoff' = NextDelay
  /\ state' = "degraded"
  /\ UNCHANGED <<served, last, cancelled, client, killChild, fails, world, requests, history>>

BackoffOver ==
  /\ loop = "backoff" /\ ~cancelled
  /\ loop' = "spawn"
  /\ backoff' = IF backoff < MaxBackoff THEN backoff + 1 ELSE backoff
  /\ UNCHANGED <<served, last, cancelled, status, world, requests, history>>

\* ctx.Err() at the top of the loop, after runOnce, or in the backoff
Stop ==
  /\ loop \in {"spawn", "exited", "backoff"} /\ cancelled
  /\ loop' = "done"
  /\ UNCHANGED <<served, backoff, last, cancelled, status, world, requests, history>>

-----------------------------------------------------------------------------
(* A request.                                                              *)

\* without a warm child: ErrUnavailable, and nothing changes
Ask(c) ==
  /\ at[c] = "idle" /\ client # None /\ state = "warm"
  /\ at' = [at EXCEPT ![c] = "asked"] /\ asked' = [asked EXCEPT ![c] = client]
  /\ UNCHANGED <<goroutine, cancelled, status, world, history>>

\* the answer, not yet counted: a vector, one of the wrong width, or an error,
\* which may be the caller's own (an oversized text, a context that ended)
Answer(c) ==
  /\ at[c] = "asked"
  /\ LET s == Server(asked[c]) IN
       \/ s \in up \ wedged /\ Goto(c, "answered") /\ UNCHANGED faults
       \/ s \in up \ wedged /\ Fault /\ Return(c)
       \/ s \in up \ wedged /\ Fault /\ Goto(c, "failed")
       \/ s \notin up \ wedged /\ Goto(c, "failed") /\ UNCHANGED faults
  /\ UNCHANGED <<goroutine, cancelled, status, alive, up, wedged, squatted, history>>

RecordSuccess(c) ==
  /\ at[c] = "answered"
  /\ fails' = 0 /\ own' = 0 /\ strays' = {}
  /\ Return(c)
  /\ UNCHANGED <<goroutine, cancelled, state, client, killChild, world>>

\* (mutant) one failure more than the threshold
CondemnedLate(n) == n > FailThreshold

Condemned(n) == n >= FailThreshold

\* (mutant) every error is taken for the caller's own
BlameTheCaller(c) ==
  /\ at[c] = "failed" /\ Return(c)
  /\ UNCHANGED <<goroutine, cancelled, status, world, history>>

\* asked is from here on the child to kill
RecordFailure(c) ==
  /\ at[c] = "failed"
  /\ IF asked[c] = last THEN own' = own + 1 /\ UNCHANGED strays
                        ELSE strays' = strays \cup {c} /\ UNCHANGED own
  /\ IF Condemned(fails + 1)
       THEN /\ state' = "degraded" /\ fails' = 0
            /\ at' = [at EXCEPT ![c] = "kill"] /\ asked' = [asked EXCEPT ![c] = killChild]
       ELSE fails' = fails + 1 /\ Return(c) /\ UNCHANGED state
  /\ UNCHANGED <<goroutine, cancelled, client, killChild, world>>

\* outside the lock; the process may have gone, or there was nothing to kill
Kill(c) ==
  /\ at[c] = "kill"
  /\ Return(c)
  /\ IF asked[c] = None THEN UNCHANGED <<alive, up, wedged, squatted>> ELSE Gone(asked[c])
  /\ UNCHANGED <<goroutine, cancelled, status, faults, history>>

-----------------------------------------------------------------------------
Supervise ==
  \/ Spawn \/ Healthy \/ GiveUpLoading \/ Warm
  \/ NoticeExit \/ StopServing \/ Retry \/ BackoffOver \/ Stop

Request(c) == Ask(c) \/ Answer(c) \/ RecordSuccess(c) \/ RecordFailure(c) \/ Kill(c)

Next ==
  \/ Supervise \/ Close
  \/ Load \/ Exit \/ OtherLeaves
  \/ \E g \in alive : Wedge(g) \/ Die(g)
  \/ \E c \in Callers : Request(c)

\* the goroutine goes on; weights load, a child without a port exits, whoever
\* holds the port leaves it one day; searches keep coming and are answered
Fairness ==
  /\ WF_vars(Supervise)
  /\ WF_vars(Load) /\ WF_vars(Exit) /\ WF_vars(OtherLeaves)
  /\ \A c \in Callers : WF_vars(Request(c))

Spec == Init /\ [][Next]_vars /\ Fairness

-----------------------------------------------------------------------------
(* Properties.                                                             *)

\* the count never reaches the threshold: it is reset under the same lock
TypeOK ==
  /\ loop \in Running \cup {"done"}
  /\ served \in BOOLEAN /\ cancelled \in BOOLEAN /\ squatted \in BOOLEAN
  /\ backoff \in 0..MaxBackoff
  /\ state \in {"off", "starting", "warm", "degraded"}
  /\ client \in Nat \cup {None} /\ killChild \in Nat \cup {None}
  /\ fails \in 0..(FailThreshold - 1)
  /\ last \in Nat
  /\ alive \subseteq 0..last /\ up \subseteq alive /\ wedged \subseteq up
  /\ at \in [Callers -> {"idle", "asked", "answered", "failed", "kill"}]
  /\ asked \in [Callers -> Nat \cup {None}]
  /\ faults \in Nat /\ own \in Nat /\ strays \subseteq Callers

\* No path out of runOnce leaves a model process behind: at most the youngest
\* child runs, and none between two runs or after the loop has ended.
NoOrphan ==
  /\ alive \subseteq {0, last}
  /\ last # 0 /\ last \in alive => loop \in {"loading", "warming", "serving"}

\* A child that serves while the status says degraded is as good as dead: its
\* exit is waiting to be noticed, or a request is about to kill it.
DegradedIsCondemned ==
  loop = "serving" /\ state = "degraded" =>
    last \notin alive \/ \E c \in Callers : at[c] = "kill" /\ asked[c] = last

\* A request may only kill the child that is in service, for failures counted
\* since that child became warm: those before are forgiven.  Not all of them
\* need be its own.  embed counts a failure without asking whom the request was
\* sent to, so a request that was on its way when the predecessor died counts
\* against the child that never saw it, but once at most: the child has failed
\* FailThreshold requests itself, less one for each such caller.
CondemnedForCause ==
  [][\A c \in Callers :
       at[c] = "failed" /\ at'[c] = "kill" /\ asked'[c] # None =>
         /\ own' + Cardinality(strays') >= FailThreshold
         /\ asked'[c] = last /\ (loop = "serving" \/ cancelled)]_vars

\* A child that fails every request, or has died, does not stay on the status
\* surface as warm for ever while searches go lexical.
WarmIsHonest ==
  state = "warm" /\ client # None /\ Server(client) \notin up \ wedged
    ~> state # "warm" \/ Server(client) \in up \ wedged \/ cancelled

\* Unless it is closed, a supervisor that has a model serves again after every
\* fault: no order of late answers, kills and restarts leaves it degraded.
ServesAgain ==
  loop # "done" ~> cancelled \/ (state = "warm" /\ Server(last) \in up \ wedged)

=============================================================================
