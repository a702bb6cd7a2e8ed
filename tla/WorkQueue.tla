------------------------------ MODULE WorkQueue ------------------------------
(***************************************************************************)
(* The pending-work queue of the coverage ledger                           *)
(* (daemon/internal/ledger/queue.go).  A stage that finds a gap another    *)
(* stage owns enqueues an item for it; owners drain their own items a      *)
(* capped number at a time, from a cursor that is persisted per item and   *)
(* wraps.  An item that fails MaxAttempts times is parked.                 *)
(*                                                                         *)
(* The two tables survive a process; a drain is the local state of one.    *)
(* Every SQL statement is one step, so other processes run between any two *)
(* statements of a drain.                                                  *)
(***************************************************************************)
EXTENDS Integers, FiniteSets

CONSTANTS Owners,       \* the stages that own work
          Targets,      \* what the work is about
          MaxAttempts,  \* failures that park an item
          Limits,       \* the caps a drain may be called with
          MaxAborts     \* BOUND: drains that are killed or lose the database

ASSUME WorkQueueAssumption ==
  /\ MaxAttempts \in Nat \ {0}
  /\ Limits \subseteq Nat \ {0}
  /\ MaxAborts \in Nat

Items == Owners \X Targets

VARIABLES lastId,    \* the AUTOINCREMENT sequence
          id,        \* queue.id: the arrival number of an item, 0 when it has no row
          state,     \* queue.state, "absent" when it has no row
          attempts,  \* queue.attempts
          cursor,    \* queue_cursor.position of each owner
          drain,     \* the local state of each owner's drain
          tries,     \* history: handler starts since the item was last opened
          aborts     \* drains aborted so far

tables == <<lastId, id, state, attempts>>
vars == <<tables, cursor, drain, tries, aborts>>

Idle == [pc |-> "idle", limit |-> 0, start |-> 0, pos |-> 0, wrapped |-> FALSE,
         attempted |-> 0, page |-> {}, item |-> {}, owed |-> {}, handed |-> {},
         deferred |-> FALSE]

\* the rows `state = 'pending'` of owner o after position pos
PendingAfter(o, pos) ==
  {k \in Items : k[1] = o /\ state[k] = "pending" /\ id[k] > pos}

\* pending(): the first n of them in arrival order
Page(o, pos, n) ==
  {k \in PendingAfter(o, pos) :
     Cardinality({j \in PendingAfter(o, pos) : id[j] < id[k]}) < n}

Init ==
  /\ lastId = 0
  /\ id = [k \in Items |-> 0]
  /\ state = [k \in Items |-> "absent"]
  /\ attempts = [k \in Items |-> 0]
  /\ cursor = [o \in Owners |-> 0]
  /\ drain = [o \in Owners |-> Idle]
  /\ tries = [k \in Items |-> 0]
  /\ aborts = 0

-----------------------------------------------------------------------------
(* The callers: a discovering stage, and the operator's `queue -revive`.   *)

\* (mutant) a re-discovery un-parks
StateRediscoveredLive(k) == "pending"

\* a finished item is re-opened, a parked one stays parked
StateRediscovered(k) == IF state[k] = "dead" THEN "dead" ELSE "pending"

\* Enqueue: a new row, or what a re-discovery may change of an old one
Enqueue(k) ==
  /\ IF state[k] = "absent"
       THEN lastId' = lastId + 1 /\ id' = [id EXCEPT ![k] = lastId + 1]
       ELSE UNCHANGED <<lastId, id>>
  /\ state' = [state EXCEPT ![k] = StateRediscovered(k)]
  /\ attempts' = [attempts EXCEPT ![k] = IF state[k] = "done" THEN 0 ELSE @]
  /\ tries' = [tries EXCEPT ![k] = IF state[k] \in {"absent", "done"} THEN 0 ELSE @]
  /\ UNCHANGED <<cursor, drain, aborts>>

Revive(k) ==
  /\ state[k] = "dead"
  /\ state' = [state EXCEPT ![k] = "pending"]
  /\ attempts' = [attempts EXCEPT ![k] = 0]
  /\ tries' = [tries EXCEPT ![k] = 0]
  /\ UNCHANGED <<lastId, id, cursor, drain, aborts>>

-----------------------------------------------------------------------------
(* Drain, one step per statement it sends to the database.                 *)

\* the cursor is read once, and is where the drain will stop after wrapping
StartDrain(o, n) ==
  /\ drain[o].pc = "idle"
  /\ drain' = [drain EXCEPT ![o] =
       [Idle EXCEPT !.pc = "fetch", !.limit = n, !.start = cursor[o],
                    !.pos = cursor[o], !.owed = PendingAfter(o, 0)]]
  /\ UNCHANGED <<tables, cursor, tries, aborts>>

\* (mutant) a cursor that only moves forward
RoundOverAtTheEnd(o, page) == page = {}

\* all the way round with nothing left
RoundOver(o, page) == page = {} /\ drain[o].wrapped

\* the head of the outer loop: the cap, a page, or an empty page, which wraps
\* once and ends the drain the second time
FetchPage(o) ==
  LET d == drain[o]
      page == Page(o, d.pos, d.limit - d.attempted)
  IN /\ d.pc = "fetch"
     /\ \/ /\ d.attempted >= d.limit \/ RoundOver(o, page)
           /\ drain' = [drain EXCEPT ![o] = [d EXCEPT !.pc = "report"]]
        \/ /\ d.attempted < d.limit /\ page = {} /\ ~RoundOver(o, page)
           /\ drain' = [drain EXCEPT ![o] = [d EXCEPT !.wrapped = TRUE, !.pos = 0]]
        \/ /\ d.attempted < d.limit /\ page # {}
           /\ drain' = [drain EXCEPT ![o] = [d EXCEPT !.pc = "page", !.page = page]]
     /\ UNCHANGED <<tables, cursor, tries, aborts>>

\* (mutant) a wrapped drain goes all the way round again
CaughtUpNever(o, k) == FALSE

\* past the drain's own starting point after the wrap: everything there was
\* covered before it
CaughtUp(o, k) == drain[o].wrapped /\ id[k] > drain[o].start

\* the next item of the page is handed to the handler, or ends the drain
BeginItem(o, k) ==
  LET d == drain[o]
  IN /\ d.pc = "page"
     /\ k \in d.page
     /\ \A j \in d.page : id[k] <= id[j]
     /\ IF CaughtUp(o, k)
          THEN /\ drain' = [drain EXCEPT ![o] = [d EXCEPT !.pc = "report"]]
               /\ UNCHANGED tries
          ELSE /\ drain' = [drain EXCEPT ![o] =
                    [d EXCEPT !.pc = "run", !.item = {k}, !.page = @ \ {k},
                              !.attempted = @ + 1]]
               /\ tries' = [tries EXCEPT ![k] = @ + 1]
     /\ UNCHANGED <<tables, cursor, aborts>>

\* (mutant) one more attempt than the cap
FailItemParksLate(k) ==
  /\ attempts' = [attempts EXCEPT ![k] = @ + 1]
  /\ state' = [state EXCEPT ![k] = IF attempts[k] >= MaxAttempts THEN "dead" ELSE @]

\* Fail: count the attempt, park at the cap
FailItem(k) ==
  /\ attempts' = [attempts EXCEPT ![k] = @ + 1]
  /\ state' = [state EXCEPT ![k] = IF attempts[k] + 1 >= MaxAttempts THEN "dead" ELSE @]

\* Complete
CompleteItem(k) ==
  /\ state' = [state EXCEPT ![k] = "done"]
  /\ UNCHANGED attempts

\* the handler returned: the row is settled one way or the other
SettleItem(o) ==
  /\ drain[o].pc = "run"
  /\ \E k \in drain[o].item : FailItem(k) \/ CompleteItem(k)
  /\ drain' = [drain EXCEPT ![o] = [@ EXCEPT !.pc = "settled"]]
  /\ UNCHANGED <<lastId, id, cursor, tries, aborts>>

\* (mutant) the position is kept in the drain and never persisted
SetCursorInMemory(o, pos) == UNCHANGED cursor

SetCursor(o, pos) == cursor' = [cursor EXCEPT ![o] = pos]

\* past every item this drain finished, whatever the outcome
AdvanceCursor(o) ==
  LET d == drain[o]
  IN /\ d.pc = "settled"
     /\ \E k \in d.item :
          /\ SetCursor(o, id[k])
          /\ drain' = [drain EXCEPT ![o] =
               [d EXCEPT !.pc = IF d.page = {} THEN "fetch" ELSE "page",
                         !.pos = id[k], !.item = {}, !.handed = @ \cup {k}]]
     /\ UNCHANGED <<tables, tries, aborts>>

\* the depth is read after the loop, and with it whether the cap deferred work
Report(o) ==
  /\ drain[o].pc = "report"
  /\ drain' = [drain EXCEPT ![o] =
       [@ EXCEPT !.pc = "over",
                 !.deferred = drain[o].attempted >= drain[o].limit
                               /\ PendingAfter(o, 0) # {}]]
  /\ UNCHANGED <<tables, cursor, tries, aborts>>

Return(o) ==
  /\ drain[o].pc = "over"
  /\ drain' = [drain EXCEPT ![o] = Idle]
  /\ UNCHANGED <<tables, cursor, tries, aborts>>

\* the process is killed, or one of its statements fails and Drain returns
Abort(o) ==
  /\ drain[o].pc \notin {"idle", "over"}
  /\ aborts < MaxAborts
  /\ aborts' = aborts + 1
  /\ drain' = [drain EXCEPT ![o] = Idle]
  /\ UNCHANGED <<tables, cursor, tries>>

Step(o) ==
  \/ FetchPage(o)
  \/ \E k \in Items : BeginItem(o, k)
  \/ SettleItem(o)
  \/ AdvanceCursor(o)
  \/ Report(o)
  \/ Return(o)

Next ==
  \/ \E k \in Items : Enqueue(k) \/ Revive(k)
  \/ \E o \in Owners, n \in Limits : StartDrain(o, n)
  \/ \E o \in Owners : Step(o) \/ Abort(o)

Spec == Init /\ [][Next]_vars

\* The scheduler starts a drain again and again, and a drain that runs goes on
\* (its handler returns); nothing makes a discovery or a revival happen.
FairSpec ==
  /\ Spec
  /\ \A o \in Owners : WF_vars(\E n \in Limits : StartDrain(o, n))
  /\ \A o \in Owners : WF_vars(Step(o))

-----------------------------------------------------------------------------
States == {"absent", "pending", "done", "dead"}
PCs == {"idle", "fetch", "page", "run", "settled", "report", "over"}
Drains == [pc : PCs, limit : Nat, start : Nat, pos : Nat, wrapped : BOOLEAN,
           attempted : Nat, page : SUBSET Items, item : SUBSET Items,
           owed : SUBSET Items, handed : SUBSET Items, deferred : BOOLEAN]

\* The tables and the drains have the types queue.go gives them.
TypeOK ==
  /\ lastId \in Nat
  /\ id \in [Items -> Nat]
  /\ state \in [Items -> States]
  /\ attempts \in [Items -> 0..MaxAttempts]
  /\ cursor \in [Owners -> Nat]
  /\ drain \in [Owners -> Drains]
  /\ tries \in [Items -> Nat]
  /\ aborts \in 0..MaxAborts

\* queue.go:385-390: a drain that wraps stops at its own starting point, so no
\* item is handed to the handler twice by one drain, whatever is enqueued or
\* revived meanwhile.
NoRepeatInOneDrain ==
  \A o \in Owners : drain[o].item \cap drain[o].handed = {}

\* queue.go:195-200, "nothing retries forever": since it was last opened an
\* item was handed to a handler at most once per recorded failure, once for the
\* attempt now running and once for each drain that was cut short; when no
\* drain is, MaxAttempts bounds it.
NothingRetriesForever ==
  \A k \in Items : tries[k] <= MaxAttempts + aborts

\* queue.go:52, "Only pending items are drained": a parked or finished item is
\* never in a handler's hands, and parking happens exactly at the cap.
ParkedAtTheCap ==
  /\ \A k \in Items : state[k] = "dead" <=> attempts[k] >= MaxAttempts
  /\ \A o \in Owners : drain[o].pc = "run" =>
       \A k \in drain[o].item : state[k] = "pending"

\* queue.go:440-444: a drain whose report does not say the cap deferred work
\* has handed over every item that was owed when it started and still is.
SilentMeansCovered ==
  \A o \in Owners : drain[o].pc = "over" /\ ~drain[o].deferred =>
    \A k \in drain[o].owed : k \in drain[o].handed \/ state[k] # "pending"

\* the items in a handler's hands
InHand == UNION {drain[o].item : o \in {p \in Owners : drain[p].pc = "run"}}

Ledger == INSTANCE WorkLedger WITH working <- InHand

\* The queue, with its two tables, its cursors and its drains interleaved at
\* every statement and cut short anywhere, does nothing the work ledger does
\* not allow: one piece of work of an owner at a time, a failure counted once
\* and parking at exactly the cap, and no re-discovery, drain or abort that
\* brings parked work back or takes owed work away.
ImplementsLedger == Ledger!Spec

\* queue.go:26-32, "Over enough cycles every item is reached, whatever the cap
\* is and however many items there are".
EveryItemIsReached ==
  \A k \in Items :
    (state[k] = "pending" /\ tries[k] = 0) ~> (state[k] # "pending" \/ tries[k] > 0)
=============================================================================
