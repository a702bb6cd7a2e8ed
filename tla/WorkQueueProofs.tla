--------------------------- MODULE WorkQueueProofs ---------------------------
(* Theorems about WorkQueue, for every set of owners and targets, every    *)
(* retry cap, every drain cap and any number of aborted drains.            *)
EXTENDS WorkQueue, FiniteSetTheorems, TLAPS

-----------------------------------------------------------------------------
(* Types.  The bound on attempts is not inductive on its own; Types is.    *)

Types ==
  /\ lastId \in Nat
  /\ id \in [Items -> Nat]
  /\ state \in [Items -> States]
  /\ attempts \in [Items -> Nat]
  /\ cursor \in [Owners -> Nat]
  /\ drain \in [Owners -> Drains]
  /\ tries \in [Items -> Nat]
  /\ aborts \in 0..MaxAborts

LEMMA PagesAreItems ==
  ASSUME NEW o, NEW pos, NEW n
  PROVE  PendingAfter(o, pos) \in SUBSET Items /\ Page(o, pos, n) \in SUBSET Items
  BY DEF PendingAfter, Page

LEMMA InitTypes == Init => Types
  BY WorkQueueAssumption DEF Init, Types, Idle, States, PCs, Drains

LEMMA StepTypes == Types /\ [Next]_vars => Types'
<1> SUFFICES ASSUME Types, [Next]_vars PROVE Types'
  OBVIOUS
<1> USE WorkQueueAssumption DEF Types, tables
<1>1. ASSUME NEW k \in Items, Enqueue(k) PROVE Types'
  BY <1>1 DEF Enqueue, StateRediscovered, States
<1>2. ASSUME NEW k \in Items, Revive(k) PROVE Types'
  BY <1>2 DEF Revive, States
<1>3. ASSUME NEW o \in Owners, NEW n \in Limits, StartDrain(o, n) PROVE Types'
  BY <1>3, PagesAreItems DEF StartDrain, Idle, Drains, PCs
<1>4. ASSUME NEW o \in Owners, FetchPage(o) PROVE Types'
  <2> DEFINE page == Page(o, drain[o].pos, drain[o].limit - drain[o].attempted)
  <2>1. page \in SUBSET Items
    BY PagesAreItems
  <2> HIDE DEF page
  <2>2. drain[o] \in Drains
    OBVIOUS
  <2>3. /\ [drain[o] EXCEPT !.pc = "report"] \in Drains
        /\ [drain[o] EXCEPT !.wrapped = TRUE, !.pos = 0] \in Drains
        /\ [drain[o] EXCEPT !.pc = "page", !.page = page] \in Drains
    BY <2>1, <2>2 DEF Drains, PCs
  <2>4. \E d \in Drains : drain' = [drain EXCEPT ![o] = d]
    BY <1>4, <2>3 DEF FetchPage, page
  <2> QED
    BY <1>4, <2>4 DEF FetchPage
<1>5. ASSUME NEW o \in Owners, NEW k \in Items, BeginItem(o, k) PROVE Types'
  <2>1. drain[o] \in Drains
    OBVIOUS
  <2>2. [drain[o] EXCEPT !.pc = "report"] \in Drains
    BY <2>1 DEF Drains, PCs
  <2>3. [drain[o] EXCEPT !.pc = "run", !.item = {k}, !.page = @ \ {k},
                         !.attempted = @ + 1] \in Drains
    <3>1. {k} \in SUBSET Items /\ drain[o].page \ {k} \in SUBSET Items
      BY <2>1 DEF Drains
    <3>2. drain[o].attempted + 1 \in Nat
      BY <2>1 DEF Drains
    <3> QED
      BY <2>1, <3>1, <3>2 DEF Drains, PCs
  <2>4. \E d \in Drains : drain' = [drain EXCEPT ![o] = d]
    BY <1>5, <2>2, <2>3 DEF BeginItem
  <2>5. tries' \in [Items -> Nat]
    BY <1>5 DEF BeginItem
  <2> QED
    BY <1>5, <2>4, <2>5 DEF BeginItem
<1>6. ASSUME NEW o \in Owners, SettleItem(o) PROVE Types'
  <2>1. [drain[o] EXCEPT !.pc = "settled"] \in Drains
    BY DEF Drains, PCs
  <2>2. \E d \in Drains : drain' = [drain EXCEPT ![o] = d]
    BY <1>6, <2>1 DEF SettleItem
  <2>3. attempts' \in [Items -> Nat] /\ state' \in [Items -> States]
    BY <1>6 DEF SettleItem, FailItem, CompleteItem, States, Drains
  <2> QED
    BY <1>6, <2>2, <2>3 DEF SettleItem
<1>7. ASSUME NEW o \in Owners, AdvanceCursor(o) PROVE Types'
  <2>1. drain[o] \in Drains
    OBVIOUS
  <2>2. PICK k \in drain[o].item :
          /\ SetCursor(o, id[k])
          /\ drain' = [drain EXCEPT ![o] =
               [drain[o] EXCEPT !.pc = IF drain[o].page = {} THEN "fetch" ELSE "page",
                                !.pos = id[k], !.item = {}, !.handed = @ \cup {k}]]
    BY <1>7 DEF AdvanceCursor
  <2>3. k \in Items
    BY <2>1 DEF Drains
  <2>4. [drain[o] EXCEPT !.pc = IF drain[o].page = {} THEN "fetch" ELSE "page",
                         !.pos = id[k], !.item = {}, !.handed = @ \cup {k}] \in Drains
    BY <2>1, <2>3 DEF Drains, PCs
  <2> QED
    BY <1>7, <2>2, <2>3, <2>4 DEF AdvanceCursor, SetCursor
<1>8. ASSUME NEW o \in Owners, Report(o) PROVE Types'
  <2> DEFINE held == drain[o].attempted >= drain[o].limit /\ PendingAfter(o, 0) # {}
  <2>1. drain' = [drain EXCEPT ![o] = [drain[o] EXCEPT !.pc = "over", !.deferred = held]]
    BY <1>8 DEF Report
  <2>2. held \in BOOLEAN
    OBVIOUS
  <2> HIDE DEF held
  <2>3. [drain[o] EXCEPT !.pc = "over", !.deferred = held] \in Drains
    BY <2>2 DEF Drains, PCs
  <2> QED
    BY <1>8, <2>1, <2>3 DEF Report
<1>9. ASSUME NEW o \in Owners, Return(o) PROVE Types'
  BY <1>9 DEF Return, Idle, Drains, PCs
<1>10. ASSUME NEW o \in Owners, Abort(o) PROVE Types'
  BY <1>10 DEF Abort, Idle, Drains, PCs
<1>11. CASE UNCHANGED vars
  BY <1>11 DEF vars
<1> QED
  BY <1>1, <1>2, <1>3, <1>4, <1>5, <1>6, <1>7, <1>8, <1>9, <1>10, <1>11 DEF Next, Step

-----------------------------------------------------------------------------
(* The retry cap.  An owner's drain holds pending items of its own owner   *)
(* only, so no other step settles them; then each recorded failure, each   *)
(* aborted drain and the attempt now running account for every handler     *)
(* start.                                                                  *)

\* the items a drain will hand over or is handing over
Held(o) == drain[o].page \cup IF drain[o].pc = "run" THEN drain[o].item ELSE {}

HeldIsPending ==
  \A o \in Owners : \A k \in Held(o) : k[1] = o /\ state[k] = "pending"

\* what BeginItem took is not in the page any more
ItemLeftThePage ==
  \A o \in Owners :
    /\ drain[o].item \cap drain[o].page = {}
    /\ drain[o].item # {} => drain[o].pc \in {"run", "settled"}
    /\ \A j, k \in drain[o].item : j = k

CapHolds ==
  \A k \in Items :
    /\ state[k] = "dead" => attempts[k] = MaxAttempts
    /\ state[k] # "dead" => attempts[k] < MaxAttempts

Running(k) == \E o \in Owners : drain[o].pc = "run" /\ k \in drain[o].item

TriesAccounted ==
  \A k \in Items :
    /\ tries[k] <= attempts[k] + aborts + 1
    /\ state[k] = "dead" \/ (state[k] = "pending" /\ ~Running(k))
         => tries[k] <= attempts[k] + aborts

RetryInv == Types /\ HeldIsPending /\ ItemLeftThePage /\ CapHolds /\ TriesAccounted

LEMMA InitRetryInv == Init => RetryInv
<1> SUFFICES ASSUME Init PROVE RetryInv
  OBVIOUS
<1>1. Types
  BY InitTypes
<1> QED
  BY <1>1, WorkQueueAssumption DEF Init, RetryInv, HeldIsPending, Held, ItemLeftThePage,
     CapHolds, TriesAccounted, Running, Idle

\* A drain changes only through its own steps, to a record of its own.
LEMMA OtherDrains ==
  ASSUME Types, NEW o \in Owners, NEW d, drain' = [drain EXCEPT ![o] = d]
  PROVE  drain'[o] = d /\ \A p \in Owners : p # o => drain'[p] = drain[p]
  BY DEF Types

Rest == HeldIsPending /\ ItemLeftThePage /\ CapHolds /\ TriesAccounted

\* A step of a drain that leaves the rows alone and is left with no item keeps
\* the invariant; if it drops a running item, it has to be an aborted drain.
LEMMA LocalStep ==
  ASSUME RetryInv, NEW o \in Owners,
         \A p \in Owners : p # o => drain'[p] = drain[p],
         drain'[o].item = {},
         \A k \in drain'[o].page : k[1] = o /\ state[k] = "pending",
         state' = state, attempts' = attempts, tries' = tries,
         aborts' \in Nat,
         aborts' >= aborts,
         drain[o].pc = "run" => aborts' = aborts + 1
  PROVE  Rest'
<1>2. HeldIsPending'
  BY DEF RetryInv, HeldIsPending, Held
<1>3. ItemLeftThePage'
  BY DEF RetryInv, ItemLeftThePage
<1>4. CapHolds'
  BY DEF RetryInv, CapHolds
<1>5. ASSUME NEW k \in Items
      PROVE  /\ tries'[k] <= attempts'[k] + aborts' + 1
             /\ state'[k] = "dead" \/ (state'[k] = "pending" /\ ~Running(k)')
                  => tries'[k] <= attempts'[k] + aborts'
  <2>1. /\ tries[k] \in Nat /\ attempts[k] \in Nat /\ aborts \in Nat
        /\ tries[k] <= attempts[k] + aborts + 1
        /\ state[k] = "dead" \/ (state[k] = "pending" /\ ~Running(k))
             => tries[k] <= attempts[k] + aborts
    BY WorkQueueAssumption DEF RetryInv, Types, TriesAccounted
  <2>2. Running(k) => Running(k)' \/ aborts' = aborts + 1
    BY DEF Running
  <2> QED
    BY <2>1, <2>2
<1> QED
  BY <1>2, <1>3, <1>4, <1>5 DEF Rest, TriesAccounted

LEMMA StepRetryInv == RetryInv /\ [Next]_vars => RetryInv'
<1> SUFFICES ASSUME RetryInv, [Next]_vars PROVE RetryInv'
  OBVIOUS
<1>0. Types /\ Types'
  BY StepTypes DEF RetryInv
<1> SUFFICES Rest'
  BY <1>0 DEF RetryInv, Rest
<1> USE <1>0
<1>a. aborts \in Nat
  BY WorkQueueAssumption DEF Types
<1>1. ASSUME NEW k \in Items, Enqueue(k) PROVE Rest'
  BY <1>1, WorkQueueAssumption DEF Rest, RetryInv, Types, Enqueue, StateRediscovered,
     HeldIsPending, Held, ItemLeftThePage, CapHolds, TriesAccounted, Running, States
<1>2. ASSUME NEW k \in Items, Revive(k) PROVE Rest'
  BY <1>2, WorkQueueAssumption DEF Rest, RetryInv, Types, Revive, HeldIsPending, Held,
     ItemLeftThePage, CapHolds, TriesAccounted, Running, States
<1>3. ASSUME NEW o \in Owners, NEW n \in Limits, StartDrain(o, n) PROVE Rest'
  <2> DEFINE d == [Idle EXCEPT !.pc = "fetch", !.limit = n, !.start = cursor[o],
                               !.pos = cursor[o], !.owed = PendingAfter(o, 0)]
  <2>1. d.page = {} /\ d.item = {}
    BY DEF Idle
  <2>2. drain' = [drain EXCEPT ![o] = d]
    BY <1>3 DEF StartDrain
  <2> HIDE DEF d
  <2>3. /\ drain[o].pc # "run" /\ state' = state /\ attempts' = attempts
        /\ tries' = tries /\ aborts' = aborts
    BY <1>3 DEF StartDrain, tables
  <2>4. drain'[o] = d /\ \A p \in Owners : p # o => drain'[p] = drain[p]
    BY <2>2, OtherDrains
  <2> QED
    BY <1>a, <2>1, <2>3, <2>4, LocalStep
<1>4. ASSUME NEW o \in Owners, FetchPage(o) PROVE Rest'
  <2> DEFINE page == Page(o, drain[o].pos, drain[o].limit - drain[o].attempted)
  <2>1. \A k \in page : k[1] = o /\ state[k] = "pending"
    BY DEF Page, PendingAfter
  <2> HIDE DEF page
  <2>2. /\ drain[o].pc = "fetch"
        /\ state' = state /\ attempts' = attempts
        /\ tries' = tries /\ aborts' = aborts
    BY <1>4 DEF FetchPage, tables
  <2>3. drain[o].item = {}
    BY <2>2 DEF RetryInv, ItemLeftThePage
  <2>4. drain[o] \in Drains
    BY DEF Types
  <2>5. \A k \in drain[o].page : k[1] = o /\ state[k] = "pending"
    BY DEF RetryInv, HeldIsPending, Held
  <2>6. CASE drain' = [drain EXCEPT ![o] = [drain[o] EXCEPT !.pc = "report"]]
    <3> DEFINE d == [drain[o] EXCEPT !.pc = "report"]
    <3>1. d.item = {} /\ d.page = drain[o].page
      BY <2>3, <2>4 DEF Drains
    <3> HIDE DEF d
    <3> QED
      BY <1>a, <2>2, <2>5, <3>1, <2>6, LocalStep DEF d
  <2>7. CASE drain' = [drain EXCEPT ![o] = [drain[o] EXCEPT !.wrapped = TRUE, !.pos = 0]]
    <3>1. drain'[o].item = {} /\ drain'[o].page = drain[o].page
      BY <2>3, <2>4, <2>7 DEF Drains, Types
    <3>2. \A p \in Owners : p # o => drain'[p] = drain[p]
      BY <2>7, OtherDrains
    <3> QED
      BY <1>a, <2>2, <2>5, <3>1, <3>2, LocalStep
  <2>8. CASE drain' = [drain EXCEPT ![o] = [drain[o] EXCEPT !.pc = "page", !.page = page]]
    <3>1. drain'[o].item = {} /\ drain'[o].page = page
      BY <2>3, <2>4, <2>8 DEF Drains, Types
    <3>2. \A p \in Owners : p # o => drain'[p] = drain[p]
      BY <2>8, OtherDrains
    <3> QED
      BY <1>a, <2>1, <2>2, <3>1, <3>2, LocalStep
  <2> QED
    BY <1>4, <2>6, <2>7, <2>8 DEF FetchPage, page
<1>5. ASSUME NEW o \in Owners, NEW k \in Items, BeginItem(o, k) PROVE Rest'
  <2>1. /\ k \in drain[o].page /\ drain[o].pc = "page" /\ drain[o] \in Drains
        /\ state' = state /\ attempts' = attempts /\ aborts' = aborts
    BY <1>5 DEF BeginItem, tables, Types
  <2>2. drain[o].item = {}
    BY <2>1 DEF RetryInv, ItemLeftThePage
  <2>3. \A j \in drain[o].page : j[1] = o /\ state[j] = "pending"
    BY DEF RetryInv, HeldIsPending, Held
  <2>4. CASE CaughtUp(o, k)
    <3>1. drain' = [drain EXCEPT ![o] = [drain[o] EXCEPT !.pc = "report"]] /\ tries' = tries
      BY <1>5, <2>4 DEF BeginItem
    <3>2. drain'[o].item = {} /\ drain'[o].page = drain[o].page
      BY <2>1, <2>2, <3>1 DEF Drains, Types
    <3>3. \A p \in Owners : p # o => drain'[p] = drain[p]
      BY <3>1, OtherDrains
    <3> QED
      BY <1>a, <2>1, <2>3, <3>1, <3>2, <3>3, LocalStep
  <2>5. CASE ~CaughtUp(o, k)
    <3>1. /\ drain' = [drain EXCEPT ![o] =
               [drain[o] EXCEPT !.pc = "run", !.item = {k}, !.page = @ \ {k},
                                !.attempted = @ + 1]]
          /\ tries' = [tries EXCEPT ![k] = @ + 1]
      BY <1>5, <2>5 DEF BeginItem
    <3>2. /\ drain'[o].item = {k} /\ drain'[o].page = drain[o].page \ {k}
          /\ drain'[o].pc = "run"
      BY <2>1, <3>1 DEF Drains, Types
    <3>3. \A p \in Owners : p # o => drain'[p] = drain[p]
      BY <3>1, OtherDrains
    <3>4. HeldIsPending'
      BY <2>1, <2>3, <3>2, <3>3 DEF RetryInv, HeldIsPending, Held
    <3>5. ItemLeftThePage'
      BY <3>2, <3>3 DEF RetryInv, ItemLeftThePage
    <3>6. CapHolds'
      BY <2>1 DEF RetryInv, CapHolds
    <3>7. ~Running(k) /\ state[k] = "pending" /\ Running(k)'
      BY <2>1, <2>2, <2>3, <3>2 DEF Running, RetryInv, HeldIsPending, Held
    <3>8. \A j \in Items \ {k} : Running(j) => Running(j)'
      BY <2>1, <3>2, <3>3 DEF Running
    <3>9. TriesAccounted'
      BY <1>a, <2>1, <3>1, <3>7, <3>8 DEF RetryInv, TriesAccounted, Types
    <3> QED
      BY <3>4, <3>5, <3>6, <3>9 DEF Rest
  <2> QED
    BY <2>4, <2>5
<1>6. ASSUME NEW o \in Owners, SettleItem(o) PROVE Rest'
  <2>1. PICK k \in drain[o].item : FailItem(k) \/ CompleteItem(k)
    BY <1>6 DEF SettleItem
  <2>2. /\ drain[o].pc = "run" /\ drain[o] \in Drains /\ k \in Items
        /\ tries' = tries /\ aborts' = aborts
        /\ drain' = [drain EXCEPT ![o] = [drain[o] EXCEPT !.pc = "settled"]]
    BY <1>6 DEF SettleItem, Types, Drains
  <2>3. /\ drain'[o].item = drain[o].item /\ drain'[o].page = drain[o].page
        /\ drain'[o].pc = "settled"
    BY <2>2 DEF Drains, Types
  <2>4. \A p \in Owners : p # o => drain'[p] = drain[p]
    BY <2>2, OtherDrains
  <2>5. k[1] = o /\ state[k] = "pending" /\ k \notin drain[o].page
    BY <2>2 DEF RetryInv, HeldIsPending, Held, ItemLeftThePage
  <2>6. \A j \in Items \ {k} : state'[j] = state[j] /\ attempts'[j] = attempts[j]
    BY <2>1 DEF FailItem, CompleteItem, Types
  <2>7. HeldIsPending'
    <3> SUFFICES ASSUME NEW p \in Owners, NEW j \in Held(p)'
                 PROVE  j[1] = p /\ state'[j] = "pending"
      BY DEF HeldIsPending
    <3>1. j \in Held(p) /\ j # k
      BY <2>3, <2>4, <2>5 DEF Held, RetryInv, HeldIsPending
    <3>2. j \in Items
      BY <3>1 DEF Held, Types, Drains
    <3> QED
      BY <2>6, <3>1, <3>2 DEF RetryInv, HeldIsPending
  <2>8. ItemLeftThePage'
    BY <2>3, <2>4 DEF RetryInv, ItemLeftThePage
  <2>9. CapHolds'
    BY <2>1, <2>2, <2>5, <2>6, WorkQueueAssumption DEF RetryInv, CapHolds, FailItem, CompleteItem, Types
  <2>10. \A j \in Items \ {k} : Running(j) => Running(j)'
    <3> SUFFICES ASSUME NEW j \in Items \ {k}, Running(j) PROVE Running(j)'
      OBVIOUS
    <3>1. PICK p \in Owners : drain[p].pc = "run" /\ j \in drain[p].item
      BY DEF Running
    <3>2. p # o
      BY <3>1 DEF RetryInv, ItemLeftThePage
    <3> QED
      BY <2>4, <3>1, <3>2 DEF Running
  <2>11. TriesAccounted'
    <3>1. /\ tries[k] <= attempts[k] + aborts + 1
          /\ tries[k] \in Nat /\ attempts[k] \in Nat
      BY <2>2 DEF RetryInv, TriesAccounted, Types
    <3>2. \/ attempts'[k] = attempts[k] + 1
          \/ attempts'[k] = attempts[k] /\ state'[k] = "done"
      BY <2>1, <2>2 DEF FailItem, CompleteItem, Types
    <3>3. tries'[k] <= attempts'[k] + aborts' + 1
      BY <1>a, <2>2, <3>1, <3>2
    <3>4. state'[k] = "dead" \/ state'[k] = "pending" => tries'[k] <= attempts'[k] + aborts'
      BY <1>a, <2>2, <3>1, <3>2
    <3> QED
      BY <2>2, <2>6, <2>10, <3>3, <3>4 DEF RetryInv, TriesAccounted
  <2> QED
    BY <2>7, <2>8, <2>9, <2>11 DEF Rest
<1>7. ASSUME NEW o \in Owners, AdvanceCursor(o) PROVE Rest'
  <2>1. PICK k \in drain[o].item :
          drain' = [drain EXCEPT ![o] =
            [drain[o] EXCEPT !.pc = IF drain[o].page = {} THEN "fetch" ELSE "page",
                             !.pos = id[k], !.item = {}, !.handed = @ \cup {k}]]
    BY <1>7 DEF AdvanceCursor
  <2>2. /\ drain[o].pc = "settled" /\ drain[o] \in Drains
        /\ state' = state /\ attempts' = attempts
        /\ tries' = tries /\ aborts' = aborts
    BY <1>7 DEF AdvanceCursor, tables, Types
  <2>3. drain'[o].item = {} /\ drain'[o].page = drain[o].page
    BY <2>1, <2>2 DEF Drains, Types
  <2>4. \A p \in Owners : p # o => drain'[p] = drain[p]
    BY <2>1, OtherDrains
  <2>5. \A j \in drain[o].page : j[1] = o /\ state[j] = "pending"
    BY DEF RetryInv, HeldIsPending, Held
  <2> QED
    BY <1>a, <2>2, <2>3, <2>4, <2>5, LocalStep
<1>8. ASSUME NEW o \in Owners, Report(o) PROVE Rest'
  <2> DEFINE held == drain[o].attempted >= drain[o].limit /\ PendingAfter(o, 0) # {}
  <2>1. /\ drain' = [drain EXCEPT ![o] = [drain[o] EXCEPT !.pc = "over", !.deferred = held]]
        /\ drain[o].pc = "report" /\ drain[o] \in Drains
        /\ state' = state /\ attempts' = attempts
        /\ tries' = tries /\ aborts' = aborts
    BY <1>8 DEF Report, tables, Types
  <2> HIDE DEF held
  <2>2. drain[o].item = {}
    BY <2>1 DEF RetryInv, ItemLeftThePage
  <2>3. drain'[o].item = {} /\ drain'[o].page = drain[o].page
    BY <2>1, <2>2 DEF Drains, Types
  <2>4. \A p \in Owners : p # o => drain'[p] = drain[p]
    BY <2>1, OtherDrains
  <2>5. \A j \in drain[o].page : j[1] = o /\ state[j] = "pending"
    BY DEF RetryInv, HeldIsPending, Held
  <2> QED
    BY <1>a, <2>1, <2>3, <2>4, <2>5, LocalStep
<1>9. ASSUME NEW o \in Owners, Return(o) PROVE Rest'
  <2>1. /\ drain' = [drain EXCEPT ![o] = Idle] /\ drain[o].pc = "over"
        /\ state' = state /\ attempts' = attempts
        /\ tries' = tries /\ aborts' = aborts
    BY <1>9 DEF Return, tables
  <2>2. drain'[o].item = {} /\ drain'[o].page = {}
    BY <2>1 DEF Idle, Types
  <2>3. \A p \in Owners : p # o => drain'[p] = drain[p]
    BY <2>1, OtherDrains
  <2> QED
    BY <1>a, <2>1, <2>2, <2>3, LocalStep
<1>10. ASSUME NEW o \in Owners, Abort(o) PROVE Rest'
  <2>1. /\ drain' = [drain EXCEPT ![o] = Idle] /\ aborts' = aborts + 1
        /\ state' = state /\ attempts' = attempts /\ tries' = tries
    BY <1>10 DEF Abort, tables
  <2>2. drain'[o].item = {} /\ drain'[o].page = {}
    BY <2>1 DEF Idle, Types
  <2>3. \A p \in Owners : p # o => drain'[p] = drain[p]
    BY <2>1, OtherDrains
  <2> QED
    BY <1>a, <2>1, <2>2, <2>3, LocalStep
<1>11. CASE UNCHANGED vars
  BY <1>11 DEF vars, tables, Rest, RetryInv, HeldIsPending, Held, ItemLeftThePage,
     CapHolds, TriesAccounted, Running
<1> QED
  BY <1>1, <1>2, <1>3, <1>4, <1>5, <1>6, <1>7, <1>8, <1>9, <1>10, <1>11 DEF Next, Step

LEMMA RetryInvImplies == RetryInv => TypeOK /\ NothingRetriesForever /\ ParkedAtTheCap
<1> SUFFICES ASSUME RetryInv PROVE TypeOK /\ NothingRetriesForever /\ ParkedAtTheCap
  OBVIOUS
<1> USE WorkQueueAssumption DEF RetryInv, Types
<1>1. \A k \in Items : attempts[k] \in 0..MaxAttempts
  BY DEF CapHolds
<1>2. TypeOK
  BY <1>1 DEF TypeOK
<1>3. NothingRetriesForever
  BY DEF NothingRetriesForever, TriesAccounted, CapHolds
<1>4. ParkedAtTheCap
  BY DEF ParkedAtTheCap, CapHolds, HeldIsPending, Held, Drains
<1> QED
  BY <1>2, <1>3, <1>4

\* The tables and every drain keep the types queue.go gives them, and an
\* attempt count never passes the retry cap.
THEOREM TypeCorrect == Spec => []TypeOK
  BY InitRetryInv, StepRetryInv, RetryInvImplies, PTL DEF Spec

\* queue.go:195-200: an item is handed to a handler at most MaxAttempts times
\* between two openings, plus once for every drain that was cut short.
THEOREM RetriesBounded == Spec => []NothingRetriesForever
  BY InitRetryInv, StepRetryInv, RetryInvImplies, PTL DEF Spec

\* Parking happens exactly at the cap, and a parked or finished item is never
\* in the hands of a handler.
THEOREM ParkedExactlyAtTheCap == Spec => []ParkedAtTheCap
  BY InitRetryInv, StepRetryInv, RetryInvImplies, PTL DEF Spec
-----------------------------------------------------------------------------
(* The queue implements the work ledger: an item is taken by BeginItem and *)
(* given back by SettleItem or Abort, and every other step is a stutter.   *)

\* what a drain has handed to its handler
Hand(o) == IF drain[o].pc = "run" THEN drain[o].item ELSE {}

\* a row that does not exist counts no failure
AbsentIsFresh == \A k \in Items : state[k] = "absent" => attempts[k] = 0

LEMMA InHandIsHands == \A k : k \in InHand <=> \E o \in Owners : k \in Hand(o)
  BY DEF InHand, Hand

LEMMA HandsAreOwned ==
  ASSUME RetryInv, NEW o \in Owners, NEW k \in Hand(o)
  PROVE  k \in Items /\ k[1] = o /\ state[k] = "pending" /\ Hand(o) = {k}
  BY DEF Hand, RetryInv, HeldIsPending, Held, ItemLeftThePage, Types, Drains

\* Only the drain that steps can change what is in hand.
LEMMA OtherHands ==
  ASSUME NEW o \in Owners, \A p \in Owners : p # o => drain'[p] = drain[p]
  PROVE  \A k : k \in InHand' <=>
           k \in Hand(o)' \/ \E p \in Owners \ {o} : k \in Hand(p)
<1>1. \A k : k \in InHand' <=> \E p \in Owners : k \in Hand(p)'
  BY DEF InHand, Hand
<1> QED
  BY <1>1 DEF Hand

LEMMA HandsKept ==
  ASSUME NEW o \in Owners, \A p \in Owners : p # o => drain'[p] = drain[p],
         Hand(o)' = Hand(o)
  PROVE  InHand' = InHand
  BY OtherHands, InHandIsHands

LEMMA HandEmptied ==
  ASSUME RetryInv, NEW o \in Owners, \A p \in Owners : p # o => drain'[p] = drain[p],
         NEW k \in Hand(o), Hand(o)' = {}
  PROVE  InHand' = InHand \ {k}
<1>1. Hand(o) = {k} /\ k[1] = o
  BY HandsAreOwned
<1>2. \A p \in Owners \ {o} : k \notin Hand(p)
  BY <1>1, HandsAreOwned
<1> QED
  BY <1>1, <1>2, OtherHands, InHandIsHands

LEMMA InitFresh == Init => AbsentIsFresh
  BY DEF Init, AbsentIsFresh

LEMMA StepFresh == RetryInv /\ AbsentIsFresh /\ [Next]_vars => AbsentIsFresh'
<1> SUFFICES ASSUME RetryInv, AbsentIsFresh, [Next]_vars PROVE AbsentIsFresh'
  OBVIOUS
<1> USE DEF RetryInv, Types, AbsentIsFresh
<1>1. ASSUME NEW k \in Items, Enqueue(k) PROVE AbsentIsFresh'
  BY <1>1 DEF Enqueue, StateRediscovered
<1>2. ASSUME NEW k \in Items, Revive(k) PROVE AbsentIsFresh'
  BY <1>2 DEF Revive
<1>3. ASSUME NEW o \in Owners, SettleItem(o) PROVE AbsentIsFresh'
  <2>1. PICK k \in drain[o].item : FailItem(k) \/ CompleteItem(k)
    BY <1>3 DEF SettleItem
  <2>2. k \in Hand(o)
    BY <1>3 DEF SettleItem, Hand
  <2>3. k \in Items /\ state[k] = "pending"
    BY <2>2, HandsAreOwned
  <2> QED
    BY <2>1, <2>3 DEF FailItem, CompleteItem
<1>4. state' = state /\ attempts' = attempts => AbsentIsFresh'
  OBVIOUS
<1>5. ASSUME NEW o \in Owners, NEW n \in Limits, StartDrain(o, n) PROVE AbsentIsFresh'
  BY <1>4, <1>5 DEF StartDrain, tables
<1>6. ASSUME NEW o \in Owners,
             \/ FetchPage(o) \/ \E k \in Items : BeginItem(o, k)
             \/ AdvanceCursor(o) \/ Report(o) \/ Return(o) \/ Abort(o)
      PROVE  AbsentIsFresh'
  BY <1>4, <1>6 DEF FetchPage, BeginItem, AdvanceCursor, Report, Return, Abort, tables
<1>7. CASE UNCHANGED vars
  BY <1>4, <1>7 DEF vars, tables
<1> QED
  BY <1>1, <1>2, <1>3, <1>5, <1>6, <1>7 DEF Next, Step

LEMMA InitImplements == Init => Ledger!Init
  BY DEF Init, Ledger!Init, Ledger!Work, Items, InHand, Idle

LEMMA StepImplements ==
  RetryInv /\ AbsentIsFresh /\ [Next]_vars => [Ledger!Next]_(Ledger!promise)
<1> SUFFICES ASSUME RetryInv, AbsentIsFresh, [Next]_vars
             PROVE  Ledger!Next \/ UNCHANGED <<state, attempts, InHand>>
  BY DEF Ledger!promise
<1>t. Types
  BY DEF RetryInv
<1>w. Ledger!Work = Items
  BY DEF Ledger!Work, Items
<1>1. ASSUME NEW k \in Items, Enqueue(k)
      PROVE  Ledger!Discover(k) \/ UNCHANGED <<state, attempts, InHand>>
  <2>1. UNCHANGED InHand
    BY <1>1 DEF Enqueue, InHand
  <2>2. CASE state[k] = "absent"
    <3>1. attempts[k] = 0
      BY <2>2 DEF AbsentIsFresh
    <3>2. state' = [state EXCEPT ![k] = "pending"]
      BY <1>1, <2>2 DEF Enqueue, StateRediscovered
    <3>3. attempts' = [attempts EXCEPT ![k] = 0]
      BY <1>1, <2>2, <3>1, <1>t DEF Enqueue, Types
    <3> QED
      BY <2>1, <2>2, <3>2, <3>3 DEF Ledger!Discover
  <2>3. CASE state[k] = "done"
    BY <1>1, <2>1, <2>3 DEF Enqueue, StateRediscovered, Ledger!Discover
  <2>4. CASE state[k] \in {"pending", "dead"}
    <3>1. state' = state /\ attempts' = attempts
      BY <1>1, <2>4, <1>t DEF Enqueue, StateRediscovered, Types
    <3> QED
      BY <2>1, <3>1
  <2> QED
    BY <2>2, <2>3, <2>4, <1>t DEF Types, States
<1>2. ASSUME NEW k \in Items, Revive(k) PROVE Ledger!Revive(k)
  BY <1>2 DEF Revive, Ledger!Revive, InHand
<1>3. ASSUME NEW o \in Owners, NEW k \in Items, BeginItem(o, k), ~CaughtUp(o, k)
      PROVE  Ledger!Take(k)
  <2>1. /\ k \in drain[o].page /\ drain[o].pc = "page" /\ drain[o] \in Drains
        /\ UNCHANGED <<state, attempts>>
        /\ drain' = [drain EXCEPT ![o] =
             [drain[o] EXCEPT !.pc = "run", !.item = {k}, !.page = @ \ {k},
                              !.attempted = @ + 1]]
    BY <1>3, <1>t DEF BeginItem, tables, Types
  <2>2. drain'[o].pc = "run" /\ drain'[o].item = {k}
    BY <2>1, <1>t DEF Drains, Types
  <2>3. \A p \in Owners : p # o => drain'[p] = drain[p]
    BY <2>1, <1>t, OtherDrains
  <2>4. Hand(o) = {} /\ Hand(o)' = {k}
    BY <2>1, <2>2 DEF Hand
  <2>5. InHand' = InHand \cup {k}
    BY <2>3, <2>4, OtherHands, InHandIsHands
  <2>6. state[k] = "pending" /\ k[1] = o
    BY <2>1 DEF RetryInv, HeldIsPending, Held
  <2>7. \A j \in InHand : j[1] # k[1]
    <3> SUFFICES ASSUME NEW j \in InHand PROVE j[1] # o
      BY <2>6
    <3>1. PICK p \in Owners : j \in Hand(p)
      BY InHandIsHands
    <3> QED
      BY <2>4, <3>1, HandsAreOwned
  <2> QED
    BY <2>1, <2>5, <2>6, <2>7 DEF Ledger!Take
<1>4. ASSUME NEW o \in Owners, SettleItem(o)
      PROVE  \E k \in Items : Ledger!Fail(k) \/ Ledger!Finish(k)
  <2>1. PICK k \in drain[o].item : FailItem(k) \/ CompleteItem(k)
    BY <1>4 DEF SettleItem
  <2>2. /\ drain[o].pc = "run" /\ drain[o] \in Drains
        /\ drain' = [drain EXCEPT ![o] = [drain[o] EXCEPT !.pc = "settled"]]
    BY <1>4, <1>t DEF SettleItem, Types
  <2>3. k \in Hand(o) /\ Hand(o)' = {}
    BY <2>2, <1>t DEF Hand, Drains, Types
  <2>4. \A p \in Owners : p # o => drain'[p] = drain[p]
    BY <2>2, <1>t, OtherDrains
  <2>5. InHand' = InHand \ {k}
    BY <2>3, <2>4, HandEmptied
  <2>6. k \in InHand /\ k \in Items /\ state[k] = "pending"
    BY <2>3, HandsAreOwned, InHandIsHands
  <2>7. CASE CompleteItem(k)
    BY <2>5, <2>6, <2>7 DEF CompleteItem, Ledger!Finish
  <2>8. CASE FailItem(k)
    <3>1. attempts[k] + 1 >= MaxAttempts <=> attempts[k] + 1 = MaxAttempts
      BY <2>6, <1>t, WorkQueueAssumption DEF RetryInv, CapHolds, Types
    <3>2. state' = [state EXCEPT ![k] =
             IF attempts[k] + 1 = MaxAttempts THEN "dead" ELSE "pending"]
      BY <2>6, <2>8, <3>1 DEF FailItem
    <3> QED
      BY <2>5, <2>6, <2>8, <3>2 DEF FailItem, Ledger!Fail
  <2> QED
    BY <2>1, <2>6, <2>7, <2>8
<1>5. ASSUME NEW o \in Owners, Abort(o)
      PROVE  (\E k \in Items : Ledger!Drop(k)) \/ UNCHANGED <<state, attempts, InHand>>
  <2>1. drain' = [drain EXCEPT ![o] = Idle] /\ UNCHANGED <<state, attempts>>
    BY <1>5 DEF Abort, tables
  <2>2. Hand(o)' = {}
    BY <2>1, <1>t DEF Hand, Idle, Types
  <2>3. \A p \in Owners : p # o => drain'[p] = drain[p]
    BY <2>1, <1>t, OtherDrains
  <2>4. ASSUME NEW k \in Hand(o) PROVE k \in Items /\ Ledger!Drop(k)
    <3>1. k \in InHand /\ k \in Items
      BY HandsAreOwned, InHandIsHands
    <3>2. InHand' = InHand \ {k}
      BY <2>2, <2>3, HandEmptied
    <3> QED
      BY <2>1, <3>1, <3>2 DEF Ledger!Drop
  <2>5. CASE Hand(o) = {}
    <3>1. InHand' = InHand
      BY <2>2, <2>3, <2>5, HandsKept
    <3> QED
      BY <2>1, <3>1
  <2> QED
    BY <2>4, <2>5
<1>6. ASSUME NEW o \in Owners, UNCHANGED <<state, attempts>>,
             NEW d, drain' = [drain EXCEPT ![o] = d],
             drain[o].pc # "run", d.pc # "run"
      PROVE  UNCHANGED <<state, attempts, InHand>>
  <2>1. drain'[o] = d /\ \A p \in Owners : p # o => drain'[p] = drain[p]
    BY <1>6, <1>t, OtherDrains
  <2>2. Hand(o) = {} /\ Hand(o)' = {}
    BY <1>6, <2>1 DEF Hand
  <2>3. InHand' = InHand
    BY <2>1, <2>2, HandsKept
  <2> QED
    BY <1>6, <2>3
<1>7. ASSUME NEW o \in Owners, NEW n \in Limits, StartDrain(o, n)
      PROVE  UNCHANGED <<state, attempts, InHand>>
  <2> DEFINE d == [Idle EXCEPT !.pc = "fetch", !.limit = n, !.start = cursor[o],
                               !.pos = cursor[o], !.owed = PendingAfter(o, 0)]
  <2>1. d.pc # "run" /\ drain' = [drain EXCEPT ![o] = d] /\ drain[o].pc # "run"
    BY <1>7 DEF StartDrain, Idle
  <2>2. UNCHANGED <<state, attempts>>
    BY <1>7 DEF StartDrain, tables
  <2> HIDE DEF d
  <2> QED
    BY <1>6, <2>1, <2>2
<1>8. ASSUME NEW o \in Owners,
             \/ FetchPage(o) \/ \E k \in Items : BeginItem(o, k) /\ CaughtUp(o, k)
             \/ AdvanceCursor(o) \/ Report(o) \/ Return(o)
      PROVE  UNCHANGED <<state, attempts, InHand>>
  <2>1. UNCHANGED <<state, attempts>>
    BY <1>8 DEF FetchPage, BeginItem, AdvanceCursor, Report, Return, tables
  <2>2. drain[o].pc # "run"
    BY <1>8 DEF FetchPage, BeginItem, AdvanceCursor, Report, Return
  <2>3. drain[o] \in Drains
    BY <1>t DEF Types
  <2>4. CASE FetchPage(o)
    <3> DEFINE page == Page(o, drain[o].pos, drain[o].limit - drain[o].attempted)
    <3>1. \/ drain' = [drain EXCEPT ![o] = [drain[o] EXCEPT !.pc = "report"]]
          \/ drain' = [drain EXCEPT ![o] = [drain[o] EXCEPT !.wrapped = TRUE, !.pos = 0]]
          \/ drain' = [drain EXCEPT ![o] = [drain[o] EXCEPT !.pc = "page", !.page = page]]
      BY <2>4 DEF FetchPage
    <3> HIDE DEF page
    <3>2. /\ [drain[o] EXCEPT !.pc = "report"].pc # "run"
          /\ [drain[o] EXCEPT !.wrapped = TRUE, !.pos = 0].pc # "run"
          /\ [drain[o] EXCEPT !.pc = "page", !.page = page].pc # "run"
      BY <2>2, <2>3 DEF Drains
    <3> QED
      BY <1>6, <2>1, <2>2, <3>1, <3>2
  <2>5. CASE \E k \in Items : BeginItem(o, k) /\ CaughtUp(o, k)
    <3>1. drain' = [drain EXCEPT ![o] = [drain[o] EXCEPT !.pc = "report"]]
      BY <2>5 DEF BeginItem
    <3>2. [drain[o] EXCEPT !.pc = "report"].pc # "run"
      BY <2>3 DEF Drains
    <3> QED
      BY <1>6, <2>1, <2>2, <3>1, <3>2
  <2>6. CASE AdvanceCursor(o)
    <3>1. PICK k \in drain[o].item : drain' = [drain EXCEPT ![o] =
            [drain[o] EXCEPT !.pc = IF drain[o].page = {} THEN "fetch" ELSE "page",
                             !.pos = id[k], !.item = {}, !.handed = @ \cup {k}]]
      BY <2>6 DEF AdvanceCursor
    <3> DEFINE d == [drain[o] EXCEPT !.pc = IF drain[o].page = {} THEN "fetch" ELSE "page",
                                     !.pos = id[k], !.item = {}, !.handed = @ \cup {k}]
    <3>2. d.pc # "run" /\ drain' = [drain EXCEPT ![o] = d]
      BY <2>3, <3>1 DEF Drains
    <3> HIDE DEF d
    <3> QED
      BY <1>6, <2>1, <2>2, <3>2
  <2>7. CASE Report(o)
    <3> DEFINE held == drain[o].attempted >= drain[o].limit /\ PendingAfter(o, 0) # {}
    <3>1. drain' = [drain EXCEPT ![o] = [drain[o] EXCEPT !.pc = "over", !.deferred = held]]
      BY <2>7 DEF Report
    <3> HIDE DEF held
    <3>2. [drain[o] EXCEPT !.pc = "over", !.deferred = held].pc # "run"
      BY <2>3 DEF Drains
    <3> QED
      BY <1>6, <2>1, <2>2, <3>1, <3>2
  <2>8. CASE Return(o)
    <3>1. drain' = [drain EXCEPT ![o] = Idle] /\ Idle.pc # "run"
      BY <2>8 DEF Return, Idle
    <3> QED
      BY <1>6, <2>1, <2>2, <3>1
  <2> QED
    BY <1>8, <2>4, <2>5, <2>6, <2>7, <2>8
<1>9. CASE UNCHANGED vars
  BY <1>9 DEF vars, tables, InHand
<1> QED
  BY <1>1, <1>2, <1>3, <1>4, <1>5, <1>7, <1>8, <1>9, <1>w DEF Next, Step, Ledger!Next

\* Every behaviour of the queue, at every interleaving of its statements with
\* those who enqueue and revive and with any number of aborted drains, is one
\* the work ledger allows.
THEOREM QueueImplementsLedger == Spec => ImplementsLedger
<1>1. RetryInv /\ AbsentIsFresh /\ [Next]_vars => RetryInv' /\ AbsentIsFresh'
  BY StepRetryInv, StepFresh
<1> QED
  BY <1>1, InitRetryInv, InitFresh, InitImplements, StepImplements, PTL
     DEF Spec, ImplementsLedger, Ledger!Spec
-----------------------------------------------------------------------------
(* No item twice in one drain.  Before its wrap a drain has handed over    *)
(* only what lies between its start and its position; after it, only what  *)
(* lies past its start or before its position; what comes next lies past   *)
(* its position, and after the wrap not past its start.                    *)

\* AUTOINCREMENT: two rows never have one number, and a new one has the highest
Numbered ==
  /\ \A k \in Items : id[k] <= lastId
  /\ \A k \in Items : id[k] = 0 <=> state[k] = "absent"
  /\ \A j, k \in Items : id[j] = id[k] /\ id[k] # 0 => j = k

Behind(d, n) == IF d.wrapped THEN n > d.start \/ n <= d.pos ELSE n > d.start /\ n <= d.pos

Round(o) ==
  /\ ~drain[o].wrapped => drain[o].pos >= drain[o].start
  /\ \A k \in drain[o].page \cup drain[o].item \cup drain[o].handed : id[k] # 0
  /\ \A k \in drain[o].page : id[k] > drain[o].pos
  /\ \A k \in drain[o].item :
       /\ id[k] > drain[o].pos
       /\ drain[o].wrapped => id[k] <= drain[o].start
       /\ \A j \in drain[o].page : id[k] < id[j]
  /\ \A k \in drain[o].handed : Behind(drain[o], id[k])

RoundInv == Numbered /\ \A o \in Owners : Round(o)

LEMMA InitRound == Init => RoundInv
  BY DEF Init, RoundInv, Numbered, Round, Idle, Items

LEMMA StepNumbered == RetryInv /\ Numbered /\ [Next]_vars => Numbered'
<1> SUFFICES ASSUME RetryInv, Numbered, [Next]_vars PROVE Numbered'
  OBVIOUS
<1>t. Types
  BY DEF RetryInv
<1>1. ASSUME NEW k \in Items, Enqueue(k) PROVE Numbered'
  BY <1>1, <1>t DEF Enqueue, StateRediscovered, Numbered, Types
<1>2. ASSUME NEW k \in Items, Revive(k) PROVE Numbered'
  BY <1>2, <1>t DEF Revive, Numbered, Types
<1>3. ASSUME NEW o \in Owners, SettleItem(o) PROVE Numbered'
  <2>1. PICK k \in drain[o].item : FailItem(k) \/ CompleteItem(k)
    BY <1>3 DEF SettleItem
  <2>2. k \in Items /\ state[k] = "pending"
    BY <1>3, HandsAreOwned DEF SettleItem, Hand
  <2>3. UNCHANGED <<id, lastId>>
    BY <1>3 DEF SettleItem
  <2> QED
    BY <2>1, <2>2, <2>3, <1>t DEF FailItem, CompleteItem, Numbered, Types
<1>4. ASSUME UNCHANGED <<id, lastId, state>> PROVE Numbered'
  BY <1>4 DEF Numbered
<1>5. ASSUME NEW o \in Owners, NEW n \in Limits, StartDrain(o, n) PROVE Numbered'
  BY <1>4, <1>5 DEF StartDrain, tables
<1>6. ASSUME NEW o \in Owners,
             \/ FetchPage(o) \/ \E k \in Items : BeginItem(o, k)
             \/ AdvanceCursor(o) \/ Report(o) \/ Return(o) \/ Abort(o)
      PROVE  Numbered'
  BY <1>4, <1>6 DEF FetchPage, BeginItem, AdvanceCursor, Report, Return, Abort, tables
<1>7. CASE UNCHANGED vars
  BY <1>4, <1>7 DEF vars, tables
<1> QED
  BY <1>1, <1>2, <1>3, <1>5, <1>6, <1>7 DEF Next, Step

\* A drain that does not step keeps its round: no row it knows is renumbered.
LEMMA RoundKept ==
  ASSUME Types, NEW o \in Owners, Round(o), drain'[o] = drain[o],
         \A k \in Items : id[k] # 0 => id'[k] = id[k]
  PROVE  Round(o)'
<1>1. /\ drain[o].page \in SUBSET Items /\ drain[o].item \in SUBSET Items
      /\ drain[o].handed \in SUBSET Items
  BY DEF Types, Drains
<1>2. \A k \in drain[o].page \cup drain[o].item \cup drain[o].handed : id'[k] = id[k]
  BY <1>1 DEF Round
<1> QED
  BY <1>2 DEF Round, Behind

\* So does one whose step leaves its item, its page, its position and what it
\* handed over alone, or forgets them all.
LEMMA RoundLocal ==
  ASSUME Types, NEW o \in Owners, Round(o), UNCHANGED id,
         NEW d, drain' = [drain EXCEPT ![o] = d],
         \/ /\ d.page = {} /\ d.item = {} /\ d.handed = {}
            /\ d.pos = d.start /\ d.pos \in Nat
         \/ /\ d.page = drain[o].page /\ d.item = drain[o].item
            /\ d.handed = drain[o].handed /\ d.pos = drain[o].pos
            /\ d.start = drain[o].start /\ d.wrapped = drain[o].wrapped
  PROVE  Round(o)'
<1>1. drain'[o] = d
  BY OtherDrains
<1> QED
  BY <1>1 DEF Round, Behind

LEMMA StepRound == RetryInv /\ RoundInv /\ [Next]_vars => RoundInv'
<1> SUFFICES ASSUME RetryInv, RoundInv, [Next]_vars PROVE RoundInv'
  OBVIOUS
<1>t. Types /\ Numbered
  BY DEF RetryInv, RoundInv
<1>n. Numbered'
  BY <1>t, StepNumbered
<1> SUFFICES \A p \in Owners : Round(p)'
  BY <1>n DEF RoundInv
<1>r. \A p \in Owners : Round(p)
  BY DEF RoundInv
\* who steps: one drain, or none
<1>k. ASSUME NEW o \in Owners, NEW d, drain' = [drain EXCEPT ![o] = d], UNCHANGED id,
             Round(o)'
      PROVE  \A p \in Owners : Round(p)'
  <2>1. \A p \in Owners : p # o => drain'[p] = drain[p]
    BY <1>k, <1>t, OtherDrains
  <2> QED
    BY <1>k, <2>1, <1>t, <1>r, RoundKept
<1>1. ASSUME NEW k \in Items, Enqueue(k) PROVE \A p \in Owners : Round(p)'
  <2>1. UNCHANGED drain /\ \A j \in Items : id[j] # 0 => id'[j] = id[j]
    BY <1>1, <1>t DEF Enqueue, Numbered, Types
  <2> QED
    BY <2>1, <1>t, <1>r, RoundKept
<1>2. ASSUME NEW k \in Items, Revive(k) PROVE \A p \in Owners : Round(p)'
  BY <1>2, <1>t, <1>r, RoundKept DEF Revive
<1>3. ASSUME NEW o \in Owners, NEW n \in Limits, StartDrain(o, n)
      PROVE  \A p \in Owners : Round(p)'
  <2> DEFINE d == [Idle EXCEPT !.pc = "fetch", !.limit = n, !.start = cursor[o],
                               !.pos = cursor[o], !.owed = PendingAfter(o, 0)]
  <2>1. drain' = [drain EXCEPT ![o] = d] /\ UNCHANGED id
    BY <1>3 DEF StartDrain, tables
  <2>2. d.page = {} /\ d.item = {} /\ d.handed = {} /\ d.pos = d.start /\ d.pos \in Nat
    BY <1>t DEF Idle, Types
  <2> HIDE DEF d
  <2>3. Round(o)'
    BY <1>t, <1>r, <2>1, <2>2, RoundLocal
  <2> QED
    BY <1>k, <2>1, <2>3
<1>4. ASSUME NEW o \in Owners, FetchPage(o) PROVE \A p \in Owners : Round(p)'
  <2> DEFINE page == Page(o, drain[o].pos, drain[o].limit - drain[o].attempted)
  <2>1. \A k \in page : k \in Items /\ id[k] > drain[o].pos
    BY DEF Page, PendingAfter
  <2> HIDE DEF page
  <2>2. UNCHANGED id /\ drain[o].item = {} /\ drain[o] \in Drains /\ Round(o)
    BY <1>4, <1>t, <1>r DEF FetchPage, tables, RetryInv, ItemLeftThePage, Types
  <2>3. \/ drain' = [drain EXCEPT ![o] = [drain[o] EXCEPT !.pc = "report"]]
        \/ /\ drain' = [drain EXCEPT ![o] = [drain[o] EXCEPT !.wrapped = TRUE, !.pos = 0]]
           /\ ~RoundOver(o, page) /\ page = {}
        \/ drain' = [drain EXCEPT ![o] = [drain[o] EXCEPT !.pc = "page", !.page = page]]
    BY <1>4 DEF FetchPage, page
  <2>4. CASE drain' = [drain EXCEPT ![o] = [drain[o] EXCEPT !.pc = "report"]]
    <3> DEFINE d == [drain[o] EXCEPT !.pc = "report"]
    <3>1. /\ d.page = drain[o].page /\ d.item = drain[o].item
          /\ d.handed = drain[o].handed /\ d.pos = drain[o].pos
          /\ d.start = drain[o].start /\ d.wrapped = drain[o].wrapped
      BY <2>2 DEF Drains
    <3>2. drain' = [drain EXCEPT ![o] = d]
      BY <2>4
    <3> HIDE DEF d
    <3>3. Round(o)'
      BY <1>t, <2>2, <3>1, <3>2, RoundLocal
    <3> QED
      BY <1>k, <2>2, <3>2, <3>3
  <2>5. CASE /\ drain' = [drain EXCEPT ![o] = [drain[o] EXCEPT !.wrapped = TRUE, !.pos = 0]]
             /\ ~RoundOver(o, page) /\ page = {}
    <3>1. ~drain[o].wrapped
      BY <2>5 DEF RoundOver
    <3>2. /\ drain'[o].page = drain[o].page /\ drain'[o].item = {}
          /\ drain'[o].handed = drain[o].handed /\ drain'[o].pos = 0
          /\ drain'[o].start = drain[o].start /\ drain'[o].wrapped = TRUE
      BY <1>t, <2>2, <2>5 DEF Drains, Types
    <3>3. \A k \in drain[o].page \cup drain[o].handed : id[k] # 0 /\ id[k] \in Nat
      BY <1>t, <2>2 DEF Round, Drains, Types
    <3>4. \A k \in drain[o].handed : id[k] > drain[o].start
      BY <2>2, <3>1 DEF Round, Behind
    <3>5. Round(o)'
      BY <2>2, <3>2, <3>3, <3>4 DEF Round, Behind
    <3> QED
      BY <1>k, <2>2, <2>5, <3>5
  <2>6. CASE drain' = [drain EXCEPT ![o] = [drain[o] EXCEPT !.pc = "page", !.page = page]]
    <3>1. /\ drain'[o].page = page /\ drain'[o].item = {}
          /\ drain'[o].handed = drain[o].handed /\ drain'[o].pos = drain[o].pos
          /\ drain'[o].start = drain[o].start /\ drain'[o].wrapped = drain[o].wrapped
      BY <1>t, <2>2, <2>6 DEF Drains, Types
    <3>2. \A k \in page : id[k] # 0
      BY <1>t, <2>1, <2>2 DEF Drains, Types
    <3>3. Round(o)'
      BY <2>1, <2>2, <3>1, <3>2 DEF Round, Behind
    <3> QED
      BY <1>k, <2>2, <2>6, <3>3
  <2> QED
    BY <2>3, <2>4, <2>5, <2>6
<1>5. ASSUME NEW o \in Owners, NEW k \in Items, BeginItem(o, k)
      PROVE  \A p \in Owners : Round(p)'
  <2>1. /\ UNCHANGED id /\ drain[o].pc = "page" /\ drain[o].item = {}
        /\ k \in drain[o].page /\ \A j \in drain[o].page : id[k] <= id[j]
        /\ drain[o] \in Drains /\ Round(o)
    BY <1>5, <1>t, <1>r DEF BeginItem, tables, RetryInv, ItemLeftThePage, Types
  <2>2. CASE CaughtUp(o, k)
    <3> DEFINE d == [drain[o] EXCEPT !.pc = "report"]
    <3>1. /\ d.page = drain[o].page /\ d.item = drain[o].item
          /\ d.handed = drain[o].handed /\ d.pos = drain[o].pos
          /\ d.start = drain[o].start /\ d.wrapped = drain[o].wrapped
      BY <2>1 DEF Drains
    <3>2. drain' = [drain EXCEPT ![o] = d]
      BY <1>5, <2>2 DEF BeginItem
    <3> HIDE DEF d
    <3>3. Round(o)'
      BY <1>t, <2>1, <3>1, <3>2, RoundLocal
    <3> QED
      BY <1>k, <2>1, <3>2, <3>3
  <2>3. CASE ~CaughtUp(o, k)
    <3>1. drain' = [drain EXCEPT ![o] =
            [drain[o] EXCEPT !.pc = "run", !.item = {k}, !.page = @ \ {k},
                             !.attempted = @ + 1]]
      BY <1>5, <2>3 DEF BeginItem
    <3>2. /\ drain'[o].page = drain[o].page \ {k} /\ drain'[o].item = {k}
          /\ drain'[o].handed = drain[o].handed /\ drain'[o].pos = drain[o].pos
          /\ drain'[o].start = drain[o].start /\ drain'[o].wrapped = drain[o].wrapped
      BY <1>t, <2>1, <3>1 DEF Drains, Types
    <3>3. \A j \in drain[o].page \ {k} : id[k] < id[j]
      <4> SUFFICES ASSUME NEW j \in drain[o].page \ {k} PROVE id[k] < id[j]
        OBVIOUS
      <4>1. j \in Items /\ id[k] <= id[j] /\ id[j] # 0 /\ id[k] \in Nat /\ id[j] \in Nat
        BY <1>t, <2>1 DEF Round, Drains, Types
      <4>2. id[j] # id[k]
        BY <1>t, <4>1 DEF Numbered
      <4> QED
        BY <4>1, <4>2
    <3>4. drain[o].wrapped => id[k] <= drain[o].start
      BY <1>t, <2>1, <2>3 DEF CaughtUp, Drains, Types
    <3>5. Round(o)'
      BY <2>1, <3>2, <3>3, <3>4 DEF Round, Behind
    <3> QED
      BY <1>k, <2>1, <3>1, <3>5
  <2> QED
    BY <2>2, <2>3
<1>6. ASSUME NEW o \in Owners, SettleItem(o) PROVE \A p \in Owners : Round(p)'
  <2> DEFINE d == [drain[o] EXCEPT !.pc = "settled"]
  <2>1. drain' = [drain EXCEPT ![o] = d] /\ UNCHANGED id
    BY <1>6 DEF SettleItem
  <2>2. /\ d.page = drain[o].page /\ d.item = drain[o].item
        /\ d.handed = drain[o].handed /\ d.pos = drain[o].pos
        /\ d.start = drain[o].start /\ d.wrapped = drain[o].wrapped
    BY <1>t DEF Drains, Types
  <2> HIDE DEF d
  <2>3. Round(o)'
    BY <1>t, <1>r, <2>1, <2>2, RoundLocal
  <2> QED
    BY <1>k, <2>1, <2>3
<1>7. ASSUME NEW o \in Owners, AdvanceCursor(o) PROVE \A p \in Owners : Round(p)'
  <2>1. PICK k \in drain[o].item :
          drain' = [drain EXCEPT ![o] =
            [drain[o] EXCEPT !.pc = IF drain[o].page = {} THEN "fetch" ELSE "page",
                             !.pos = id[k], !.item = {}, !.handed = @ \cup {k}]]
    BY <1>7 DEF AdvanceCursor
  <2>2. /\ UNCHANGED id /\ drain[o] \in Drains /\ Round(o)
        /\ k \in Items /\ id[k] \in Nat /\ id[k] # 0
    BY <1>7, <1>t, <1>r DEF AdvanceCursor, tables, Types, Drains, Round
  <2>3. /\ drain'[o].page = drain[o].page /\ drain'[o].item = {}
        /\ drain'[o].handed = drain[o].handed \cup {k} /\ drain'[o].pos = id[k]
        /\ drain'[o].start = drain[o].start /\ drain'[o].wrapped = drain[o].wrapped
    BY <1>t, <2>1, <2>2 DEF Drains, Types
  <2>4. /\ id[k] > drain[o].pos /\ drain[o].pos \in Nat /\ drain[o].start \in Nat
        /\ drain[o].wrapped => id[k] <= drain[o].start
        /\ \A j \in drain[o].page : id[k] < id[j]
        /\ ~drain[o].wrapped => drain[o].pos >= drain[o].start
    BY <2>2 DEF Round, Drains
  <2>5. \A j \in drain[o].handed : j \in Items /\ id[j] \in Nat /\ Behind(drain[o], id[j])
    BY <1>t, <2>2 DEF Round, Drains, Types
  <2>6. \A j \in drain[o].handed \cup {k} : Behind(drain'[o], id[j])
    BY <2>2, <2>3, <2>4, <2>5 DEF Behind
  <2>7. /\ \A j \in drain[o].page \cup drain[o].handed \cup {k} : id[j] # 0
        /\ ~drain[o].wrapped => id[k] >= drain[o].start
    BY <2>2, <2>4 DEF Round
  <2>8. Round(o)'
    BY <2>2, <2>3, <2>4, <2>6, <2>7 DEF Round
  <2> QED
    BY <1>k, <2>1, <2>2, <2>8
<1>8. ASSUME NEW o \in Owners, Report(o) PROVE \A p \in Owners : Round(p)'
  <2> DEFINE held == drain[o].attempted >= drain[o].limit /\ PendingAfter(o, 0) # {}
             d == [drain[o] EXCEPT !.pc = "over", !.deferred = held]
  <2>1. drain' = [drain EXCEPT ![o] = d] /\ UNCHANGED id
    BY <1>8 DEF Report, tables
  <2> HIDE DEF held
  <2>2. /\ d.page = drain[o].page /\ d.item = drain[o].item
        /\ d.handed = drain[o].handed /\ d.pos = drain[o].pos
        /\ d.start = drain[o].start /\ d.wrapped = drain[o].wrapped
    BY <1>t DEF Drains, Types
  <2> HIDE DEF d
  <2>3. Round(o)'
    BY <1>t, <1>r, <2>1, <2>2, RoundLocal
  <2> QED
    BY <1>k, <2>1, <2>3
<1>9. ASSUME NEW o \in Owners, Return(o) \/ Abort(o) PROVE \A p \in Owners : Round(p)'
  <2>1. drain' = [drain EXCEPT ![o] = Idle] /\ UNCHANGED id
    BY <1>9 DEF Return, Abort, tables
  <2>2. /\ Idle.page = {} /\ Idle.item = {} /\ Idle.handed = {}
        /\ Idle.pos = Idle.start /\ Idle.pos \in Nat
    BY DEF Idle
  <2>3. Round(o)'
    BY <1>t, <1>r, <2>1, <2>2, RoundLocal
  <2> QED
    BY <1>k, <2>1, <2>3
<1>10. CASE UNCHANGED vars
  BY <1>10, <1>t, <1>r, RoundKept DEF vars, tables
<1> QED
  BY <1>1, <1>2, <1>3, <1>4, <1>5, <1>6, <1>7, <1>8, <1>9, <1>10 DEF Next, Step

LEMMA RoundMeansNoRepeat == RetryInv /\ RoundInv => NoRepeatInOneDrain
<1> SUFFICES ASSUME RetryInv, RoundInv, NEW o \in Owners, NEW k \in drain[o].item
             PROVE  k \notin drain[o].handed
  BY DEF NoRepeatInOneDrain
<1>1. /\ Round(o) /\ k \in Items
      /\ id[k] \in Nat /\ drain[o].pos \in Nat /\ drain[o].start \in Nat
  BY DEF RoundInv, RetryInv, Types, Drains
<1> QED
  BY <1>1 DEF Round, Behind

\* queue.go:385-390: one drain hands no item to its handler twice, however many
\* are enqueued, finished, parked or revived while it goes round.
THEOREM NoItemTwiceInOneDrain == Spec => []NoRepeatInOneDrain
<1>1. RetryInv /\ RoundInv /\ [Next]_vars => RetryInv' /\ RoundInv'
  BY StepRetryInv, StepRound
<1> QED
  BY <1>1, InitRetryInv, InitRound, RoundMeansNoRepeat, PTL DEF Spec
-----------------------------------------------------------------------------
(* A silent report means covered.  What was owed when the drain started    *)
(* and has not been handed over yet is still pending and still to come:    *)
(* past the position, or, before the wrap, not past the start.  Two facts  *)
(* about pending() carry it: a page is a prefix of what is pending past    *)
(* the position, and only nothing pending gives an empty page.             *)

\* The least-number principle, from the order of the finite sets below.
LEMMA LeastNatural ==
  ASSUME NEW T \in SUBSET Nat, T # {}
  PROVE  \E n \in T : \A m \in T : n <= m
<1> DEFINE below(n) == {m \in T : m < n}
           F == {below(n) : n \in T}
<1>1. F \subseteq FiniteSubsetsOf(Nat)
  <2> SUFFICES ASSUME NEW n \in T PROVE below(n) \in FiniteSubsetsOf(Nat)
    OBVIOUS
  <2>1. \A m \in below(n) : m <= n
    OBVIOUS
  <2>2. IsFiniteSet(below(n))
    BY <2>1, FS_BoundedSetOfNaturals
  <2> QED
    BY <2>2 DEF FiniteSubsetsOf
<1>2. \E x \in F : \A y \in F : ~(<<y, x>> \in StrictSubsetOrdering(Nat))
  <2>1. F # {}
    OBVIOUS
  <2> HIDE DEF F
  <2>2. IsWellFoundedOn(StrictSubsetOrdering(Nat), FiniteSubsetsOf(Nat))
    BY FS_StrictSubsetOrderingWellFounded
  <2> QED
    BY <1>1, <2>1, <2>2, WFMin
<1>3. PICK n \in T : \A m \in T : ~(<<below(m), below(n)>> \in StrictSubsetOrdering(Nat))
  BY <1>2
<1>4. ASSUME NEW m \in T, m < n PROVE FALSE
  <2>0. m \in Nat /\ n \in Nat /\ T \subseteq Nat
    OBVIOUS
  <2>1. m \in below(n) /\ m \notin below(m)
    BY <1>4, <2>0
  <2>2. below(m) \subseteq below(n)
    <3> SUFFICES ASSUME NEW i \in T, i < m PROVE i < n
      OBVIOUS
    <3> QED
      BY <1>4, <2>0
  <2>3. <<below(m), below(n)>> \in StrictSubsetOrdering(Nat)
    BY <2>0, <2>1, <2>2 DEF StrictSubsetOrdering
  <2> QED
    BY <1>3, <2>3
<1> QED
  BY <1>4

\* Rows are finitely many, for their numbers are.
LEMMA PendingIsFinite ==
  ASSUME Types, Numbered, NEW o \in Owners, NEW pos \in Nat
  PROVE  IsFiniteSet(PendingAfter(o, pos))
<1> DEFINE f == [k \in PendingAfter(o, pos) |-> id[k]]
<1>1. \A k \in PendingAfter(o, pos) : k \in Items /\ id[k] \in 1..lastId
  BY DEF PendingAfter, Types, Numbered
<1>2. \A j, k \in PendingAfter(o, pos) : id[j] = id[k] => j = k
  BY <1>1 DEF Numbered
<1>3. f \in Injection(PendingAfter(o, pos), 1..lastId)
  BY <1>1, <1>2 DEF Injection, IsInjective
<1>4. IsFiniteSet(1..lastId)
  BY FS_Interval DEF Types
<1> QED
  BY <1>3, <1>4, FS_Injection

LEMMA PageIsAPrefix ==
  ASSUME Types, Numbered, NEW o \in Owners, NEW pos \in Nat, NEW n \in Int,
         NEW j \in Page(o, pos, n), NEW k \in PendingAfter(o, pos) \ Page(o, pos, n)
  PROVE  id[j] < id[k]
<1> DEFINE first(i) == {h \in PendingAfter(o, pos) : id[h] < id[i]}
<1>1. j \in PendingAfter(o, pos) /\ id[j] \in Nat /\ id[k] \in Nat /\ j # k
  BY DEF Page, PendingAfter, Types
<1>2. Cardinality(first(j)) < n /\ ~(Cardinality(first(k)) < n)
  BY DEF Page
<1>3. id[j] # id[k]
  BY <1>1 DEF Numbered, PendingAfter, Types
<1>4. ASSUME id[k] < id[j] PROVE FALSE
  <2>1. first(k) \subseteq first(j)
    BY <1>1, <1>4 DEF PendingAfter, Types
  <2>2. IsFiniteSet(first(j))
    BY PendingIsFinite, FS_Subset
  <2>3. /\ Cardinality(first(k)) <= Cardinality(first(j))
        /\ Cardinality(first(j)) \in Nat /\ Cardinality(first(k)) \in Nat
    BY <2>1, <2>2, FS_Subset, FS_CardinalityType
  <2> QED
    BY <1>2, <2>3
<1> QED
  BY <1>1, <1>3, <1>4

LEMMA EmptyPageMeansNothing ==
  ASSUME Types, Numbered, NEW o \in Owners, NEW pos \in Nat, NEW n \in Nat \ {0},
         Page(o, pos, n) = {}
  PROVE  PendingAfter(o, pos) = {}
<1> SUFFICES ASSUME PendingAfter(o, pos) # {} PROVE FALSE
  OBVIOUS
<1> DEFINE T == {id[k] : k \in PendingAfter(o, pos)}
<1>1. T \in SUBSET Nat /\ T # {}
  BY DEF PendingAfter, Types
<1>2. PICK i \in T : \A m \in T : i <= m
  BY <1>1, LeastNatural
<1>3. PICK k \in PendingAfter(o, pos) : id[k] = i
  OBVIOUS
<1>4. {j \in PendingAfter(o, pos) : id[j] < id[k]} = {}
  BY <1>1, <1>2, <1>3
<1>5. Cardinality({j \in PendingAfter(o, pos) : id[j] < id[k]}) < n
  BY <1>4, FS_EmptySet
<1> QED
  BY <1>3, <1>5 DEF Page

\* what was owed at the start and has not been handed over
Owing(o) == drain[o].owed \ (drain[o].handed \cup drain[o].item)

\* it is to come: ahead of the position and of what the drain holds, or, before
\* the wrap, at or before the start
Ahead(o, k) ==
  /\ k[1] = o /\ state[k] = "pending" /\ id[k] # 0
  /\ drain[o].wrapped => drain[o].pos < id[k] /\ id[k] <= drain[o].start
  /\ ~drain[o].wrapped => id[k] <= drain[o].start \/ drain[o].pos < id[k]
  /\ \/ k \in drain[o].page
     \/ id[k] <= drain[o].pos
     \/ \A j \in drain[o].page \cup drain[o].item : id[j] < id[k]

Covered(o) ==
  /\ drain[o].pc = "fetch" => drain[o].page = {}
  /\ \A k \in Owing(o) : Ahead(o, k)
  /\ drain[o].pc = "report" => drain[o].attempted >= drain[o].limit \/ Owing(o) = {}
  /\ drain[o].pc = "over" => drain[o].deferred \/ Owing(o) = {}

CoverInv == \A o \in Owners : Covered(o)

LEMMA InitCover == Init => CoverInv
  BY DEF Init, CoverInv, Covered, Owing, Idle

\* A drain that does not step stays covered: only its own steps settle what it
\* owes.
LEMMA CoverKept ==
  ASSUME Types, NEW o \in Owners, Round(o), Covered(o), drain'[o] = drain[o],
         \A k \in Items : id[k] # 0 => id'[k] = id[k],
         \A k \in Items : k[1] = o /\ state[k] = "pending" => state'[k] = "pending"
  PROVE  Covered(o)'
<1>1. /\ drain[o].page \in SUBSET Items /\ drain[o].item \in SUBSET Items
      /\ Owing(o) \in SUBSET Items
  BY DEF Types, Drains, Owing
<1>2. \A k \in drain[o].page \cup drain[o].item : id'[k] = id[k]
  BY <1>1 DEF Round
<1>3. Owing(o)' = Owing(o)
  BY DEF Owing
<1>4. \A k \in Owing(o) : Ahead(o, k)'
  BY <1>1, <1>2 DEF Covered, Ahead
<1> QED
  BY <1>3, <1>4 DEF Covered

\* So does one whose step leaves its round as it was and does not report.
LEMMA CoverLocal ==
  ASSUME Types, NEW o \in Owners, Covered(o), UNCHANGED <<id, state>>,
         NEW d, drain' = [drain EXCEPT ![o] = d],
         d.page = drain[o].page, d.item = drain[o].item, d.handed = drain[o].handed,
         d.owed = drain[o].owed, d.pos = drain[o].pos, d.start = drain[o].start,
         d.wrapped = drain[o].wrapped,
         d.pc = "fetch" => d.page = {},
         d.pc = "report" => d.attempted >= d.limit \/ Owing(o) = {},
         d.pc = "over" => d.deferred \/ Owing(o) = {}
  PROVE  Covered(o)'
<1>1. drain'[o] = d
  BY OtherDrains
<1>2. Owing(o)' = Owing(o)
  BY <1>1 DEF Owing
<1>3. \A k \in Owing(o) : Ahead(o, k)'
  BY <1>1 DEF Covered, Ahead
<1> QED
  BY <1>1, <1>2, <1>3 DEF Covered

\* A page is fetched, or the drain wraps, or it is over.
LEMMA CoverFetch ==
  ASSUME Types, Numbered, NEW o \in Owners, Covered(o), drain[o].item = {}, FetchPage(o)
  PROVE  Covered(o)'
<1> DEFINE n == drain[o].limit - drain[o].attempted
           page == Page(o, drain[o].pos, n)
           after == PendingAfter(o, drain[o].pos)
<1>1. /\ drain[o] \in Drains /\ drain[o].pc = "fetch" /\ drain[o].page = {}
      /\ UNCHANGED <<id, state>>
  BY DEF Types, FetchPage, tables, Covered
<1>2. /\ drain[o].pos \in Nat /\ drain[o].limit \in Nat /\ drain[o].attempted \in Nat
      /\ n \in Int /\ Owing(o) \in SUBSET Items
  BY <1>1 DEF Drains, Owing
<1>3. \A k \in Owing(o) : Ahead(o, k) /\ k \in Items /\ id[k] \in Nat
  BY <1>2 DEF Covered, Types
<1>4. \A k \in Owing(o) : id[k] > drain[o].pos => k \in after
  BY <1>2, <1>3 DEF Ahead, PendingAfter
<1>5. drain[o].attempted < drain[o].limit /\ page = {} => after = {}
  <2> SUFFICES ASSUME drain[o].attempted < drain[o].limit, page = {} PROVE after = {}
    OBVIOUS
  <2>1. n \in Nat \ {0}
    BY <1>2
  <2> QED
    BY <1>2, <2>1, EmptyPageMeansNothing
<1>6. \A j \in page, k \in after \ page : id[j] < id[k]
  BY <1>2, PageIsAPrefix
<1>7. page \in SUBSET after
  BY DEF Page
<1> HIDE DEF page, after, n
<1>8. \/ /\ drain' = [drain EXCEPT ![o] = [drain[o] EXCEPT !.pc = "report"]]
         /\ \/ drain[o].attempted >= drain[o].limit
            \/ drain[o].attempted < drain[o].limit /\ page = {} /\ drain[o].wrapped
      \/ /\ drain' = [drain EXCEPT ![o] = [drain[o] EXCEPT !.wrapped = TRUE, !.pos = 0]]
         /\ drain[o].attempted < drain[o].limit /\ page = {} /\ ~drain[o].wrapped
      \/ drain' = [drain EXCEPT ![o] = [drain[o] EXCEPT !.pc = "page", !.page = page]]
  BY <1>2 DEF FetchPage, page, n, RoundOver
<1>9. CASE /\ drain' = [drain EXCEPT ![o] = [drain[o] EXCEPT !.pc = "report"]]
           /\ \/ drain[o].attempted >= drain[o].limit
              \/ drain[o].attempted < drain[o].limit /\ page = {} /\ drain[o].wrapped
  <2> DEFINE d == [drain[o] EXCEPT !.pc = "report"]
  <2>1. /\ d.page = drain[o].page /\ d.item = drain[o].item /\ d.handed = drain[o].handed
        /\ d.owed = drain[o].owed /\ d.pos = drain[o].pos /\ d.start = drain[o].start
        /\ d.wrapped = drain[o].wrapped /\ d.attempted = drain[o].attempted
        /\ d.limit = drain[o].limit /\ d.pc = "report"
    BY <1>1 DEF Drains
  <2>2. drain' = [drain EXCEPT ![o] = d]
    BY <1>9
  <2> HIDE DEF d
  <2>3. drain[o].attempted >= drain[o].limit \/ Owing(o) = {}
    BY <1>3, <1>4, <1>5, <1>9 DEF Ahead
  <2> QED
    BY <1>1, <2>1, <2>2, <2>3, CoverLocal
<1>10. CASE /\ drain' = [drain EXCEPT ![o] = [drain[o] EXCEPT !.wrapped = TRUE, !.pos = 0]]
            /\ drain[o].attempted < drain[o].limit /\ page = {} /\ ~drain[o].wrapped
  <2>1. /\ drain'[o].page = {} /\ drain'[o].item = {} /\ drain'[o].pos = 0
        /\ drain'[o].handed = drain[o].handed /\ drain'[o].owed = drain[o].owed
        /\ drain'[o].start = drain[o].start /\ drain'[o].wrapped = TRUE
        /\ drain'[o].pc = "fetch"
    BY <1>1, <1>10 DEF Drains, Types
  <2>2. Owing(o)' = Owing(o)
    BY <1>1, <2>1 DEF Owing
  <2>3. \A k \in Owing(o) : 0 < id[k] /\ id[k] <= drain[o].start
    BY <1>2, <1>3, <1>4, <1>5, <1>10 DEF Ahead
  <2>4. \A k \in Owing(o) : Ahead(o, k)'
    BY <1>1, <1>3, <2>1, <2>3 DEF Ahead
  <2> QED
    BY <2>1, <2>2, <2>4 DEF Covered
<1>11. CASE drain' = [drain EXCEPT ![o] = [drain[o] EXCEPT !.pc = "page", !.page = page]]
  <2>1. /\ drain'[o].page = page /\ drain'[o].item = {} /\ drain'[o].pos = drain[o].pos
        /\ drain'[o].handed = drain[o].handed /\ drain'[o].owed = drain[o].owed
        /\ drain'[o].start = drain[o].start /\ drain'[o].wrapped = drain[o].wrapped
        /\ drain'[o].pc = "page"
    BY <1>1, <1>11 DEF Drains, Types
  <2>2. Owing(o)' = Owing(o)
    BY <1>1, <2>1 DEF Owing
  <2>3. \A k \in Owing(o) : k \in page \/ id[k] <= drain[o].pos \/ \A j \in page : id[j] < id[k]
    BY <1>2, <1>3, <1>4, <1>6
  <2>4. \A k \in Owing(o) : Ahead(o, k)'
    BY <1>1, <1>3, <2>1, <2>3 DEF Ahead
  <2> QED
    BY <2>1, <2>2, <2>4 DEF Covered
<1> QED
  BY <1>8, <1>9, <1>10, <1>11

\* An item is taken, or the wrapped drain is back at its start.
LEMMA CoverBegin ==
  ASSUME Types, Numbered, NEW o \in Owners, Covered(o), drain[o].item = {},
         NEW k \in Items, BeginItem(o, k)
  PROVE  Covered(o)'
<1>1. /\ drain[o] \in Drains /\ drain[o].pc = "page" /\ k \in drain[o].page
      /\ \A j \in drain[o].page : id[k] <= id[j]
      /\ UNCHANGED <<id, state>>
  BY DEF Types, BeginItem, tables
<1>2. /\ drain[o].pos \in Nat /\ drain[o].start \in Nat /\ id[k] \in Nat
      /\ drain[o].page \in SUBSET Items /\ Owing(o) \in SUBSET Items
      /\ \A j \in Items : id[j] \in Nat
  BY <1>1 DEF Drains, Owing, Types
<1>3. CASE CaughtUp(o, k)
  <2> DEFINE d == [drain[o] EXCEPT !.pc = "report"]
  <2>1. /\ d.page = drain[o].page /\ d.item = drain[o].item /\ d.handed = drain[o].handed
        /\ d.owed = drain[o].owed /\ d.pos = drain[o].pos /\ d.start = drain[o].start
        /\ d.wrapped = drain[o].wrapped /\ d.pc = "report"
    BY <1>1 DEF Drains
  <2>2. drain' = [drain EXCEPT ![o] = d]
    BY <1>3 DEF BeginItem
  <2> HIDE DEF d
  <2>3. ASSUME NEW u \in Owing(o) PROVE FALSE
    <3>1. Ahead(o, u) /\ drain[o].wrapped /\ id[k] > drain[o].start
      BY <1>3, <2>3 DEF Covered, CaughtUp
    <3>2. u \in Items /\ id[u] \in Nat /\ drain[o].pos < id[u] /\ id[u] < id[k]
      BY <1>2, <2>3, <3>1 DEF Ahead
    <3> QED
      BY <1>1, <1>2, <3>1, <3>2 DEF Ahead
  <2> QED
    BY <1>1, <2>1, <2>2, <2>3, CoverLocal
<1>4. CASE ~CaughtUp(o, k)
  <2>1. drain' = [drain EXCEPT ![o] =
          [drain[o] EXCEPT !.pc = "run", !.item = {k}, !.page = @ \ {k}, !.attempted = @ + 1]]
    BY <1>4 DEF BeginItem
  <2>2. /\ drain'[o].page = drain[o].page \ {k} /\ drain'[o].item = {k}
        /\ drain'[o].handed = drain[o].handed /\ drain'[o].owed = drain[o].owed
        /\ drain'[o].pos = drain[o].pos /\ drain'[o].start = drain[o].start
        /\ drain'[o].wrapped = drain[o].wrapped /\ drain'[o].pc = "run"
    BY <1>1, <2>1 DEF Drains, Types
  <2>3. Owing(o)' = Owing(o) \ {k}
    BY <2>2 DEF Owing
  <2>4. ASSUME NEW u \in Owing(o)' PROVE Ahead(o, u)'
    <3>1. u \in Owing(o) /\ Ahead(o, u) /\ u # k
      BY <2>3 DEF Covered
    <3>2. \/ u \in drain'[o].page \/ id[u] <= drain[o].pos
          \/ \A j \in drain'[o].page \cup drain'[o].item : id[j] < id[u]
      BY <1>1, <2>2, <3>1 DEF Ahead
    <3> QED
      BY <1>1, <2>2, <3>1, <3>2 DEF Ahead
  <2> QED
    BY <2>2, <2>4 DEF Covered
<1> QED
  BY <1>3, <1>4

\* The cursor passes the item: what is owed is behind the start or past it.
LEMMA CoverAdvance ==
  ASSUME Types, NEW o \in Owners, Round(o), Covered(o), AdvanceCursor(o),
         \A j, k \in drain[o].item : j = k
  PROVE  Covered(o)'
<1>1. PICK k \in drain[o].item :
        drain' = [drain EXCEPT ![o] =
          [drain[o] EXCEPT !.pc = IF drain[o].page = {} THEN "fetch" ELSE "page",
                           !.pos = id[k], !.item = {}, !.handed = @ \cup {k}]]
  BY DEF AdvanceCursor
<1>2. drain[o] \in Drains /\ UNCHANGED <<id, state>>
  BY DEF AdvanceCursor, tables, Types
<1>3. /\ drain'[o].page = drain[o].page /\ drain'[o].item = {}
      /\ drain'[o].handed = drain[o].handed \cup {k} /\ drain'[o].pos = id[k]
      /\ drain'[o].owed = drain[o].owed
      /\ drain'[o].start = drain[o].start /\ drain'[o].wrapped = drain[o].wrapped
      /\ drain'[o].pc = IF drain[o].page = {} THEN "fetch" ELSE "page"
  BY <1>1, <1>2 DEF Drains, Types
<1>4. /\ k \in Items /\ Owing(o) \in SUBSET Items /\ drain[o].page \in SUBSET Items
      /\ drain[o].pos \in Nat /\ \A j \in Items : id[j] \in Nat
  BY <1>2 DEF Drains, Owing, Types
<1>5. Owing(o)' = Owing(o) /\ k \notin Owing(o)
  BY <1>3 DEF Owing
<1>6. /\ id[k] > drain[o].pos
      /\ \A j \in drain[o].page : id[k] < id[j]
  BY DEF Round
<1>7. ASSUME NEW u \in Owing(o) PROVE Ahead(o, u)'
  <2>1. Ahead(o, u) /\ u \in Items
    BY <1>4 DEF Covered
  <2>2. id[u] <= drain[o].pos \/ id[k] < id[u]
    BY <1>4, <1>6, <2>1 DEF Ahead
  <2>3. drain[o].wrapped => id[k] < id[u]
    BY <1>4, <2>1, <2>2 DEF Ahead
  <2>4. \/ u \in drain[o].page \/ id[u] <= id[k]
        \/ \A j \in drain[o].page : id[j] < id[u]
    BY <1>4, <1>6, <2>1 DEF Ahead
  <2>5. ~drain[o].wrapped => id[u] <= drain[o].start \/ id[k] < id[u]
    BY <1>4, <2>1, <2>2, <1>2 DEF Ahead, Drains
  <2> QED
    BY <1>2, <1>3, <2>1, <2>3, <2>4, <2>5 DEF Ahead
<1> QED
  BY <1>3, <1>5, <1>7 DEF Covered

\* The report: a cap that was reached and nothing pending is not silence about
\* anything owed.
LEMMA CoverReport ==
  ASSUME Types, NEW o \in Owners, Covered(o), drain[o].item = {}, Report(o)
  PROVE  Covered(o)'
<1> DEFINE held == drain[o].attempted >= drain[o].limit /\ PendingAfter(o, 0) # {}
           d == [drain[o] EXCEPT !.pc = "over", !.deferred = held]
<1>1. drain' = [drain EXCEPT ![o] = d] /\ UNCHANGED <<id, state>> /\ drain[o].pc = "report"
  BY DEF Report, tables
<1>2. drain[o] \in Drains /\ Owing(o) \in SUBSET Items
  BY DEF Types, Drains, Owing
<1>3. \A k \in Owing(o) : k \in PendingAfter(o, 0)
  BY <1>2 DEF Covered, Ahead, PendingAfter, Types
<1>4. held \/ Owing(o) = {}
  BY <1>1, <1>3 DEF Covered
<1> HIDE DEF held
<1>5. /\ d.page = drain[o].page /\ d.item = drain[o].item /\ d.handed = drain[o].handed
      /\ d.owed = drain[o].owed /\ d.pos = drain[o].pos /\ d.start = drain[o].start
      /\ d.wrapped = drain[o].wrapped /\ d.pc = "over" /\ d.deferred = held
  BY <1>2 DEF Drains
<1> HIDE DEF d
<1> QED
  BY <1>1, <1>4, <1>5, CoverLocal

LEMMA StepCover == RetryInv /\ RoundInv /\ CoverInv /\ [Next]_vars => CoverInv'
<1> SUFFICES ASSUME RetryInv, RoundInv, CoverInv, [Next]_vars PROVE CoverInv'
  OBVIOUS
<1>t. Types /\ Numbered
  BY DEF RetryInv, RoundInv
<1>r. \A p \in Owners : Round(p) /\ Covered(p)
  BY DEF RoundInv, CoverInv
<1>i. \A p \in Owners : drain[p].pc \notin {"run", "settled"} => drain[p].item = {}
  BY DEF RetryInv, ItemLeftThePage
\* who steps: one drain, or none
<1>k. ASSUME NEW o \in Owners, NEW d, drain' = [drain EXCEPT ![o] = d], UNCHANGED id,
             \A k \in Items : k[1] # o => state'[k] = state[k],
             Covered(o)'
      PROVE  CoverInv'
  <2>1. \A p \in Owners : p # o => drain'[p] = drain[p]
    BY <1>k, <1>t, OtherDrains
  <2>2. ASSUME NEW p \in Owners, p # o PROVE Covered(p)'
    BY <1>k, <2>1, <2>2, <1>t, <1>r, CoverKept
  <2> QED
    BY <1>k, <2>2 DEF CoverInv
<1>n. ASSUME UNCHANGED drain,
             \A k \in Items : id[k] # 0 => id'[k] = id[k],
             \A k \in Items : state[k] = "pending" => state'[k] = "pending"
      PROVE  CoverInv'
  BY <1>n, <1>t, <1>r, CoverKept DEF CoverInv
<1>1. ASSUME NEW k \in Items, Enqueue(k) PROVE CoverInv'
  <2>1. UNCHANGED drain /\ \A j \in Items : id[j] # 0 => id'[j] = id[j]
    BY <1>1, <1>t DEF Enqueue, Numbered, Types
  <2>2. \A j \in Items : state[j] = "pending" => state'[j] = "pending"
    BY <1>1, <1>t DEF Enqueue, StateRediscovered, Types
  <2> QED
    BY <2>1, <2>2, <1>n
<1>2. ASSUME NEW k \in Items, Revive(k) PROVE CoverInv'
  <2>1. UNCHANGED <<drain, id>> /\ \A j \in Items : state[j] = "pending" => state'[j] = "pending"
    BY <1>2, <1>t DEF Revive, Types
  <2> QED
    BY <2>1, <1>n
<1>3. ASSUME NEW o \in Owners, NEW n \in Limits, StartDrain(o, n) PROVE CoverInv'
  <2> DEFINE owed == PendingAfter(o, 0)
             d == [Idle EXCEPT !.pc = "fetch", !.limit = n, !.start = cursor[o],
                               !.pos = cursor[o], !.owed = owed]
  <2>1. drain' = [drain EXCEPT ![o] = d] /\ UNCHANGED <<id, state>>
    BY <1>3 DEF StartDrain, tables
  <2>2. \A k \in owed : k[1] = o /\ state[k] = "pending" /\ id[k] # 0 /\ id[k] \in Nat
    BY <1>t DEF PendingAfter, Types
  <2> HIDE DEF owed
  <2>3. /\ d.pc = "fetch" /\ d.page = {} /\ d.item = {} /\ d.handed = {} /\ d.owed = owed
        /\ d.pos = d.start /\ d.pos \in Nat /\ d.wrapped = FALSE
    BY <1>t DEF Idle, Types
  <2> HIDE DEF d
  <2>4. drain'[o] = d
    BY <1>t, <2>1, OtherDrains
  <2>5. Owing(o)' = owed
    BY <2>3, <2>4 DEF Owing
  <2>6. \A k \in owed : Ahead(o, k)'
    BY <2>1, <2>2, <2>3, <2>4 DEF Ahead
  <2>7. Covered(o)'
    BY <2>3, <2>4, <2>5, <2>6 DEF Covered
  <2> QED
    BY <1>k, <2>1, <2>7
<1>4. ASSUME NEW o \in Owners, FetchPage(o) PROVE CoverInv'
  <2>1. drain[o].item = {} /\ UNCHANGED <<id, state>>
    BY <1>4, <1>i DEF FetchPage, tables
  <2>2. Covered(o)'
    BY <1>4, <1>t, <1>r, <2>1, CoverFetch
  <2>3. \E d : drain' = [drain EXCEPT ![o] = d]
    BY <1>4 DEF FetchPage
  <2> QED
    BY <1>k, <2>1, <2>2, <2>3
<1>5. ASSUME NEW o \in Owners, NEW k \in Items, BeginItem(o, k) PROVE CoverInv'
  <2>1. drain[o].item = {} /\ UNCHANGED <<id, state>>
    BY <1>5, <1>i DEF BeginItem, tables
  <2>2. Covered(o)'
    BY <1>5, <1>t, <1>r, <2>1, CoverBegin
  <2>3. \E d : drain' = [drain EXCEPT ![o] = d]
    BY <1>5 DEF BeginItem
  <2> QED
    BY <1>k, <2>1, <2>2, <2>3
<1>6. ASSUME NEW o \in Owners, SettleItem(o) PROVE CoverInv'
  <2> DEFINE d == [drain[o] EXCEPT !.pc = "settled"]
  <2>1. PICK k \in drain[o].item : FailItem(k) \/ CompleteItem(k)
    BY <1>6 DEF SettleItem
  <2>2. /\ drain' = [drain EXCEPT ![o] = d] /\ UNCHANGED id
        /\ drain[o].pc = "run" /\ drain[o] \in Drains
    BY <1>6, <1>t DEF SettleItem, Types
  <2>3. k \in Items /\ k[1] = o
    BY <2>2, HandsAreOwned DEF Hand
  <2>4. \A j \in Items : j # k => state'[j] = state[j]
    BY <2>1, <2>3, <1>t DEF FailItem, CompleteItem, Types
  <2>5. /\ drain'[o].page = drain[o].page /\ drain'[o].item = drain[o].item
        /\ drain'[o].handed = drain[o].handed /\ drain'[o].owed = drain[o].owed
        /\ drain'[o].pos = drain[o].pos /\ drain'[o].start = drain[o].start
        /\ drain'[o].wrapped = drain[o].wrapped /\ drain'[o].pc = "settled"
    BY <2>2, <1>t DEF Drains, Types
  <2>6. Owing(o)' = Owing(o) /\ k \notin Owing(o) /\ Owing(o) \in SUBSET Items
    BY <2>2, <2>5 DEF Owing, Drains
  <2>7. \A u \in Owing(o) : Ahead(o, u)'
    BY <1>r, <2>2, <2>4, <2>5, <2>6 DEF Covered, Ahead
  <2>8. Covered(o)'
    BY <2>5, <2>6, <2>7 DEF Covered
  <2> QED
    BY <1>k, <2>2, <2>3, <2>4, <2>8
<1>7. ASSUME NEW o \in Owners, AdvanceCursor(o) PROVE CoverInv'
  <2>1. \A j, k \in drain[o].item : j = k
    BY DEF RetryInv, ItemLeftThePage
  <2>2. Covered(o)'
    BY <1>7, <1>t, <1>r, <2>1, CoverAdvance
  <2>3. (\E d : drain' = [drain EXCEPT ![o] = d]) /\ UNCHANGED <<id, state>>
    BY <1>7 DEF AdvanceCursor, tables
  <2> QED
    BY <1>k, <2>2, <2>3
<1>8. ASSUME NEW o \in Owners, Report(o) PROVE CoverInv'
  <2>1. drain[o].item = {} /\ UNCHANGED <<id, state>>
    BY <1>8, <1>i DEF Report, tables
  <2>2. Covered(o)'
    BY <1>8, <1>t, <1>r, <2>1, CoverReport
  <2>3. \E d : drain' = [drain EXCEPT ![o] = d]
    BY <1>8 DEF Report
  <2> QED
    BY <1>k, <2>1, <2>2, <2>3
<1>9. ASSUME NEW o \in Owners, Return(o) \/ Abort(o) PROVE CoverInv'
  <2>1. drain' = [drain EXCEPT ![o] = Idle] /\ UNCHANGED <<id, state>>
    BY <1>9 DEF Return, Abort, tables
  <2>2. drain'[o] = Idle
    BY <2>1, <1>t, OtherDrains
  <2>3. Owing(o)' = {}
    BY <2>2 DEF Owing, Idle
  <2>4. Covered(o)'
    BY <2>2, <2>3 DEF Covered, Idle
  <2> QED
    BY <1>k, <2>1, <2>4
<1>10. CASE UNCHANGED vars
  BY <1>10, <1>n DEF vars, tables
<1> QED
  BY <1>1, <1>2, <1>3, <1>4, <1>5, <1>6, <1>7, <1>8, <1>9, <1>10 DEF Next, Step

LEMMA CoverMeansSilentCovered == RetryInv /\ CoverInv => SilentMeansCovered
<1> SUFFICES ASSUME RetryInv, CoverInv, NEW o \in Owners,
                    drain[o].pc = "over", ~drain[o].deferred
             PROVE  \A k \in drain[o].owed : k \in drain[o].handed
  BY DEF SilentMeansCovered
<1>1. drain[o].item = {}
  BY DEF RetryInv, ItemLeftThePage
<1>2. Owing(o) = {}
  BY DEF CoverInv, Covered
<1> QED
  BY <1>1, <1>2 DEF Owing

\* queue.go:440-444: a drain that ends without saying that its cap deferred
\* work has handed over all that was owed when it started, wherever its cursor
\* stood, whatever was enqueued, revived or parked while it went round, and
\* whatever other owners did.
THEOREM SilenceIsCoverage == Spec => []SilentMeansCovered
<1>1. RetryInv /\ RoundInv /\ CoverInv /\ [Next]_vars => RetryInv' /\ RoundInv' /\ CoverInv'
  BY StepRetryInv, StepRound, StepCover
<1> QED
  BY <1>1, InitRetryInv, InitRound, InitCover, CoverMeansSilentCovered, PTL DEF Spec
=============================================================================
