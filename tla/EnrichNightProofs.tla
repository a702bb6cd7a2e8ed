--------------------------- MODULE EnrichNightProofs ---------------------------
(* Theorems about EnrichNight, for any vault, page size, call guard and    *)
(* fuse, and any number of acts of the operator, changes of the contract,  *)
(* failures and kills.                                                     *)
EXTENDS EnrichNight, TLAPS

-----------------------------------------------------------------------------
(* Types.                                                                  *)

Writing == {"write", "journal", "move", "put", "record"}

\* TypeOK with what makes it inductive: a version is a count of changes, and a
\* night that writes has a candidate and, past Compose, a destination.
Typed ==
  /\ TypeOK
  /\ contract.pass <= events /\ contract.rules <= events
  /\ night.pc \in Writing => night.cand \in Candidates /\ night.cand \in night.page
  /\ night.pc \in Writing \ {"write"} => night.dest \in Paths

LEMMA BlankIsContent == Blank \in Contents
  BY EnrichAssumption DEF Blank, Contents, Texts

LEMMA IdleIsNight == Idle \in Nights /\ Idle.pc = "idle"
<1>1. NoContract \in Judgments
  BY EnrichAssumption DEF NoContract, Judgments
<1>2. [p \in Paths |-> 7] \in [Paths -> 1..7]
  OBVIOUS
<1>3. Blank \in Contents
  BY BlankIsContent
<1> QED
  BY <1>1, <1>2, <1>3, EnrichAssumption DEF Idle, Nights

LEMMA KeyIsKey ==
  ASSUME NEW c \in Judgments, NEW x \in Contents
  PROVE  Key(c, x) \in Keys
  BY DEF Key, Keys

\* The versions a night stamps are of the kind it keeps.
LEMMA StampIsJudgment == TypeOK => Stamp \in Judgments
  BY DEF TypeOK, Nights, Stamp, Judgments

LEMMA RowIsRow ==
  ASSUME TypeOK, NEW outcome \in {"done", "failed", "skipped"}, NEW in \in Keys, NEW out \in Keys
  PROVE  /\ Row(outcome, in, out) \in Rows
         /\ Row(outcome, in, out).outcome = outcome
         /\ Row(outcome, in, out).in = in /\ Row(outcome, in, out).out = out
  BY StampIsJudgment DEF Row, Rows

LEMMA RecordedIsRows ==
  ASSUME NEW r \in [Paths -> Rows \cup {None}], NEW p, NEW row \in Rows
  PROVE  Recorded(r, p, row) \in [Paths -> Rows \cup {None}]
  BY DEF Recorded

LEMMA CauseIsCause ==
  ASSUME TypeOK, NEW r \in [Paths -> Rows \cup {None}], NEW p \in Paths
  PROVE  /\ Cause(r, p) \in 1..7
         /\ vault[p] # None /\ Cause(r, p) = 7 =>
              /\ r[p] # None /\ r[p] \in Rows /\ r[p].outcome = "done"
              /\ r[p].at = contract /\ Fits(r[p], Key(contract, vault[p]))
<1>1. CASE vault[p] = None
  BY <1>1 DEF Cause
<1>2. CASE vault[p] # None /\ r[p] = None
  BY <1>2 DEF Cause
<1>3. CASE vault[p] # None /\ r[p] # None
  <2>1. r[p] \in Rows /\ contract \in Judgments
    BY <1>3 DEF TypeOK
  <2>2. /\ r[p].outcome \in {"done", "failed", "skipped"} /\ r[p].at \in Judgments
        /\ r[p].at = contract <=> r[p].at.pass = contract.pass /\ r[p].at.rules = contract.rules
    BY <2>1 DEF Rows, Judgments
  <2>3. CASE r[p].at.pass # contract.pass
    BY <1>3, <2>1, <2>2, <2>3 DEF Cause
  <2>4. CASE r[p].at.pass = contract.pass /\ r[p].at.rules # contract.rules
    BY <1>3, <2>1, <2>2, <2>4 DEF Cause
  <2>5. CASE r[p].at = contract
    BY <1>3, <2>1, <2>2, <2>5 DEF Cause
  <2> QED
    BY <2>2, <2>3, <2>4, <2>5
<1> QED
  BY <1>1, <1>2, <1>3

LEMMA FollowedIsRows ==
  ASSUME TypeOK
  PROVE  /\ Followed \in [Paths -> Rows \cup {None}]
         /\ \A p \in Paths : Followed[p] = None \/ \E q \in Paths : Followed[p] = rows[q]
<1> DEFINE Pairs == {pq \in Paths \X indexed :
                  /\ Done(rows, pq[1]) /\ vault[pq[1]] = None
                  /\ ~Done(rows, pq[2]) /\ vault[pq[2]] # None
                  /\ Fits(rows[pq[1]], Key(rows[pq[1]].at, vault[pq[2]]))}
           Moves == {pq \in Pairs : \A xy \in Pairs :
                  (xy[1] = pq[1] \/ xy[2] = pq[2]) => xy = pq}
<1>1. \A pq \in Moves : pq[1] \in Paths
  OBVIOUS
<1>2. Followed = [p \in Paths |->
        IF \E pq \in Moves : pq[2] = p
          THEN rows[(CHOOSE pq \in Moves : pq[2] = p)[1]]
        ELSE IF \E pq \in Moves : pq[1] = p THEN None ELSE rows[p]]
  BY DEF Followed
<1> HIDE DEF Pairs, Moves
<1>3. ASSUME NEW p \in Paths
      PROVE  Followed[p] = None \/ \E q \in Paths : Followed[p] = rows[q]
  <2>1. CASE \E pq \in Moves : pq[2] = p
    <3>1. (CHOOSE pq \in Moves : pq[2] = p) \in Moves
      BY <2>1
    <3>2. Followed[p] = rows[(CHOOSE pq \in Moves : pq[2] = p)[1]]
      BY <1>2, <2>1
    <3> QED
      BY <1>1, <3>1, <3>2
  <2>2. CASE ~\E pq \in Moves : pq[2] = p
    BY <1>2, <2>2
  <2> QED
    BY <2>1, <2>2
<1>4. \A p \in Paths : Followed[p] \in Rows \cup {None}
  BY <1>3 DEF TypeOK
<1> QED
  BY <1>2, <1>3, <1>4

LEMMA InitTyped == Init => Typed
<1> SUFFICES ASSUME Init PROVE Typed
  OBVIOUS
<1> USE EnrichAssumption
<1>1. vault \in [Paths -> Contents \cup {None}]
  <2>1. \A p \in Paths : [text |-> p, by |-> None] \in Contents
    BY DEF Contents, Texts
  <2> QED
    BY <2>1 DEF Init
<1>2. contract \in Judgments /\ contract.pass = 0 /\ contract.rules = 0
  BY DEF Init, NoContract, Judgments
<1>3. night \in Nights /\ night.pc = "idle"
  BY IdleIsNight DEF Init
<1>4. refused \in [Paths -> Keys]
  BY DEF Init, Keys
<1> QED
  BY <1>1, <1>2, <1>3, <1>4 DEF Init, Typed, TypeOK, Writing

\* A step that leaves the night's place alone keeps its types.
LEMMA ActTyped ==
  ASSUME Typed, NEW S, \A tp \in S : tp[1] \in Texts, Act(S),
         vault' \in [Paths -> Contents \cup {None}]
  PROVE  Typed'
<1>1. /\ events \in 0..MaxEvents /\ events' = events + 1 /\ events' \in 0..MaxEvents
  BY EnrichAssumption DEF Act, Event, Typed, TypeOK
<1>2. raced' \subseteq Texts
  BY DEF Act, Typed, TypeOK
<1>3. /\ night' \in Nights /\ night'.pc = night.pc /\ night'.cand = night.cand
      /\ night'.page = night.page /\ night'.dest = night.dest
  BY DEF Act, Typed, TypeOK, Nights
<1>4. UNCHANGED <<indexed, contract, rows, refused, journal, shown>>
  BY DEF Act
<1>5. contract \in Judgments /\ contract.pass <= events' /\ contract.rules <= events'
  BY <1>1 DEF Typed, TypeOK, Judgments
<1> QED
  BY <1>1, <1>2, <1>3, <1>4, <1>5 DEF Typed, TypeOK

\* Nor does being through with a note.
LEMMA OverTyped ==
  ASSUME Typed, NEW x, NEW c \in {0, 1, 2}, NEW streak \in 0..Fuse,
         night.calls + c <= MaxCalls + 1, Over(x, c, streak)
  PROVE  night' \in Nights /\ night'.pc = "note" /\ night'.page = night.page \ {x}
<1>1. night.calls + c \in 0..(MaxCalls + 1)
  BY EnrichAssumption DEF Typed, TypeOK, Nights
<1>2. night.page \ {x} \in SUBSET Candidates
  BY DEF Typed, TypeOK, Nights
<1> QED
  BY <1>1, <1>2, BlankIsContent DEF Over, Typed, TypeOK, Nights

LEMMA TurnIsInPage ==
  ASSUME Typed, NEW x \in Turn
  PROVE  /\ x \in night.page /\ x \in Candidates /\ x.rel \in Paths /\ x.raw \in Contents
         /\ night.pc = "note" /\ night.calls < MaxCalls /\ night.streak < Fuse
         /\ KeyOf(x) \in Keys
<1>1. /\ x \in night.page /\ night \in Nights /\ night.pc = "note"
      /\ night.calls < MaxCalls /\ night.streak < Fuse
  BY EnrichAssumption DEF Turn, Stop, Typed, TypeOK, Nights
<1>2. x \in Candidates /\ night.keyed \in Judgments
  BY <1>1 DEF Nights
<1>3. x.rel \in Paths /\ x.raw \in Contents
  BY <1>2 DEF Candidates
<1> QED
  BY <1>1, <1>2, <1>3, KeyIsKey DEF KeyOf

LEMMA PreviousIsContent ==
  ASSUME TypeOK, NEW p \in Paths
  PROVE  Previous(p) \in Contents
  BY BlankIsContent DEF Previous, TypeOK

LEMMA ComposedKeepsText ==
  ASSUME TypeOK, NEW x \in Contents
  PROVE  Composed(x) \in Contents /\ Composed(x).text = x.text
  BY StampIsJudgment DEF Composed, Contents
LEMMA StepTyped == Typed /\ [Next]_vars => Typed'
<1> SUFFICES ASSUME Typed, [Next]_vars PROVE Typed'
  OBVIOUS
<1> USE EnrichAssumption
<1>t. TypeOK
  BY DEF Typed
<1>n. /\ night \in Nights /\ night.keyed \in Judgments /\ contract \in Judgments
      /\ night.streak \in 0..Fuse /\ night.calls \in 0..(MaxCalls + 1)
  BY <1>t DEF TypeOK, Nights
<1>e. /\ events \in 0..MaxEvents
      /\ Event => events' \in 0..MaxEvents /\ events' = events + 1
  BY <1>t DEF TypeOK, Event
<1>1. ASSUME NEW p \in Paths, Save(p) PROVE Typed'
  <2>1. events + 1 \in Texts
    BY <1>1, <1>e DEF Save, Act, Event, Texts
  <2>2. [text |-> events + 1, by |-> IF vault[p] = None THEN None ELSE vault[p].by] \in Contents
    BY <1>t, <2>1 DEF TypeOK, Contents
  <2>3. vault' \in [Paths -> Contents \cup {None}]
    BY <1>1, <1>t, <2>2 DEF Save, TypeOK
  <2> QED
    BY <1>1, <2>1, <2>3, ActTyped DEF Save
<1>2. ASSUME NEW p \in Paths, NEW q \in Paths, HandMove(p, q) PROVE Typed'
  <2>1. vault[p] \in Contents
    BY <1>2, <1>t DEF HandMove, TypeOK
  <2>2. vault[p].text \in Texts /\ 0 \in Texts
    BY <2>1 DEF Contents, Texts
  <2>3. vault' \in [Paths -> Contents \cup {None}]
    BY <1>2, <1>t, <2>1 DEF HandMove, TypeOK
  <2> QED
    BY <1>2, <2>2, <2>3, ActTyped DEF HandMove
<1>3. ASSUME NEW p \in Paths, Delete(p) PROVE Typed'
  <2>1. vault' \in [Paths -> Contents \cup {None}] /\ 0 \in Texts
    BY <1>3, <1>t DEF Delete, TypeOK, Texts
  <2> QED
    BY <1>3, <2>1, ActTyped DEF Delete
<1>4. CASE Reconcile
  BY <1>4 DEF Reconcile, Typed, TypeOK, note
<1>5. CASE Bump
  <2>1. /\ contract.pass \in 0..MaxEvents /\ contract.rules \in 0..MaxEvents
        /\ contract.pass <= events /\ contract.rules <= events
    BY <1>n DEF Judgments, Typed
  <2>2. events' = events + 1 /\ events' \in 0..MaxEvents
    BY <1>5, <1>e DEF Bump
  <2>3. CASE contract' = [contract EXCEPT !.rules = @ + 1]
    <3>1. /\ contract' \in Judgments
          /\ contract'.pass <= events' /\ contract'.rules <= events'
      BY <1>n, <2>1, <2>2, <2>3, <1>e DEF Judgments
    <3> QED
      BY <1>5, <2>2, <3>1 DEF Bump, Typed, TypeOK, note
  <2>4. CASE contract' = [contract EXCEPT !.pass = @ + 1]
    <3>1. /\ contract' \in Judgments
          /\ contract'.pass <= events' /\ contract'.rules <= events'
      BY <1>n, <2>1, <2>2, <2>4, <1>e DEF Judgments
    <3> QED
      BY <1>5, <2>2, <3>1 DEF Bump, Typed, TypeOK, note
  <2> QED
    BY <1>5, <2>3, <2>4 DEF Bump
<1>6. CASE StartNight
  <2>1. rows' \in [Paths -> Rows \cup {None}]
    BY <1>6, <1>t, FollowedIsRows DEF StartNight
  <2> DEFINE cause == [p \in Paths |-> Cause(rows', p)]
  <2>2. cause \in [Paths -> 1..7]
    BY <1>t, <2>1, CauseIsCause
  <2>3. night' = [Idle EXCEPT !.pc = "list", !.keyed = contract, !.queue = indexed,
                              !.cause = cause]
    BY <1>6 DEF StartNight
  <2> HIDE DEF cause
  <2>4. night' \in Nights /\ night'.pc = "list"
    BY <1>t, <1>n, <2>2, <2>3, IdleIsNight DEF Nights, TypeOK
  <2> QED
    BY <1>6, <2>1, <2>4 DEF StartNight, Typed, TypeOK, note, Writing
\* the steps that only move the night on
<1>7. ASSUME night' \in Nights, night'.pc \notin Writing,
             UNCHANGED <<vault, indexed, contract, shown, raced>>,
             rows' \in [Paths -> Rows \cup {None}],
             refused' \in [Paths -> Keys], journal' \subseteq Texts,
             events' \in 0..MaxEvents, events' >= events
      PROVE  Typed'
  <2>1. contract' \in Judgments /\ contract'.pass <= events' /\ contract'.rules <= events'
    BY <1>7, <1>n, <1>e DEF Typed, Judgments
  <2> QED
    BY <1>7, <2>1 DEF Typed, TypeOK
<1>8. CASE NextPage
  <2>1. PICK w \in Slices : LET there == {p \in w : vault[p] # None}
       IN night' = IF Stop \/ there = {} THEN Idle
                   ELSE [night EXCEPT !.pc = "note", !.queue = @ \ w,
                           !.short = Cardinality(there) < PageSize,
                           !.page = {[rel |-> p, raw |-> vault[p]] : p \in there}]
    BY <1>8 DEF NextPage
  <2> DEFINE there == {p \in w : vault[p] # None}
             page == {[rel |-> p, raw |-> vault[p]] : p \in there}
             short == Cardinality(there) < PageSize
  <2>2. there \subseteq Paths
    BY <1>n DEF Slices, Nights
  <2>3. page \in SUBSET Candidates
    BY <1>t, <2>2 DEF TypeOK, Candidates
  <2>4. short \in BOOLEAN
    OBVIOUS
  <2>5. night' = IF Stop \/ there = {} THEN Idle
                 ELSE [night EXCEPT !.pc = "note", !.queue = @ \ w, !.short = short,
                                    !.page = page]
    BY <2>1
  <2> HIDE DEF page, short, there
  <2>6. night' \in Nights /\ night'.pc \notin Writing
    BY <1>n, <2>3, <2>4, <2>5, IdleIsNight DEF Nights, Writing
  <2> QED
    BY <1>7, <1>8, <2>6, <1>t DEF NextPage, TypeOK, note
<1>9. CASE EndPage
  <2>1. night' \in Nights /\ night'.pc \notin Writing
    BY <1>9, <1>n, IdleIsNight DEF EndPage, Nights, Writing
  <2> QED
    BY <1>7, <1>9, <2>1, <1>t DEF EndPage, TypeOK, note
<1>o. ASSUME NEW x, NEW c \in {0, 1, 2}, NEW streak \in 0..Fuse,
             night.calls + c <= MaxCalls + 1, Over(x, c, streak)
      PROVE  night' \in Nights /\ night'.pc \notin Writing
  BY <1>o, OverTyped DEF Writing
<1>f. ASSUME NEW x \in Turn, NEW outcome \in {"failed", "skipped"},
             rows' = Recorded(rows, x.rel, Row(outcome, KeyOf(x), None))
      PROVE  rows' \in [Paths -> Rows \cup {None}]
  <2>1. KeyOf(x) \in Keys /\ None \in Keys
    BY TurnIsInPage DEF Keys
  <2>2. Row(outcome, KeyOf(x), None) \in Rows
    BY <1>t, <2>1, RowIsRow
  <2> QED
    BY <1>f, <1>t, <2>2, RecordedIsRows DEF TypeOK
<1>10. ASSUME NEW x \in Turn, Skip(x) PROVE Typed'
  <2>1. night' \in Nights /\ night'.pc \notin Writing
    BY <1>10, <1>o, <1>n, TurnIsInPage DEF Skip
  <2>2. rows' \in [Paths -> Rows \cup {None}]
    BY <1>10, <1>f DEF Skip
  <2> QED
    BY <1>7, <1>10, <2>1, <2>2, <1>t, <1>e DEF Skip, TypeOK, note
<1>11. ASSUME NEW x \in Turn, CallFails(x) PROVE Typed'
  <2>1. night' \in Nights /\ night'.pc \notin Writing
    BY <1>11, <1>o, <1>n, TurnIsInPage DEF CallFails
  <2>2. rows' \in [Paths -> Rows \cup {None}]
    BY <1>11, <1>f DEF CallFails, Failed
  <2> QED
    BY <1>7, <1>11, <2>1, <2>2, <1>t, <1>e DEF CallFails, TypeOK, note
<1>12. ASSUME NEW x \in Turn, Refuse(x) PROVE Typed'
  <2>1. night' \in Nights /\ night'.pc \notin Writing
    BY <1>12, <1>o, <1>n, TurnIsInPage DEF Refuse
  <2>2. rows' \in [Paths -> Rows \cup {None}]
    BY <1>12, <1>f DEF Refuse, Failed
  <2>3. refused' \in [Paths -> Keys]
    BY <1>12, <1>t, TurnIsInPage DEF Refuse, TypeOK
  <2> QED
    BY <1>7, <1>12, <2>1, <2>2, <2>3, <1>t, <1>e DEF Refuse, TypeOK, note
<1>13. ASSUME NEW x \in Turn, JudgeFails(x) PROVE Typed'
  <2>1. night' \in Nights /\ night'.pc \notin Writing
    BY <1>13, <1>o, <1>n, TurnIsInPage DEF JudgeFails
  <2>2. rows' \in [Paths -> Rows \cup {None}]
    BY <1>13, <1>f DEF JudgeFails, Failed
  <2> QED
    BY <1>7, <1>13, <2>1, <2>2, <1>t, <1>e DEF JudgeFails, TypeOK, note
\* the steps that go on with the write
<1>w. ASSUME night' \in Nights, night'.cand \in Candidates, night'.cand \in night'.page,
             night'.pc # "write" => night'.dest \in Paths,
             vault' \in [Paths -> Contents \cup {None}],
             journal' \subseteq Texts, shown' \subseteq Texts,
             UNCHANGED <<indexed, contract, rows, refused, raced, events>>
      PROVE  Typed'
  BY <1>w, <1>n DEF Typed, TypeOK, Writing
<1>14. ASSUME NEW x \in Turn, Accept(x) PROVE Typed'
  <2>1. /\ x \in night.page /\ x \in Candidates /\ night.calls + 2 \in 0..(MaxCalls + 1)
        /\ x.raw.text \in Texts
    BY <1>n, TurnIsInPage DEF Contents
  <2>2. /\ night' \in Nights /\ night'.cand = x /\ night'.page = night.page
        /\ night'.pc = "write"
    <3>1. night' = [night EXCEPT !.pc = "write", !.cand = x, !.calls = @ + 2, !.streak = 0]
      BY <1>14 DEF Accept
    <3>2. 0 \in 0..Fuse
      OBVIOUS
    <3> QED
      BY <1>n, <2>1, <3>1, <3>2 DEF Nights
  <2> QED
    BY <1>14, <1>t, <1>w, <2>1, <2>2 DEF Accept, TypeOK
<1>c. ASSUME night.pc \in Writing
      PROVE  night.cand \in Candidates /\ night.cand \in night.page /\ night.cand.rel \in Paths
  BY <1>c DEF Typed, Candidates
<1>15. CASE Compose
  <2>1. night.pc \in Writing
    BY <1>15 DEF Compose, Writing
  <2> DEFINE x == Previous(night.cand.rel)
  <2>2. x \in Contents /\ Composed(x) \in Contents
    BY <1>c, <1>t, <2>1, PreviousIsContent, ComposedKeepsText
  <2>3. \/ night' = [night EXCEPT !.pc = "record", !.prev = x, !.next = x,
                                  !.dest = night.cand.rel]
        \/ \E d \in Paths :
             night' = [night EXCEPT !.pc = "journal", !.prev = x, !.next = Composed(x),
                                    !.dest = d]
    BY <1>15, <1>c, <2>1 DEF Compose
  <2> HIDE DEF x
  <2>4. /\ night' \in Nights /\ night'.cand = night.cand /\ night'.page = night.page
        /\ night'.dest \in Paths
    <3>1. CASE night' = [night EXCEPT !.pc = "record", !.prev = x, !.next = x,
                                      !.dest = night.cand.rel]
      BY <1>n, <1>c, <2>1, <2>2, <3>1 DEF Nights
    <3>2. ASSUME NEW d \in Paths,
                 night' = [night EXCEPT !.pc = "journal", !.prev = x, !.next = Composed(x),
                                        !.dest = d]
          PROVE  /\ night' \in Nights /\ night'.cand = night.cand
                 /\ night'.page = night.page /\ night'.dest \in Paths
      BY <1>n, <2>2, <3>2 DEF Nights
    <3> QED
      BY <2>3, <3>1, <3>2
  <2> QED
    BY <1>15, <1>t, <1>c, <1>w, <2>1, <2>4 DEF Compose, TypeOK, note
<1>16. CASE ComposeRefuses
  <2>1. night' \in Nights /\ night'.pc \notin Writing
    BY <1>16, <1>o, <1>n DEF ComposeRefuses
  <2> QED
    BY <1>7, <1>16, <2>1, <1>t, <1>e DEF ComposeRefuses, TypeOK, note
<1>17. CASE JournalWrite
  <2>1. night.pc \in Writing /\ night.dest \in Paths
    BY <1>17 DEF JournalWrite, Writing, Typed
  <2>2. journal' \subseteq Texts
    BY <1>17, <1>n, <1>t DEF JournalWrite, Nights, Contents, TypeOK
  <2>3. /\ night' \in Nights /\ night'.cand = night.cand /\ night'.page = night.page
        /\ night'.dest = night.dest
    BY <1>17, <1>n DEF JournalWrite, Nights
  <2> QED
    BY <1>17, <1>t, <1>c, <1>w, <2>1, <2>2, <2>3 DEF JournalWrite, TypeOK, note
<1>18. CASE Move
  <2>1. night.pc \in Writing /\ night.dest \in Paths
    BY <1>18 DEF Move, Writing, Typed
  <2>2. vault' \in [Paths -> Contents \cup {None}]
    BY <1>18, <1>t, <1>c, <2>1 DEF Move, TypeOK
  <2>3. /\ night' \in Nights /\ night'.cand = night.cand /\ night'.page = night.page
        /\ night'.dest = night.dest
    BY <1>18, <1>n DEF Move, Nights
  <2> QED
    BY <1>18, <1>t, <1>c, <1>w, <2>1, <2>2, <2>3 DEF Move, TypeOK, note
<1>19. CASE Put
  <2>1. night.pc \in Writing /\ night.dest \in Paths
    BY <1>19 DEF Put, Writing, Typed
  <2>2. vault' \in [Paths -> Contents \cup {None}]
    BY <1>19, <1>t, <1>n, <2>1 DEF Put, TypeOK, Nights
  <2>3. /\ night' \in Nights /\ night'.cand = night.cand /\ night'.page = night.page
        /\ night'.dest = night.dest
    BY <1>19, <1>n DEF Put, Nights
  <2> QED
    BY <1>19, <1>t, <1>c, <1>w, <2>1, <2>2, <2>3 DEF Put, TypeOK, note
<1>k. night.prev \in Contents /\ night.next \in Contents /\ None \in Keys
  BY <1>n DEF Nights, Keys
<1>20. CASE ApplyFails
  <2>1. night' \in Nights /\ night'.pc \notin Writing
    BY <1>20, <1>o, <1>n DEF ApplyFails
  <2>2. rows' \in [Paths -> Rows \cup {None}]
    <3>1. Key(night.keyed, night.prev) \in Keys
      BY <1>n, <1>k, KeyIsKey
    <3>2. Row("failed", Key(night.keyed, night.prev), None) \in Rows
      BY <1>t, <1>k, <3>1, RowIsRow
    <3> QED
      BY <1>20, <1>t, <3>2, RecordedIsRows DEF ApplyFails, TypeOK
  <2> QED
    BY <1>7, <1>20, <2>1, <2>2, <1>t, <1>e DEF ApplyFails, TypeOK, note
<1>21. CASE RecordDone
  <2>1. night' \in Nights /\ night'.pc \notin Writing
    <3>1. Over(night.cand, 0, night.streak)
      BY <1>21 DEF RecordDone
    <3> QED
      BY <1>o, <1>n, <3>1
  <2>2. rows' \in [Paths -> Rows \cup {None}]
    <3>1. Key(night.keyed, night.prev) \in Keys /\ Key(night.keyed, night.next) \in Keys
      BY <1>n, <1>k, KeyIsKey
    <3>2. RowOf(night.prev, night.next) \in Rows
      BY <1>t, <3>1, RowIsRow DEF RowOf
    <3> QED
      BY <1>21, <1>t, <3>2, RecordedIsRows DEF RecordDone, TypeOK
  <2>3. refused' \in [Paths -> Keys]
    BY <1>21, <1>t, <1>k DEF RecordDone, TypeOK
  <2> QED
    BY <1>7, <1>21, <2>1, <2>2, <2>3, <1>t, <1>e DEF RecordDone, TypeOK, note
<1>22. CASE GiveUp
  <2>1. night' \in Nights /\ night'.pc \notin Writing
    BY <1>22, IdleIsNight DEF GiveUp, Writing
  <2> QED
    BY <1>7, <1>22, <2>1, <1>t, <1>e DEF GiveUp, TypeOK, note
<1>23. CASE UNCHANGED vars
  BY <1>23 DEF vars, note, Typed, TypeOK
<1> QED
  BY <1>1, <1>2, <1>3, <1>4, <1>5, <1>6, <1>8, <1>9, <1>10, <1>11, <1>12, <1>13, <1>14,
     <1>15, <1>16, <1>17, <1>18, <1>19, <1>20, <1>21, <1>22, <1>23
     DEF Next, Operator, OfANight

\* The vault, the ledger and the night keep their types, and a night that is
\* stopped by a guard read before each note has paid for at most one call over
\* it, whatever happens meanwhile.
THEOREM NightTypes == Spec => []TypeOK
<1>1. Typed => TypeOK
  BY DEF Typed
<1> QED
  BY <1>1, InitTyped, StepTyped, PTL DEF Spec
-----------------------------------------------------------------------------
(* What the night destroys of the operator's words.                        *)

\* what stands at p when the note has been read again: what was read then, or
\* what arrived since
Unlost(p) == vault[p] # None => vault[p].text \in {night.prev.text} \cup night.late

\* From the second reading to the write, the note to be replaced holds the text
\* the journal gets, the text the write keeps, or one that came in between.
Safe ==
  /\ night.pc \in {"journal", "move", "put"} => night.next.text = night.prev.text
  /\ night.pc \in {"journal", "move"} => Unlost(night.cand.rel)
  /\ night.pc = "move" => night.dest # night.cand.rel
  /\ night.pc \in {"move", "put"} => night.prev.text \in journal
  /\ night.pc = "put" => Unlost(night.dest)

\* The operator changes only what S names, and S names what is there then.
LEMMA OperatorActs ==
  ASSUME Typed, Operator
  PROVE  \E S : /\ Act(S)
                /\ \A p \in Paths : vault'[p] = vault[p] \/ <<Previous(p)'.text, p>> \in S
<1> USE DEF Typed, TypeOK
<1>1. ASSUME NEW p \in Paths, Save(p)
      PROVE  \E S : /\ Act(S)
                    /\ \A q \in Paths : vault'[q] = vault[q] \/ <<Previous(q)'.text, q>> \in S
  <2>1. Act({<<events + 1, p>>}) /\ \A q \in Paths : q # p => vault'[q] = vault[q]
    BY <1>1 DEF Save
  <2>2. /\ vault'[p] = [text |-> events + 1,
                         by |-> IF vault[p] = None THEN None ELSE vault[p].by]
        /\ events + 1 \in Texts
    BY <1>1, EnrichAssumption DEF Save, Act, Event, Texts
  <2>3. vault'[p] \in Contents /\ vault'[p].text = events + 1
    BY <2>2 DEF Contents
  <2>4. Previous(p)'.text = events + 1
    BY <2>3, NoneAssumption DEF Previous
  <2> QED
    BY <2>1, <2>4
<1>2. ASSUME NEW p \in Paths, NEW q \in Paths, HandMove(p, q)
      PROVE  \E S : /\ Act(S)
                    /\ \A r \in Paths : vault'[r] = vault[r] \/ <<Previous(r)'.text, r>> \in S
  <2>1. /\ Act({<<0, p>>, <<vault[p].text, q>>}) /\ vault[p] # None
        /\ \A r \in Paths \ {p, q} : vault'[r] = vault[r]
        /\ vault'[p] = None /\ vault'[q] = vault[p]
    BY <1>2 DEF HandMove
  <2>2. Previous(p)'.text = 0 /\ Previous(q)'.text = vault[p].text
    BY <2>1 DEF Previous, Blank
  <2> QED
    BY <2>1, <2>2
<1>3. ASSUME NEW p \in Paths, Delete(p)
      PROVE  \E S : /\ Act(S)
                    /\ \A r \in Paths : vault'[r] = vault[r] \/ <<Previous(r)'.text, r>> \in S
  <2>1. /\ Act({<<0, p>>}) /\ vault'[p] = None
        /\ \A r \in Paths \ {p} : vault'[r] = vault[r]
    BY <1>3 DEF Delete
  <2>2. Previous(p)'.text = 0
    BY <2>1 DEF Previous, Blank
  <2> QED
    BY <2>1, <2>2
<1> QED
  BY <1>1, <1>2, <1>3 DEF Operator

LEMMA ActKeepsNight ==
  ASSUME Typed, NEW S, Act(S)
  PROVE  /\ night'.pc = night.pc /\ night'.cand = night.cand /\ night'.dest = night.dest
         /\ night'.prev = night.prev /\ night'.next = night.next /\ night'.page = night.page
         /\ night.late \subseteq night'.late
         /\ InWindow => \A tp \in S : tp[1] \in night'.late
         /\ raced \subseteq raced' /\ \A tp \in S : InHand(tp[2]) => tp[1] \in raced'
  BY DEF Act, Typed, TypeOK, Nights

LEMMA StepSafe == Typed /\ Safe /\ [Next]_vars => Safe'
<1> SUFFICES ASSUME Typed, Safe, [Next]_vars PROVE Safe'
  OBVIOUS
<1>t. /\ TypeOK /\ night \in Nights
      /\ night.pc \in Writing => night.cand \in Candidates /\ night.cand.rel \in Paths
      /\ night.pc \in Writing \ {"write"} => night.dest \in Paths
  BY DEF Typed, TypeOK, Candidates
\* a step that ends outside the window of the write has nothing to keep
<1>o. night'.pc \notin {"journal", "move", "put"} => Safe'
  BY DEF Safe
\* nor has one that touches neither the vault nor the night
<1>u. UNCHANGED <<vault, night, journal>> => Safe'
  BY DEF Safe, Unlost
<1>1. CASE Operator
  <2>1. PICK S : /\ Act(S)
                 /\ \A p \in Paths : vault'[p] = vault[p] \/ <<Previous(p)'.text, p>> \in S
    BY <1>1, OperatorActs
  <2>2. journal' = journal
    BY <2>1 DEF Act
  <2>3. ASSUME InWindow, NEW p \in Paths, Unlost(p) PROVE Unlost(p)'
    <3>1. CASE vault'[p] = vault[p]
      BY <2>1, <2>3, <3>1, ActKeepsNight DEF Unlost
    <3>2. CASE <<Previous(p)'.text, p>> \in S /\ vault'[p] # None
      <4>1. Previous(p)' = vault'[p]
        BY <3>2 DEF Previous
      <4>2. <<Previous(p)'.text, p>>[1] \in night'.late
        BY <2>1, <2>3, <3>2, ActKeepsNight
      <4> QED
        BY <4>1, <4>2 DEF Unlost
    <3> QED
      BY <2>1, <3>1, <3>2 DEF Unlost
  <2> QED
    BY <1>t, <2>1, <2>2, <2>3, ActKeepsNight DEF Safe, InWindow, Writing
<1>2. CASE Reconcile \/ Bump
  BY <1>2, <1>u DEF Reconcile, Bump
<1>3. CASE StartNight
  BY <1>3, <1>o, IdleIsNight DEF StartNight, Nights
<1>4. CASE NextPage
  BY <1>4, <1>t, <1>o, IdleIsNight DEF NextPage, Nights
<1>5. CASE EndPage
  BY <1>5, <1>t, <1>o, IdleIsNight DEF EndPage, Nights
<1>v. ASSUME NEW x, NEW c, NEW streak, Over(x, c, streak) PROVE Safe'
  BY <1>v, <1>t, <1>o DEF Over, Nights
<1>6. ASSUME NEW x \in Turn, Skip(x) \/ CallFails(x) \/ Refuse(x) \/ JudgeFails(x)
      PROVE  Safe'
  BY <1>6, <1>v DEF Skip, CallFails, Refuse, JudgeFails
<1>7. ASSUME NEW x \in Turn, Accept(x) PROVE Safe'
  BY <1>7, <1>t, <1>o DEF Accept, Nights
<1>8. CASE ComposeRefuses \/ ApplyFails \/ RecordDone
  BY <1>8, <1>v DEF ComposeRefuses, ApplyFails, RecordDone
<1>9. CASE GiveUp
  BY <1>9, <1>o, IdleIsNight DEF GiveUp
<1>10. CASE Compose
  <2> DEFINE x == Previous(night.cand.rel)
  <2>1. night.cand.rel \in Paths /\ vault' = vault
    BY <1>10, <1>t DEF Compose, Writing
  <2>2. Composed(x).text = x.text
    BY <1>t, <2>1, PreviousIsContent, ComposedKeepsText
  <2>3. vault[night.cand.rel] # None => x = vault[night.cand.rel]
    BY DEF Previous
  <2>4. ASSUME NEW d, night' = [night EXCEPT !.pc = "journal", !.prev = x,
                                             !.next = Composed(x), !.dest = d]
        PROVE  Safe'
    <3>1. /\ night'.pc = "journal" /\ night'.prev = x /\ night'.next = Composed(x)
          /\ night'.cand = night.cand
      BY <1>t, <2>4 DEF Nights
    <3> HIDE DEF x
    <3> QED
      BY <2>1, <2>2, <2>3, <3>1 DEF Safe, Unlost
  <2>5. ASSUME night' = [night EXCEPT !.pc = "record", !.prev = x, !.next = x,
                                      !.dest = night.cand.rel]
        PROVE  Safe'
    BY <1>t, <1>o, <2>5 DEF Nights
  <2> QED
    BY <1>10, <2>4, <2>5 DEF Compose
<1>11. CASE JournalWrite
  <2>1. /\ night'.prev = night.prev /\ night'.next = night.next /\ night'.cand = night.cand
        /\ night'.dest = night.dest /\ night'.late = night.late
        /\ night'.pc = IF night.dest = night.cand.rel THEN "put" ELSE "move"
        /\ night.prev.text \in journal' /\ vault' = vault /\ night.pc = "journal"
    BY <1>11, <1>t DEF JournalWrite, Nights
  <2> QED
    BY <2>1 DEF Safe, Unlost
<1>12. CASE Move
  <2>1. /\ night'.prev = night.prev /\ night'.next = night.next
        /\ night'.dest = night.dest /\ night'.late = night.late
        /\ night'.pc = "put" /\ night.pc = "move" /\ journal' = journal
    BY <1>12, <1>t DEF Move, Nights
  <2>2. vault'[night.dest] = vault[night.cand.rel]
    BY <1>12, <1>t, <2>1 DEF Move, Safe, TypeOK, Writing
  <2> QED
    BY <2>1, <2>2 DEF Safe, Unlost
<1>13. CASE Put
  BY <1>13, <1>t, <1>o DEF Put, Nights
<1>14. CASE UNCHANGED vars
  BY <1>14, <1>u DEF vars
<1> QED
  BY <1>1, <1>2, <1>3, <1>4, <1>5, <1>6, <1>7, <1>8, <1>9, <1>10, <1>11, <1>12, <1>13,
     <1>14 DEF Next, OfANight

\* main.go and write.go: whatever is edited, moved, killed or refused, a step
\* of the night's destroys only words the journal has, words that arrived after
\* the note was read again, or a note that stood where another was renamed to.
THEOREM WordsSurviveTheNight == Spec => OnlyRacesLose
<1> DEFINE Kept == events' = events =>
       \A p \in Paths : vault[p] # None =>
         \/ vault[p].text \in {0} \cup journal' \cup night.late
         \/ \E q \in Paths : vault'[q] # None /\ vault'[q].text = vault[p].text
         \/ night.pc = "move" /\ p = night.dest
<1>1. Init => Safe
  BY IdleIsNight DEF Init, Safe
<1>2. Typed /\ Safe /\ [Next]_vars => [Kept]_vars
  <2> SUFFICES ASSUME Typed, Safe, Next, events' = events, NEW p \in Paths, vault[p] # None,
                      ~(night.pc = "move" /\ p = night.dest),
                      vault[p].text \notin {0} \cup journal' \cup night.late
               PROVE  \E q \in Paths : vault'[q] # None /\ vault'[q].text = vault[p].text
    OBVIOUS
  <2>t. /\ vault \in [Paths -> Contents \cup {None}]
        /\ night.pc \in Writing \ {"write"} => night.dest \in Paths
    BY DEF Typed, TypeOK
  <2>1. vault' = vault => vault'[p] # None /\ vault'[p].text = vault[p].text
    OBVIOUS
  <2>2. CASE Operator
    <3>1. events \in Nat
      BY EnrichAssumption DEF Typed, TypeOK
    <3>2. events' = events + 1
      BY <2>2, OperatorActs DEF Act, Event
    <3> QED
      BY <3>1, <3>2
  <2>3. CASE Move
    <3>1. /\ night.pc = "move" /\ night.dest \in Paths /\ night.dest # night.cand.rel
          /\ vault' = [vault EXCEPT ![night.dest] = vault[night.cand.rel],
                                    ![night.cand.rel] = None]
      BY <2>3, <2>t DEF Move, Safe, Writing
    <3>2. vault'[night.dest] = vault[night.cand.rel]
      BY <2>t, <3>1
    <3>3. CASE p = night.cand.rel
      BY <3>1, <3>2, <3>3
    <3>4. CASE p # night.cand.rel
      <4>1. vault'[p] = vault[p]
        BY <2>t, <3>1, <3>4
      <4> QED
        BY <4>1
    <3> QED
      BY <3>3, <3>4
  <2>4. CASE Put
    <3>1. /\ night.pc = "put" /\ night.dest \in Paths /\ journal' = journal
          /\ vault' = [vault EXCEPT ![night.dest] = night.next]
      BY <2>4, <2>t DEF Put, Writing
    <3>2. p # night.dest
      BY <3>1 DEF Safe, Unlost
    <3>3. vault'[p] = vault[p]
      BY <2>t, <3>1, <3>2
    <3> QED
      BY <3>3
  <2>5. CASE Reconcile \/ Bump \/ StartNight \/ NextPage \/ EndPage \/ GiveUp
    BY <2>1, <2>5 DEF Reconcile, Bump, StartNight, NextPage, EndPage, GiveUp
  <2>6. CASE \E x \in Turn : Skip(x) \/ CallFails(x) \/ Refuse(x) \/ JudgeFails(x) \/ Accept(x)
    BY <2>1, <2>6 DEF Skip, CallFails, Refuse, JudgeFails, Accept
  <2>7. CASE Compose \/ ComposeRefuses \/ JournalWrite \/ ApplyFails \/ RecordDone
    BY <2>1, <2>7 DEF Compose, ComposeRefuses, JournalWrite, ApplyFails, RecordDone
  <2> QED
    BY <2>2, <2>3, <2>4, <2>5, <2>6, <2>7 DEF Next, OfANight
<1>3. Typed /\ Safe /\ [Next]_vars => Typed' /\ Safe'
  BY StepTyped, StepSafe
<1> QED
  BY <1>1, <1>2, <1>3, InitTyped, PTL DEF Spec, OnlyRacesLose
-----------------------------------------------------------------------------
(* What the ledger vouches for.                                            *)

\* texts a judgment was made from, or that came while the night had the note
Accounted == shown \cup raced

\* a done row names only such texts
VouchedRow(row) ==
  row.outcome = "done" =>
    \A c \in Judgments, y \in Contents : Fits(row, Key(c, y)) => y.text \in Accounted

Vouched == \A p \in Paths : rows[p] # None => VouchedRow(rows[p])

\* the note being written may be on its way to another path
Underway(x) == night.pc \in {"put", "record"} /\ x = night.cand

\* A note of the page reads as the night has it, or what it reads was accounted
\* for; so is what the night read again and is about to write.
Read ==
  /\ \A x, y \in night.page : x.rel = y.rel => x = y
  /\ \A x \in night.page :
       Underway(x) \/ Previous(x.rel).text \in {x.raw.text} \cup Accounted
  /\ night.pc \in {"write", "journal", "move"} => Previous(night.cand.rel).text \in Accounted
  /\ night.pc \in Writing \ {"write"} =>
       night.prev.text \in Accounted /\ night.next.text = night.prev.text

LEMMA StepVouched == Typed /\ Read /\ Vouched /\ [Next]_vars => Vouched'
<1> SUFFICES ASSUME Typed, Read, Vouched, [Next]_vars PROVE Vouched'
  OBVIOUS
<1>t. /\ TypeOK /\ night \in Nights /\ night.keyed \in Judgments
      /\ night.prev \in Contents /\ night.next \in Contents /\ None \in Keys
  BY DEF Typed, TypeOK, Nights, Keys
<1>u. ASSUME UNCHANGED rows, shown \subseteq shown', raced \subseteq raced' PROVE Vouched'
  BY <1>u DEF Vouched, VouchedRow, Accounted, Fits
\* a row of a failure or a skip vouches for nothing
<1>f. ASSUME NEW p, NEW outcome \in {"failed", "skipped"}, NEW k \in Keys,
             rows' = Recorded(rows, p, Row(outcome, k, None)), shown' = shown, raced' = raced
      PROVE  Vouched'
  <2> DEFINE row == Row(outcome, k, None)
  <2>1. row \in Rows /\ row.outcome # "done"
    BY <1>t, RowIsRow
  <2>2. rows' = Recorded(rows, p, row)
    BY <1>f
  <2> HIDE DEF row
  <2>3. ASSUME NEW q \in Paths PROVE (rows[q] # None => VouchedRow(rows[q]))'
    <3>1. rows'[q] = rows[q] \/ rows'[q] = row
      BY <1>t, <2>2 DEF Recorded, TypeOK
    <3> QED
      BY <1>f, <2>1, <3>1 DEF Vouched, VouchedRow, Accounted, Fits
  <2> QED
    BY <2>3 DEF Vouched
<1>1. CASE Operator
  <2>1. PICK S : Act(S)
    BY <1>1, OperatorActs
  <2>2. UNCHANGED rows /\ shown' = shown /\ raced \subseteq raced'
    BY <2>1, ActKeepsNight DEF Act
  <2> QED
    BY <1>u, <2>2
<1>2. CASE Reconcile \/ Bump \/ NextPage \/ EndPage \/ GiveUp
  BY <1>2, <1>u DEF Reconcile, Bump, NextPage, EndPage, GiveUp, note
<1>3. CASE StartNight
  <2>1. \A p \in Paths : rows'[p] = None \/ \E q \in Paths : rows'[p] = rows[q]
    BY <1>3, <1>t, FollowedIsRows DEF StartNight
  <2>2. UNCHANGED <<shown, raced>>
    BY <1>3 DEF StartNight, note
  <2> QED
    BY <2>1, <2>2 DEF Vouched, VouchedRow, Accounted, Fits
<1>4. ASSUME NEW x \in Turn, Skip(x) PROVE Vouched'
  BY <1>4, <1>f, TurnIsInPage DEF Skip, note
<1>5. ASSUME NEW x \in Turn, CallFails(x) \/ Refuse(x) \/ JudgeFails(x) PROVE Vouched'
  BY <1>5, <1>f, TurnIsInPage DEF CallFails, Refuse, JudgeFails, Failed, note
<1>6. ASSUME NEW x \in Turn, Accept(x) PROVE Vouched'
  BY <1>6, <1>u DEF Accept
<1>7. CASE Compose \/ ComposeRefuses \/ JournalWrite \/ Move \/ Put
  BY <1>7, <1>u DEF Compose, ComposeRefuses, JournalWrite, Move, Put, note
<1>8. CASE ApplyFails
  <2>1. Key(night.keyed, night.prev) \in Keys
    BY <1>t, KeyIsKey
  <2> QED
    BY <1>8, <1>f, <2>1 DEF ApplyFails, note
<1>9. CASE RecordDone
  <2> DEFINE row == RowOf(night.prev, night.next)
  <2>1. Key(night.keyed, night.prev) \in Keys /\ Key(night.keyed, night.next) \in Keys
    BY <1>t, KeyIsKey
  <2>2. /\ row \in Rows /\ row.in = Key(night.keyed, night.prev)
        /\ row.out = Key(night.keyed, night.next)
    BY <1>t, <2>1, RowIsRow DEF RowOf
  <2>3. night.prev.text \in Accounted /\ night.next.text \in Accounted
    BY <1>9 DEF RecordDone, Read, Writing
  <2>4. UNCHANGED <<shown, raced>>
    BY <1>9 DEF RecordDone, note
  <2>5. rows' = Recorded(rows, night.dest, row) \/ UNCHANGED rows
    BY <1>9 DEF RecordDone
  <2> HIDE DEF row
  <2>6. \A c, y : Fits(row, Key(c, y)) => y \in {night.prev, night.next}
    BY <2>2 DEF Fits, Key
  <2>7. VouchedRow(row)
    BY <2>3, <2>6 DEF VouchedRow
  <2>8. ASSUME NEW q \in Paths PROVE (rows[q] # None => VouchedRow(rows[q]))'
    <3>1. rows'[q] = rows[q] \/ rows'[q] = row
      BY <1>t, <2>5 DEF Recorded, TypeOK
    <3> QED
      BY <2>4, <2>7, <3>1 DEF Vouched, VouchedRow, Accounted, Fits
  <2> QED
    BY <2>8 DEF Vouched
<1>10. CASE UNCHANGED vars
  BY <1>10, <1>u DEF vars, note
<1> QED
  BY <1>1, <1>2, <1>3, <1>4, <1>5, <1>6, <1>7, <1>8, <1>9, <1>10 DEF Next, OfANight

LEMMA StepRead == Typed /\ Read /\ [Next]_vars => Read'
<1> SUFFICES ASSUME Typed, Read, [Next]_vars PROVE Read'
  OBVIOUS
<1>t. /\ TypeOK /\ night \in Nights /\ night.page \subseteq Candidates
      /\ vault \in [Paths -> Contents \cup {None}]
      /\ night.pc \in Writing =>
           night.cand \in night.page /\ night.cand \in Candidates /\ night.cand.rel \in Paths
      /\ night.pc \in Writing \ {"write"} => night.dest \in Paths
      /\ \A x \in night.page : x.rel \in Paths
  BY DEF Typed, TypeOK, Nights, Candidates
<1>i. night' = Idle => Read'
  BY IdleIsNight DEF Idle, Read, Writing
<1>u. UNCHANGED <<vault, night, shown, raced>> => Read'
  BY DEF Read, Previous, Accounted, Underway
\* the note is dropped, the others are as they were
<1>o. ASSUME NEW x, NEW c, NEW streak, Over(x, c, streak), night.pc \in Writing => x = night.cand,
             UNCHANGED <<vault, shown, raced>>
      PROVE  Read'
  <2>1. night'.pc = "note" /\ night'.page = night.page \ {x}
    BY <1>o, <1>t DEF Over, Nights
  <2>2. \A y \in night.page \ {x} : ~Underway(y)
    BY <1>o DEF Underway, Writing
  <2> QED
    BY <1>o, <2>1, <2>2 DEF Read, Previous, Accounted, Underway, Writing
<1>1. CASE Operator
  <2>1. PICK S : /\ Act(S)
                 /\ \A p \in Paths : vault'[p] = vault[p] \/ <<Previous(p)'.text, p>> \in S
    BY <1>1, OperatorActs
  <2>2. /\ night'.pc = night.pc /\ night'.cand = night.cand /\ night'.page = night.page
        /\ night'.prev = night.prev /\ night'.next = night.next
        /\ shown' = shown /\ raced \subseteq raced'
    BY <2>1, ActKeepsNight DEF Act
  <2>3. ASSUME NEW x \in night.page
        PROVE  Previous(x.rel)' = Previous(x.rel) \/ Previous(x.rel)'.text \in raced'
    <3>1. CASE vault'[x.rel] = vault[x.rel]
      BY <3>1 DEF Previous
    <3>2. CASE <<Previous(x.rel)'.text, x.rel>> \in S
      <4>1. InHand(x.rel)
        BY DEF InHand
      <4>2. <<Previous(x.rel)'.text, x.rel>>[1] \in raced'
        BY <2>1, <3>2, <4>1, ActKeepsNight
      <4> QED
        BY <4>2
    <3> QED
      BY <1>t, <2>1, <3>1, <3>2
  <2>4. \A x \in night'.page :
          Underway(x)' \/ Previous(x.rel)'.text \in {x.raw.text} \cup Accounted'
    BY <2>2, <2>3 DEF Read, Underway, Accounted
  <2>5. ASSUME night.pc \in {"write", "journal", "move"}
        PROVE  Previous(night.cand.rel)'.text \in Accounted'
    <3>1. Previous(night.cand.rel).text \in Accounted /\ night.cand \in night.page
      BY <1>t, <2>5 DEF Read, Writing
    <3>2. \/ Previous(night.cand.rel)' = Previous(night.cand.rel)
          \/ Previous(night.cand.rel)'.text \in raced'
      BY <2>2, <2>3, <3>1 DEF Previous
    <3> QED
      BY <2>2, <3>1, <3>2 DEF Accounted
  <2> QED
    BY <2>2, <2>4, <2>5 DEF Read, Accounted
<1>2. CASE Reconcile \/ Bump
  BY <1>2, <1>u DEF Reconcile, Bump, note
<1>3. CASE StartNight
  <2>1. night'.pc = "list" /\ night'.page = {}
    BY <1>3, IdleIsNight DEF StartNight, Nights, Idle
  <2> QED
    BY <2>1 DEF Read, Writing
<1>4. CASE NextPage
  <2>1. PICK w \in Slices : LET there == {p \in w : vault[p] # None}
       IN night' = IF Stop \/ there = {} THEN Idle
                   ELSE [night EXCEPT !.pc = "note", !.queue = @ \ w,
                           !.short = Cardinality(there) < PageSize,
                           !.page = {[rel |-> p, raw |-> vault[p]] : p \in there}]
    BY <1>4 DEF NextPage
  <2> DEFINE there == {p \in w : vault[p] # None}
             page == {[rel |-> p, raw |-> vault[p]] : p \in there}
             short == Cardinality(there) < PageSize
  <2>2. /\ \A x, y \in page : x.rel = y.rel => x = y
        /\ \A x \in page : vault[x.rel] # None /\ x.raw = vault[x.rel]
    OBVIOUS
  <2>3. night' = IF Stop \/ there = {} THEN Idle
                 ELSE [night EXCEPT !.pc = "note", !.queue = @ \ w, !.short = short,
                                    !.page = page]
    BY <2>1
  <2>4. UNCHANGED <<vault, shown, raced>>
    BY <1>4 DEF NextPage, note
  <2> HIDE DEF there, page, short
  <2>5. ASSUME ~(Stop \/ there = {}) PROVE Read'
    <3>1. night'.pc = "note" /\ night'.page = page
      BY <1>t, <2>3, <2>5 DEF Nights
    <3> QED
      BY <2>2, <2>4, <3>1 DEF Read, Previous, Writing
  <2> QED
    BY <1>i, <2>3, <2>5
<1>5. CASE EndPage
  <2>1. UNCHANGED <<vault, shown, raced>> /\ night.pc = "note"
    BY <1>5 DEF EndPage, note
  <2>2. ASSUME night' = [night EXCEPT !.pc = "list"] PROVE Read'
    <3>1. night'.pc = "list" /\ night'.page = night.page
      BY <1>t, <2>2 DEF Nights
    <3> QED
      BY <2>1, <3>1 DEF Read, Previous, Accounted, Underway, Writing
  <2> QED
    BY <1>5, <1>i, <2>2 DEF EndPage
<1>6. ASSUME NEW x \in Turn, Skip(x) \/ CallFails(x) \/ Refuse(x) \/ JudgeFails(x)
      PROVE  Read'
  <2>1. night.pc \notin Writing
    BY TurnIsInPage DEF Writing
  <2> QED
    BY <1>6, <1>o, <2>1 DEF Skip, CallFails, Refuse, JudgeFails, note
<1>7. ASSUME NEW x \in Turn, Accept(x) PROVE Read'
  <2>1. x \in night.page /\ night.pc = "note"
    BY TurnIsInPage
  <2>2. /\ night'.pc = "write" /\ night'.cand = x /\ night'.page = night.page
        /\ vault' = vault /\ shown' = shown \cup {x.raw.text} /\ raced' = raced
    BY <1>7, <1>t DEF Accept, Nights
  <2>3. Previous(x.rel).text \in {x.raw.text} \cup Accounted
    BY <2>1 DEF Read, Underway
  <2> QED
    BY <2>1, <2>2, <2>3 DEF Read, Previous, Accounted, Underway, Writing
<1>8. CASE ComposeRefuses \/ ApplyFails \/ RecordDone
  BY <1>8, <1>o DEF ComposeRefuses, ApplyFails, RecordDone, note
<1>9. CASE GiveUp
  BY <1>9, <1>i DEF GiveUp
<1>10. CASE Compose
  <2> DEFINE x == Previous(night.cand.rel)
  <2>1. /\ night.cand.rel \in Paths /\ night.pc = "write" /\ UNCHANGED <<vault, shown, raced>>
    BY <1>10, <1>t DEF Compose, Writing, note
  <2>2. Composed(x).text = x.text /\ x.text \in Accounted
    BY <1>t, <2>1, PreviousIsContent, ComposedKeepsText DEF Read
  <2>3. /\ night'.pc \in {"journal", "record"} /\ night'.prev = x
        /\ night'.next \in {x, Composed(x)}
        /\ night'.cand = night.cand /\ night'.page = night.page
    <3>1. \/ night' = [night EXCEPT !.pc = "record", !.prev = x, !.next = x,
                                    !.dest = night.cand.rel]
          \/ \E d : night' = [night EXCEPT !.pc = "journal", !.prev = x,
                                           !.next = Composed(x), !.dest = d]
      BY <1>10 DEF Compose
    <3> DEFINE y == Composed(x)
    <3> HIDE DEF x, y
    <3>2. CASE night' = [night EXCEPT !.pc = "record", !.prev = x, !.next = x,
                                      !.dest = night.cand.rel]
      BY <1>t, <3>2 DEF Nights
    <3>3. ASSUME NEW d, night' = [night EXCEPT !.pc = "journal", !.prev = x,
                                               !.next = y, !.dest = d]
          PROVE  /\ night'.pc \in {"journal", "record"} /\ night'.prev = x
                 /\ night'.next \in {x, y}
                 /\ night'.cand = night.cand /\ night'.page = night.page
      BY <1>t, <3>3 DEF Nights
    <3> QED
      BY <3>1, <3>2, <3>3 DEF y
  <2> HIDE DEF x
  <2>4. Previous(night.cand.rel)'.text \in Accounted'
    BY <2>1, <2>2, <2>3 DEF x, Previous, Accounted
  <2> QED
    BY <2>1, <2>2, <2>3, <2>4 DEF Read, Previous, Accounted, Underway, Writing
<1>11. CASE JournalWrite
  <2>1. /\ night'.prev = night.prev /\ night'.next = night.next /\ night'.cand = night.cand
        /\ night'.page = night.page /\ night'.pc \in {"put", "move"}
        /\ night.pc = "journal" /\ UNCHANGED <<vault, shown, raced>>
    BY <1>11, <1>t DEF JournalWrite, Nights, note
  <2> QED
    BY <2>1 DEF Read, Previous, Accounted, Underway, Writing
<1>12. CASE Move
  <2>1. /\ night'.prev = night.prev /\ night'.next = night.next /\ night'.cand = night.cand
        /\ night'.page = night.page /\ night'.pc = "put"
        /\ night.pc = "move" /\ UNCHANGED <<shown, raced>>
        /\ night.dest \in Paths /\ night.cand.rel \in Paths /\ night.cand \in night.page
        /\ vault[night.cand.rel] # None
    BY <1>12, <1>t DEF Move, Nights, note, Writing
  <2>2. /\ \A p \in Paths \ {night.dest, night.cand.rel} : vault'[p] = vault[p]
        /\ night.dest # night.cand.rel => vault'[night.dest] = vault[night.cand.rel]
    BY <1>12, <1>t, <2>1 DEF Move
  <2>3. ASSUME NEW y \in night.page, y # night.cand
        PROVE  Previous(y.rel)'.text \in {y.raw.text} \cup Accounted
    <3>1. y.rel # night.cand.rel /\ y.rel \in Paths
      BY <1>t, <2>1, <2>3 DEF Read
    <3>2. CASE y.rel = night.dest
      <4>1. Previous(y.rel)' = Previous(night.cand.rel)
        BY <2>1, <2>2, <3>1, <3>2 DEF Previous
      <4> QED
        BY <2>1, <4>1 DEF Read
    <3>3. CASE y.rel # night.dest
      <4>1. Previous(y.rel)' = Previous(y.rel)
        BY <2>2, <3>1, <3>3 DEF Previous
      <4> QED
        BY <2>1, <4>1 DEF Read, Underway
    <3> QED
      BY <3>2, <3>3
  <2>4. \A y \in night'.page :
          Underway(y)' \/ Previous(y.rel)'.text \in {y.raw.text} \cup Accounted'
    BY <2>1, <2>3 DEF Underway, Accounted
  <2> QED
    BY <2>1, <2>4 DEF Read, Accounted, Writing
<1>13. CASE Put
  <2>1. /\ night'.prev = night.prev /\ night'.next = night.next /\ night'.cand = night.cand
        /\ night'.page = night.page /\ night'.pc = "record"
        /\ night.pc = "put" /\ UNCHANGED <<shown, raced>> /\ night.dest \in Paths
        /\ night.next.text \in Accounted /\ night.next \in Contents
    BY <1>13, <1>t DEF Put, Nights, note, Writing, Read
  <2>2. /\ \A p \in Paths \ {night.dest} : vault'[p] = vault[p]
        /\ vault'[night.dest] = night.next
    BY <1>13, <1>t, <2>1 DEF Put
  <2>3. ASSUME NEW y \in night.page, y # night.cand
        PROVE  Previous(y.rel)'.text \in {y.raw.text} \cup Accounted
    <3>1. CASE y.rel = night.dest
      BY <2>1, <2>2, <3>1, NoneAssumption DEF Previous
    <3>2. CASE y.rel # night.dest
      <4>1. Previous(y.rel)' = Previous(y.rel)
        BY <1>t, <2>2, <3>2 DEF Previous
      <4> QED
        BY <2>1, <2>3, <4>1 DEF Read, Underway
    <3> QED
      BY <3>1, <3>2
  <2>4. \A y \in night'.page :
          Underway(y)' \/ Previous(y.rel)'.text \in {y.raw.text} \cup Accounted'
    BY <2>1, <2>3 DEF Underway, Accounted
  <2> QED
    BY <2>1, <2>4 DEF Read, Accounted, Writing
<1>14. CASE UNCHANGED vars
  BY <1>14, <1>u DEF vars, note
<1> QED
  BY <1>1, <1>2, <1>3, <1>4, <1>5, <1>6, <1>7, <1>8, <1>9, <1>10, <1>11, <1>12, <1>13,
     <1>14 DEF Next, OfANight

LEMMA VouchedIsJudged == Typed /\ Vouched => JudgedOrRaced
<1> SUFFICES ASSUME Typed, Vouched, NEW p \in Paths, Current(p)
             PROVE  vault[p].text \in shown \cup raced
  BY DEF JudgedOrRaced
<1>1. /\ TypeOK /\ rows \in [Paths -> Rows \cup {None}] /\ contract \in Judgments
      /\ vault[p] # None /\ vault[p] \in Contents /\ Cause(rows, p) = 7
  BY DEF Typed, TypeOK, Current
<1>2. rows[p] # None /\ rows[p].outcome = "done" /\ Fits(rows[p], Key(contract, vault[p]))
  BY <1>1, CauseIsCause
<1> QED
  BY <1>1, <1>2 DEF Vouched, VouchedRow, Accounted

\* The ledger vouches for a note only as a judgment saw it, or as it came while
\* the night had the note in its hands: never for an edit between two nights,
\* whatever was followed, re-recorded, refused or killed.
THEOREM LedgerVouchesForJudged == Spec => []JudgedOrRaced
<1>1. Init => Read /\ Vouched
  <2> SUFFICES ASSUME Init PROVE Read /\ Vouched
    OBVIOUS
  <2>1. night.pc = "idle" /\ night.page = {} /\ \A p \in Paths : rows[p] = None
    BY IdleIsNight DEF Init, Idle
  <2> QED
    BY <2>1 DEF Read, Vouched, Writing
<1>2. Typed /\ Read /\ Vouched /\ [Next]_vars => Typed' /\ Read' /\ Vouched'
  BY StepTyped, StepRead, StepVouched
<1> QED
  BY <1>1, <1>2, InitTyped, VouchedIsJudged, PTL DEF Spec
-----------------------------------------------------------------------------
(* What was paid for.  A current row was made under the contract as it     *)
(* reads, so a night that works under an older one finds no row current;   *)
(* and a night writes only onto notes whose row did not fit them when it   *)
(* began to pay.  Then no step of a night speaks over a current row,       *)
(* unless it holds another note for its path.                              *)

\* the contract the newest row can have been keyed under
Latest == IF night.pc = "idle" THEN contract.rules ELSE night.keyed.rules

DatedRow(row) ==
  row.outcome = "done" =>
    \A c \in Judgments, y \in Contents : Fits(row, Key(c, y)) => c.rules <= Latest

Dated ==
  /\ night.pc # "idle" =>
       night.keyed.pass = contract.pass /\ night.keyed.rules <= contract.rules
  /\ \A p \in Paths : rows[p] # None => DatedRow(rows[p])

\* no row fits the note the night is writing
Unpaid == night.pc \in Writing => ~Seen(rows, night.cand.rel, KeyOf(night.cand))

LEMMA InitPaid == Init => Dated /\ Unpaid
<1> SUFFICES ASSUME Init PROVE Dated /\ Unpaid
  OBVIOUS
<1>1. night.pc = "idle" /\ \A p \in Paths : rows[p] = None
  BY IdleIsNight DEF Init
<1> QED
  BY <1>1 DEF Dated, Unpaid, Writing

LEMMA StepUnpaid == Typed /\ Unpaid /\ [Next]_vars => Unpaid'
<1> SUFFICES ASSUME Typed, Unpaid, [Next]_vars PROVE Unpaid'
  OBVIOUS
<1>t. night \in Nights
  BY DEF Typed, TypeOK
<1>o. night'.pc \notin Writing => Unpaid'
  BY DEF Unpaid
<1>u. ASSUME UNCHANGED rows, night'.pc \in Writing => night.pc \in Writing,
             night'.cand = night.cand, night'.keyed = night.keyed
      PROVE  Unpaid'
  BY <1>u DEF Unpaid, Seen, Done, KeyOf
<1>v. ASSUME NEW x, NEW c, NEW streak, Over(x, c, streak) PROVE Unpaid'
  BY <1>v, <1>t, <1>o DEF Over, Nights, Writing
<1>i. night' = Idle => Unpaid'
  BY <1>o, IdleIsNight DEF Writing
<1>1. CASE Operator
  <2>1. PICK S : Act(S)
    BY <1>1, OperatorActs
  <2>2. /\ UNCHANGED rows /\ night'.pc = night.pc /\ night'.cand = night.cand
        /\ night'.keyed = night.keyed
    BY <2>1, <1>t DEF Act, Nights
  <2> QED
    BY <1>u, <2>2
<1>2. CASE Reconcile \/ Bump
  BY <1>2, <1>u DEF Reconcile, Bump
<1>3. CASE StartNight
  BY <1>3, <1>o, IdleIsNight DEF StartNight, Nights, Writing
<1>4. CASE NextPage \/ EndPage
  BY <1>4, <1>t, <1>o, <1>i DEF NextPage, EndPage, Nights, Writing
<1>5. ASSUME NEW x \in Turn, Skip(x) \/ CallFails(x) \/ Refuse(x) \/ JudgeFails(x)
      PROVE  Unpaid'
  BY <1>5, <1>v DEF Skip, CallFails, Refuse, JudgeFails
<1>6. ASSUME NEW x \in Turn, Accept(x) PROVE Unpaid'
  <2>1. night'.cand = x /\ night'.keyed = night.keyed /\ UNCHANGED rows
    BY <1>6, <1>t DEF Accept, Nights
  <2>2. ~Seen(rows, x.rel, KeyOf(x))
    BY <1>6 DEF Accept, Answered, Known
  <2> QED
    BY <2>1, <2>2 DEF Unpaid, Seen, Done, KeyOf
<1>7. CASE Compose
  <2> DEFINE x == Previous(night.cand.rel)
             y == Composed(x)
  <2>1. /\ UNCHANGED rows /\ night.pc = "write"
        /\ \/ night' = [night EXCEPT !.pc = "record", !.prev = x, !.next = x,
                                     !.dest = night.cand.rel]
           \/ \E d : night' = [night EXCEPT !.pc = "journal", !.prev = x, !.next = y,
                                            !.dest = d]
    BY <1>7 DEF Compose
  <2> HIDE DEF x, y
  <2>2. night'.cand = night.cand /\ night'.keyed = night.keyed
    BY <2>1, <1>t DEF Nights
  <2> QED
    BY <1>u, <2>1, <2>2 DEF Writing
<1>8. CASE JournalWrite \/ Move \/ Put
  BY <1>8, <1>t, <1>u DEF JournalWrite, Move, Put, Nights, Writing
<1>9. CASE ComposeRefuses \/ ApplyFails \/ RecordDone
  BY <1>9, <1>v DEF ComposeRefuses, ApplyFails, RecordDone
<1>10. CASE GiveUp
  BY <1>10, <1>i DEF GiveUp
<1>11. CASE UNCHANGED vars
  BY <1>11, <1>u DEF vars
<1> QED
  BY <1>1, <1>2, <1>3, <1>4, <1>5, <1>6, <1>7, <1>8, <1>9, <1>10, <1>11 DEF Next, OfANight

LEMMA StepDated == Typed /\ Dated /\ [Next]_vars => Dated'
<1> SUFFICES ASSUME Typed, Dated, [Next]_vars PROVE Dated'
  OBVIOUS
<1>t. /\ TypeOK /\ night \in Nights /\ night.keyed \in Judgments
      /\ night.prev \in Contents /\ night.next \in Contents /\ None \in Keys
      /\ contract \in Judgments /\ rows \in [Paths -> Rows \cup {None}]
  BY DEF Typed, TypeOK, Nights, Keys
<1>j. /\ contract.rules \in Int /\ night.keyed.rules \in Int
      /\ \A c \in Judgments : c.rules \in Int
  BY <1>t DEF Judgments
\* the rows: each is an old one, or vouches for nothing, or is keyed by the night
<1>r. ASSUME contract' \in Judgments, Latest' \in Int, Latest <= Latest', Latest \in Int,
             night'.pc # "idle" =>
               night'.keyed.pass = contract'.pass /\ night'.keyed.rules <= contract'.rules,
             \A p \in Paths : rows'[p] # None =>
               \/ rows'[p].outcome # "done"
               \/ \E q \in Paths : rows'[p] = rows[q]
               \/ DatedRow(rows'[p])
      PROVE  Dated'
  <2>1. ASSUME NEW p \in Paths, rows'[p] # None PROVE DatedRow(rows[p])'
    <3>1. CASE rows'[p].outcome # "done"
      BY <3>1 DEF DatedRow
    <3>2. CASE (\E q \in Paths : rows'[p] = rows[q]) \/ DatedRow(rows'[p])
      <4>1. DatedRow(rows'[p])
        BY <2>1, <3>2 DEF Dated
      <4>2. ASSUME NEW c \in Judgments, NEW y \in Contents, Fits(rows'[p], Key(c, y)),
                   rows'[p].outcome = "done"
            PROVE  c.rules <= Latest'
        <5>1. c.rules <= Latest
          BY <4>1, <4>2 DEF DatedRow
        <5> QED
          BY <1>r, <1>j, <5>1
      <4> QED
        BY <4>2 DEF DatedRow, Fits, Key
    <3> QED
      BY <1>r, <2>1, <3>1, <3>2
  <2> QED
    BY <1>r, <2>1 DEF Dated
<1>l. Latest \in Int /\ Latest <= contract.rules
  BY <1>j DEF Latest, Dated
\* the steps that leave the contract, the rows and the night's own contract alone
<1>u. ASSUME UNCHANGED <<rows, contract>>,
             \/ night'.pc = "idle"
             \/ night.pc # "idle" /\ night'.pc # "idle" /\ night'.keyed = night.keyed
             \/ night'.pc = night.pc /\ night'.keyed = night.keyed
      PROVE  Dated'
  <2>1. Latest' \in Int /\ Latest <= Latest' /\
        (night'.pc # "idle" =>
           night'.keyed.pass = contract'.pass /\ night'.keyed.rules <= contract'.rules)
    BY <1>u, <1>j, <1>l DEF Latest, Dated
  <2> QED
    BY <1>r, <1>u, <1>t, <1>l, <2>1
\* the steps that are through with a note
<1>v. ASSUME NEW x, NEW c, NEW streak, Over(x, c, streak), night.pc # "idle",
             UNCHANGED contract,
             \A p \in Paths : rows'[p] # None =>
               \/ rows'[p].outcome # "done"
               \/ \E q \in Paths : rows'[p] = rows[q]
               \/ DatedRow(rows'[p])
      PROVE  Dated'
  <2>1. night'.pc = "note" /\ night'.keyed = night.keyed
    BY <1>v, <1>t DEF Over, Nights
  <2>2. Latest' = Latest
    BY <1>v, <2>1 DEF Latest
  <2>3. night'.keyed.pass = contract'.pass /\ night'.keyed.rules <= contract'.rules
    BY <1>v, <2>1 DEF Dated
  <2> QED
    BY <1>r, <1>t, <1>l, <1>v, <2>2, <2>3
\* recording a failure or a skip
<1>f. ASSUME NEW p, NEW outcome \in {"failed", "skipped"}, NEW k \in Keys,
             rows' = Recorded(rows, p, Row(outcome, k, None)), NEW q \in Paths
      PROVE  rows'[q].outcome # "done" \/ rows'[q] = rows[q]
  <2> DEFINE row == Row(outcome, k, None)
  <2>1. row.outcome # "done"
    BY <1>t, RowIsRow
  <2>2. rows' = Recorded(rows, p, row)
    BY <1>f
  <2> HIDE DEF row
  <2> QED
    BY <1>t, <2>1, <2>2 DEF Recorded
<1>1. CASE Operator
  <2>1. PICK S : Act(S)
    BY <1>1, OperatorActs
  <2>2. UNCHANGED <<rows, contract>> /\ night'.pc = night.pc /\ night'.keyed = night.keyed
    BY <2>1, <1>t DEF Act, Nights
  <2> QED
    BY <1>u, <2>2
<1>2. CASE Reconcile
  BY <1>2, <1>u DEF Reconcile
<1>3. CASE Bump
  <2>1. UNCHANGED <<rows, night>>
    BY <1>3 DEF Bump
  <2>2. /\ contract' \in Judgments /\ contract.rules <= contract'.rules
        /\ contract'.rules \in Int
        /\ night.pc # "idle" => contract'.pass = contract.pass
    <3>1. contract.pass \in Nat /\ contract.rules \in Nat /\ events \in Nat
          /\ contract.pass <= events /\ contract.rules <= events
      BY <1>t, EnrichAssumption DEF Typed, TypeOK, Judgments
    <3>2. events < MaxEvents
      BY <1>3 DEF Bump, Event
    <3> QED
      BY <1>3, <1>t, <3>1, <3>2, EnrichAssumption DEF Bump, Judgments
  <2>3. Latest' \in Int /\ Latest <= Latest'
    BY <1>j, <1>l, <2>1, <2>2 DEF Latest
  <2>4. night'.pc # "idle" =>
          night'.keyed.pass = contract'.pass /\ night'.keyed.rules <= contract'.rules
    BY <1>j, <2>1, <2>2 DEF Dated
  <2> QED
    BY <1>r, <1>l, <2>1, <2>2, <2>3, <2>4
<1>4. CASE StartNight
  <2>1. \A p \in Paths : rows'[p] = None \/ \E q \in Paths : rows'[p] = rows[q]
    BY <1>4, <1>t, FollowedIsRows DEF StartNight
  <2>2. /\ night'.pc = "list" /\ night'.keyed = contract /\ contract' = contract
        /\ night.pc = "idle"
    BY <1>4, IdleIsNight DEF StartNight, Nights
  <2>3. Latest' = contract.rules /\ Latest = contract.rules
    BY <2>2 DEF Latest
  <2>4. night'.keyed.pass = contract'.pass /\ night'.keyed.rules <= contract'.rules
    BY <1>j, <2>2
  <2> QED
    BY <1>r, <1>t, <1>j, <2>1, <2>2, <2>3, <2>4
<1>5. CASE NextPage \/ EndPage
  <2>1. UNCHANGED <<rows, contract>> /\ night.pc # "idle"
    BY <1>5 DEF NextPage, EndPage
  <2>2. night'.pc # "idle" => night'.keyed = night.keyed
    BY <1>5, <1>t, IdleIsNight DEF NextPage, EndPage, Nights
  <2> QED
    BY <1>u, <2>1, <2>2
<1>6. ASSUME NEW x \in Turn, Skip(x) PROVE Dated'
  <2>1. night.pc # "idle" /\ KeyOf(x) \in Keys
    BY TurnIsInPage
  <2>2. \A q \in Paths : rows'[q].outcome # "done" \/ rows'[q] = rows[q]
    BY <1>6, <1>f, <2>1 DEF Skip
  <2> QED
    BY <1>6, <1>v, <2>1, <2>2 DEF Skip
<1>7. ASSUME NEW x \in Turn, CallFails(x) \/ Refuse(x) \/ JudgeFails(x) PROVE Dated'
  <2>1. night.pc # "idle" /\ KeyOf(x) \in Keys
    BY TurnIsInPage
  <2>2. \A q \in Paths : rows'[q].outcome # "done" \/ rows'[q] = rows[q]
    BY <1>7, <1>f, <2>1 DEF CallFails, Refuse, JudgeFails, Failed
  <2> QED
    BY <1>7, <1>v, <2>1, <2>2 DEF CallFails, Refuse, JudgeFails
<1>8. ASSUME NEW x \in Turn, Accept(x) PROVE Dated'
  <2>1. night.pc # "idle"
    BY TurnIsInPage
  <2> QED
    BY <1>8, <1>t, <1>u, <2>1 DEF Accept, Nights
<1>9. CASE Compose
  <2> DEFINE x == Previous(night.cand.rel)
             y == Composed(x)
  <2>1. /\ UNCHANGED <<rows, contract>> /\ night.pc = "write"
        /\ \/ night' = [night EXCEPT !.pc = "record", !.prev = x, !.next = x,
                                     !.dest = night.cand.rel]
           \/ \E d : night' = [night EXCEPT !.pc = "journal", !.prev = x, !.next = y,
                                            !.dest = d]
    BY <1>9 DEF Compose
  <2> HIDE DEF x, y
  <2>2. night'.pc # "idle" /\ night'.keyed = night.keyed
    BY <2>1, <1>t DEF Nights
  <2> QED
    BY <1>u, <2>1, <2>2
<1>10. CASE JournalWrite \/ Move \/ Put
  BY <1>10, <1>t, <1>u DEF JournalWrite, Move, Put, Nights
<1>11. CASE ComposeRefuses
  BY <1>11, <1>v DEF ComposeRefuses
<1>12. CASE ApplyFails
  <2>1. Key(night.keyed, night.prev) \in Keys
    BY <1>t, KeyIsKey
  <2>2. \A q \in Paths : rows'[q].outcome # "done" \/ rows'[q] = rows[q]
    BY <1>12, <1>f, <2>1 DEF ApplyFails
  <2> QED
    BY <1>12, <1>v, <2>2 DEF ApplyFails, InWindow
<1>13. CASE RecordDone
  <2> DEFINE row == RowOf(night.prev, night.next)
  <2>1. Key(night.keyed, night.prev) \in Keys /\ Key(night.keyed, night.next) \in Keys
    BY <1>t, KeyIsKey
  <2>2. /\ row.in = Key(night.keyed, night.prev) /\ row.out = Key(night.keyed, night.next)
        /\ row \in Rows
    BY <1>t, <2>1, RowIsRow DEF RowOf
  <2>3. rows' = Recorded(rows, night.dest, row) \/ UNCHANGED rows
    BY <1>13 DEF RecordDone
  <2> HIDE DEF row
  <2>4. DatedRow(row)
    <3>1. \A c, y : Fits(row, Key(c, y)) => c = night.keyed
      BY <2>2 DEF Fits, Key
    <3>2. Latest = night.keyed.rules
      BY <1>13 DEF RecordDone, Latest
    <3> QED
      BY <1>j, <3>1, <3>2 DEF DatedRow
  <2>5. \A q \in Paths : rows'[q] = rows[q] \/ DatedRow(rows'[q])
    BY <1>t, <2>3, <2>4 DEF Recorded
  <2> QED
    BY <1>13, <1>v, <2>5 DEF RecordDone
<1>14. CASE GiveUp
  BY <1>14, <1>u, IdleIsNight DEF GiveUp
<1>15. CASE UNCHANGED vars
  BY <1>15, <1>u DEF vars
<1> QED
  BY <1>1, <1>2, <1>3, <1>4, <1>5, <1>6, <1>7, <1>8, <1>9, <1>10, <1>11, <1>12, <1>13, <1>14,
     <1>15 DEF Next, OfANight

\* A current note's row was keyed by the contract as it reads; a night that
\* works under an older one has not written it, and one that works under this
\* one knows the note.
LEMMA CurrentIsKnown ==
  ASSUME Typed, Dated, NEW p \in Paths, Current(p), night.pc # "idle"
  PROVE  /\ night.keyed = contract
         /\ Seen(rows, p, Key(night.keyed, vault[p]))
         /\ rows[p] # None /\ rows[p].outcome = "done" /\ rows[p].at = contract
<1>1. /\ TypeOK /\ rows \in [Paths -> Rows \cup {None}] /\ contract \in Judgments
      /\ night.keyed \in Judgments /\ vault[p] # None /\ vault[p] \in Contents
      /\ Cause(rows, p) = 7
  BY DEF Typed, TypeOK, Nights, Current
<1>2. /\ rows[p] # None /\ rows[p].outcome = "done" /\ rows[p].at = contract
      /\ Fits(rows[p], Key(contract, vault[p]))
  BY <1>1, CauseIsCause
<1>3. contract.rules <= night.keyed.rules
  BY <1>1, <1>2 DEF Dated, DatedRow, Latest
<1>4. night.keyed = contract
  BY <1>1, <1>3 DEF Dated, Judgments
<1> QED
  BY <1>2, <1>4 DEF Seen, Done

\* A row that stays keeps its note current.
LEMMA SameRowSameCause ==
  ASSUME NEW p \in Paths, Current(p), vault'[p] = vault[p], contract' = contract,
         rows'[p] = rows[p]
  PROVE  Current(p)'
  BY DEF Current, Cause, Fits, Key

\* The rows StartNight moves are of notes that are gone.
LEMMA FollowedKeepsCurrent ==
  ASSUME Typed, NEW p \in Paths, Done(rows, p), vault[p] # None
  PROVE  Followed[p] = rows[p]
<1> DEFINE Pairs == {pq \in Paths \X indexed :
                  /\ Done(rows, pq[1]) /\ vault[pq[1]] = None
                  /\ ~Done(rows, pq[2]) /\ vault[pq[2]] # None
                  /\ Fits(rows[pq[1]], Key(rows[pq[1]].at, vault[pq[2]]))}
           Moves == {pq \in Pairs : \A xy \in Pairs :
                  (xy[1] = pq[1] \/ xy[2] = pq[2]) => xy = pq}
<1>1. \A pq \in Moves : pq[1] # p /\ pq[2] # p
  OBVIOUS
<1>2. Followed = [q \in Paths |->
        IF \E pq \in Moves : pq[2] = q
          THEN rows[(CHOOSE pq \in Moves : pq[2] = q)[1]]
        ELSE IF \E pq \in Moves : pq[1] = q THEN None ELSE rows[q]]
  BY DEF Followed
<1> HIDE DEF Pairs, Moves
<1> QED
  BY <1>1, <1>2

LEMMA CurrentStaysCurrent ==
  ASSUME Typed, Dated, Unpaid, Next, NEW p \in Paths, Current(p), ~Outdated(p),
         vault'[p] = vault[p], contract' = contract
  PROVE  Current(p)'
<1>t. /\ TypeOK /\ rows \in [Paths -> Rows \cup {None}] /\ night \in Nights
      /\ vault[p] # None /\ vault[p] \in Contents /\ Cause(rows, p) = 7
      /\ night.prev \in Contents /\ night.next \in Contents /\ night.keyed \in Judgments
      /\ contract \in Judgments /\ None \in Keys
  BY DEF Typed, TypeOK, Nights, Current, Keys
<1>d. Done(rows, p)
  BY <1>t, CauseIsCause DEF Done
<1>u. rows'[p] = rows[p] => Current(p)'
  BY SameRowSameCause
\* a row for another path, and a skip's
<1>r. ASSUME NEW q, NEW row, rows' = Recorded(rows, q, row),
             q # p \/ row.outcome = "skipped"
      PROVE  Current(p)'
  BY <1>r, <1>d, <1>u, <1>t DEF Recorded
\* a note of the page the night does not know is not p's
<1>k. ASSUME NEW x \in night.page, ~Seen(rows, x.rel, KeyOf(x)), night.pc # "idle"
      PROVE  x.rel # p
  <2> SUFFICES ASSUME x.rel = p PROVE FALSE
    OBVIOUS
  <2>1. x.raw = vault[p]
    BY DEF Outdated
  <2>2. Seen(rows, p, Key(night.keyed, vault[p]))
    BY <1>k, CurrentIsKnown
  <2> QED
    BY <1>k, <2>1, <2>2 DEF KeyOf
<1>1. CASE Operator
  <2>1. UNCHANGED rows
    BY <1>1, OperatorActs DEF Act
  <2> QED
    BY <1>u, <2>1
<1>2. CASE StartNight
  BY <1>2, <1>d, <1>t, <1>u, FollowedKeepsCurrent DEF StartNight
<1>3. CASE Reconcile \/ Bump \/ NextPage \/ EndPage \/ GiveUp
  BY <1>3, <1>u DEF Reconcile, Bump, NextPage, EndPage, GiveUp
<1>4. ASSUME NEW x \in Turn, Skip(x) PROVE Current(p)'
  <2>1. Row("skipped", KeyOf(x), None).outcome = "skipped"
    BY <1>t, TurnIsInPage, RowIsRow
  <2> QED
    BY <1>4, <1>r, <2>1 DEF Skip
<1>5. ASSUME NEW x \in Turn, CallFails(x) \/ Refuse(x) \/ JudgeFails(x) PROVE Current(p)'
  <2>1. x.rel # p
    BY <1>5, <1>k, TurnIsInPage DEF CallFails, Refuse, JudgeFails, Answered, Known
  <2> QED
    BY <1>5, <1>r, <2>1 DEF CallFails, Refuse, JudgeFails, Failed
<1>6. ASSUME NEW x \in Turn, Accept(x) PROVE Current(p)'
  BY <1>6, <1>u DEF Accept
<1>7. CASE Compose \/ ComposeRefuses \/ JournalWrite \/ Move \/ Put
  BY <1>7, <1>u DEF Compose, ComposeRefuses, JournalWrite, Move, Put
<1>w. ASSUME night.pc \in Writing PROVE night.cand.rel # p
  BY <1>w, <1>k DEF Typed, Unpaid, Writing
<1>8. CASE ApplyFails
  BY <1>8, <1>w, <1>r DEF ApplyFails, InWindow, Writing
<1>9. CASE RecordDone
  <2> DEFINE row == RowOf(night.prev, night.next)
  <2>1. Key(night.keyed, night.prev) \in Keys /\ Key(night.keyed, night.next) \in Keys
    BY <1>t, KeyIsKey
  <2>2. /\ row \in Rows /\ row.out = Key(night.keyed, night.next)
        /\ row.outcome = "done" /\ row.at = Stamp
    BY <1>t, <2>1, RowIsRow DEF RowOf, Row
  <2>3. rows' = Recorded(rows, night.dest, row) \/ UNCHANGED rows
    BY <1>9 DEF RecordDone
  <2> HIDE DEF row
  <2>4. CASE night.dest # p \/ UNCHANGED rows
    BY <1>u, <1>r, <2>3, <2>4
  <2>5. CASE night.dest = p /\ rows' = Recorded(rows, night.dest, row)
    <3>1. rows'[p] = row
      BY <1>t, <2>2, <2>5 DEF Recorded
    <3>2. night.next = vault[p] /\ night.keyed = contract
      BY <1>9, <2>5, CurrentIsKnown DEF RecordDone, Outdated
    <3>3. Stamp = contract
      BY <1>t, <3>2 DEF Stamp, Judgments
    <3>4. row # None
      BY <2>2, NoneAssumption
    <3> QED
      BY <1>t, <2>2, <3>1, <3>2, <3>3, <3>4 DEF Current, Cause, Fits
  <2> QED
    BY <2>3, <2>4, <2>5
<1> QED
  BY <1>1, <1>2, <1>3, <1>4, <1>5, <1>6, <1>7, <1>8, <1>9 DEF Next, OfANight

\* ledger.go:200-211: whatever is skipped, fails, is killed, moved or renamed, a
\* note that was paid for stays paid for as long as it and the contract stay,
\* unless the night held another note for its path.
THEOREM PaidForStaysPaidFor == Spec => PaidForOnce
<1> DEFINE Kept == \A p \in Paths :
       Current(p) /\ ~Outdated(p) /\ vault'[p] = vault[p] /\ contract' = contract
         => Current(p)'
<1>1. Typed /\ Dated /\ Unpaid /\ [Next]_vars => [Kept]_vars
  BY CurrentStaysCurrent
<1>2. Typed /\ Dated /\ Unpaid /\ [Next]_vars => Typed' /\ Dated' /\ Unpaid'
  BY StepTyped, StepDated, StepUnpaid
<1> QED
  BY <1>1, <1>2, InitTyped, InitPaid, PTL DEF Spec, PaidForOnce
=============================================================================
