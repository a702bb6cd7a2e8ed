----------------------------- MODULE EnrichNight -----------------------------
(***************************************************************************)
(* The nightly enrichment: daemon/cmd/agentmd (main.go's batch command,    *)
(* enrich_run.go, ledger.go) over daemon/internal/enrich and the coverage  *)
(* table of daemon/internal/ledger.  A night takes the indexed notes in    *)
(* the order of why each is owed a judgment, page by page; for each it     *)
(* asks the ledger and the refusal record whether the note was judged as   *)
(* it stands, else pays a model, reads the note again, journals what it    *)
(* held, writes the judgment onto it and records the note as done.         *)
(*                                                                         *)
(* A model call lasts minutes: the operator writes in the same vault       *)
(* between any two steps, the filing contract changes, and the night may   *)
(* be killed.  One night runs at a time (the runner's lock).               *)
(***************************************************************************)
EXTENDS Integers, FiniteSets

CONSTANTS Paths,      \* the places a note can be
          Notes,      \* those that hold one at first
          Fixed,      \* those whose name is not the night's: records, inbox, ideas, linked
          Stubborn,   \* first texts no model call ever answers for
          PageSize,   \* candidates fetched at a time
          MaxCalls,   \* the call guard
          Fuse,       \* MaxFailuresInARow
          None,       \* no note, no row, no judgment
          MaxEvents   \* BOUND: acts of the operator, changes of the pass or the
                      \* contract, kills and failures together

ASSUME EnrichAssumption ==
  /\ Notes \subseteq Paths /\ Fixed \subseteq Paths /\ Stubborn \subseteq Paths
  /\ {PageSize, MaxCalls, Fuse} \subseteq Nat \ {0}
  /\ MaxEvents \in Nat
  /\ IsFiniteSet(Paths)

VARIABLES vault,     \* what is at each path: the operator's text and the judgment on it
          indexed,   \* the paths the index holds
          contract,  \* the pass's version and the contract's judgment hash
          rows,      \* the coverage ledger's row of each path
          refused,   \* the key a post-gate's refusal stands for, of each path
          journal,   \* the texts the enrichment journal can put back
          night,     \* the running night
          shown,     \* history: texts a judgment was made from
          raced,     \* history: texts that arrived at a path the night was working on
          events     \* acts of the operator, changes and faults so far

note == <<shown, raced>>
vars == <<vault, indexed, contract, rows, refused, journal, night, note, events>>

\* a text is a note's first one, named for its path, a later one of the
\* operator's, numbered, or 0, the empty one
Texts == Paths \cup 0..MaxEvents
Judgments == [pass : 0..MaxEvents, rules : 0..MaxEvents]
Contents == [text : Texts, by : Judgments \cup {None}]
Blank == [text |-> 0, by |-> None]

Keys == (Judgments \X Contents) \cup {None}
Rows == [outcome : {"done", "failed", "skipped"}, at : Judgments, in : Keys, out : Keys]

ASSUME NoneAssumption == /\ \A x \in Contents : x # None
                         /\ None \notin Rows

\* Fingerprint.Key: the pass, the contract and all of the note
Key(c, x) == <<c, x>>

NoContract == [pass |-> 0, rules |-> 0]

Idle == [pc |-> "idle", keyed |-> NoContract, queue |-> {}, cause |-> [p \in Paths |-> 7],
         page |-> {}, short |-> FALSE, calls |-> 0, streak |-> 0, cand |-> None,
         dest |-> None, prev |-> Blank, next |-> Blank, late |-> {}]

Init ==
  /\ vault = [p \in Paths |-> IF p \in Notes THEN [text |-> p, by |-> None] ELSE None]
  /\ indexed = Notes
  /\ contract = NoContract
  /\ rows = [p \in Paths |-> None]
  /\ refused = [p \in Paths |-> None]
  /\ journal = {}
  /\ night = Idle
  /\ shown = {} /\ raced = {}
  /\ events = 0

-----------------------------------------------------------------------------
(* The rest of the world: the operator, the index, the contract.           *)

\* the paths the night has read and has yet to write
InHand(p) == \E x \in night.page : x.rel = p

\* the write has read the note again and has yet to replace it
InWindow == night.pc \in {"journal", "move", "put"}

\* nothing makes an event happen
Event == events < MaxEvents /\ events' = events + 1

\* the operator acts: S is the set of <<text, path>> that changed, 0 for a path
\* that holds nothing any more
Act(S) ==
  /\ Event
  /\ raced' = raced \cup {tp[1] : tp \in {tp \in S : InHand(tp[2])}}
  /\ night' = IF InWindow THEN [night EXCEPT !.late = @ \cup {tp[1] : tp \in S}] ELSE night
  /\ UNCHANGED <<indexed, contract, rows, refused, journal, shown>>

\* a note is written or edited; an editor leaves the frontmatter as it was
Save(p) ==
  /\ Act({<<events + 1, p>>})
  /\ vault' = [vault EXCEPT ![p] =
       [text |-> events + 1, by |-> IF @ = None THEN None ELSE @.by]]

HandMove(p, q) ==
  /\ vault[p] # None /\ vault[q] = None
  /\ Act({<<0, p>>, <<vault[p].text, q>>})
  /\ vault' = [vault EXCEPT ![q] = vault[p], ![p] = None]

Delete(p) ==
  /\ vault[p] # None
  /\ Act({<<0, p>>})
  /\ vault' = [vault EXCEPT ![p] = None]

\* the daemon's reconcile pass
Reconcile ==
  /\ indexed # {p \in Paths : vault[p] # None}
  /\ indexed' = {p \in Paths : vault[p] # None}
  /\ UNCHANGED <<vault, contract, rows, refused, journal, night, note, events>>

\* an edit of a field a judgment reads; a new prompt comes with a new binary
Bump ==
  /\ Event
  /\ \/ contract' = [contract EXCEPT !.rules = @ + 1]
     \/ night.pc = "idle" /\ contract' = [contract EXCEPT !.pass = @ + 1]
  /\ UNCHANGED <<vault, indexed, rows, refused, journal, night, note>>

-----------------------------------------------------------------------------
(* The ledger.                                                             *)

Done(r, p) == r[p] # None /\ r[p].outcome = "done"

\* (mutant) a skip is an outcome like any other
RecordedAlways(r, p, row) == [r EXCEPT ![p] = row]

\* (mutant) INSERT OR IGNORE: the first row of a path is never replaced
RecordedOnce(r, p, row) == IF r[p] # None THEN r ELSE [r EXCEPT ![p] = row]

\* Record: one row for each path, but a skip never replaces a done row
Recorded(r, p, row) ==
  IF Done(r, p) /\ row.outcome = "skipped" THEN r ELSE [r EXCEPT ![p] = row]

\* (mutant) a row that was finished at this version is finished
FitsByVersion(row, k) == row.in[1] = k[1]

\* the key of what a judgment read, or of what it left
Fits(row, k) == k \in {row.in, row.out}

\* Seen
Seen(r, p, k) == Done(r, p) /\ Fits(r[p], k)

\* Follow: the done row of a path that is gone goes to the one note without a
\* done row that holds what it was about, if the note has no other such row
Followed ==
  LET Pairs == {pq \in Paths \X indexed :
                  /\ Done(rows, pq[1]) /\ vault[pq[1]] = None
                  /\ ~Done(rows, pq[2]) /\ vault[pq[2]] # None
                  /\ Fits(rows[pq[1]], Key(rows[pq[1]].at, vault[pq[2]]))}
      Moves == {pq \in Pairs : \A xy \in Pairs :
                  (xy[1] = pq[1] \/ xy[2] = pq[2]) => xy = pq}
  IN [p \in Paths |->
        IF \E pq \in Moves : pq[2] = p
          THEN rows[(CHOOSE pq \in Moves : pq[2] = p)[1]]
        ELSE IF \E pq \in Moves : pq[1] = p THEN None ELSE rows[p]]

\* Pending and CauseOf: why a note is owed, in the order the night takes it;
\* 7 when it is current, and for a path the night cannot read
Cause(r, p) ==
  CASE vault[p] = None -> 7
    [] vault[p] # None /\ r[p] = None -> 1
    [] vault[p] # None /\ r[p] # None ->
         CASE r[p].at.pass # contract.pass -> 4
           [] r[p].at.pass = contract.pass /\ r[p].at.rules # contract.rules -> 5
           [] r[p].at = contract ->
                CASE r[p].outcome = "failed" -> 3
                  [] r[p].outcome = "skipped" -> 6
                  [] r[p].outcome = "done" ->
                       IF Fits(r[p], Key(contract, vault[p])) THEN 7 ELSE 2

-----------------------------------------------------------------------------
(* The night: RunBatch and the pass.                                       *)

\* the version a row or a stamp carries: the process's pass, the contract as
\* it reads now
Stamp == [pass |-> night.keyed.pass, rules |-> contract.rules]

Row(outcome, in, out) == [outcome |-> outcome, at |-> Stamp, in |-> in, out |-> out]

StartNight ==
  /\ night.pc = "idle"
  /\ rows' = Followed
  /\ night' = [Idle EXCEPT !.pc = "list", !.keyed = contract, !.queue = indexed,
                           !.cause = [p \in Paths |-> Cause(rows', p)]]
  /\ UNCHANGED <<vault, indexed, contract, refused, journal, note, events>>

\* (mutant) the guard is read as the last call allowed
StopLate == night.calls > MaxCalls \/ night.streak >= Fuse

\* what ends a night before a note; the token lines and the time limit are
\* GiveUp's
Stop == night.calls >= MaxCalls \/ night.streak >= Fuse

\* orderByCause: p goes before q; of two notes owed for one cause either may
Before(p, q) == night.cause[p] <= night.cause[q]

\* the next notes in that order, as many as a page takes
Slices ==
  {w \in SUBSET night.queue :
     /\ Cardinality(w) <= PageSize
     /\ w # night.queue => Cardinality(w) = PageSize
     /\ \A p \in w, q \in night.queue \ w : Before(p, q)}

\* the lister reads them from the disk, and passes over what is not there
NextPage ==
  /\ night.pc = "list"
  /\ \E w \in Slices :
       LET there == {p \in w : vault[p] # None}
       IN night' = IF Stop \/ there = {} THEN Idle
                   ELSE [night EXCEPT !.pc = "note", !.queue = @ \ w,
                           !.short = Cardinality(there) < PageSize,
                           !.page = {[rel |-> p, raw |-> vault[p]] : p \in there}]
  /\ UNCHANGED <<vault, indexed, contract, rows, refused, journal, note, events>>

\* the page is through, or the budget ends the night inside it
EndPage ==
  /\ night.pc = "note"
  /\ night.page = {} \/ Stop
  /\ night' = IF Stop \/ night.short THEN Idle ELSE [night EXCEPT !.pc = "list"]
  /\ UNCHANGED <<vault, indexed, contract, rows, refused, journal, note, events>>

\* the notes of the page that may be the next
Turn ==
  {x \in night.page :
     night.pc = "note" /\ ~Stop /\ \A y \in night.page : Before(x.rel, y.rel)}

\* the night is through with a note, after c calls
Over(x, c, streak) ==
  night' = [night EXCEPT !.pc = "note", !.page = @ \ {x}, !.calls = @ + c,
                         !.streak = streak, !.cand = None, !.dest = None,
                         !.prev = Blank, !.next = Blank, !.late = {}]

KeyOf(x) == Key(night.keyed, x.raw)

\* done or refused as it stands
Known(x) == Seen(rows, x.rel, KeyOf(x)) \/ refused[x.rel] = KeyOf(x)

\* the pre-gates: the note is known, or a free gate declines it for a while
\* (an inbox card still settling)
Skip(x) ==
  /\ \/ Known(x) /\ UNCHANGED events
     \/ ~Known(x) /\ Event
  /\ rows' = Recorded(rows, x.rel, Row("skipped", KeyOf(x), None))
  /\ Over(x, 0, 0)
  /\ UNCHANGED <<vault, indexed, contract, refused, journal, note>>

Failed(x) == rows' = Recorded(rows, x.rel, Row("failed", KeyOf(x), None))

\* the enrichment call fails: what the fuse counts
CallFails(x) ==
  /\ ~Known(x)
  /\ IF x.raw.text \in Stubborn THEN UNCHANGED events ELSE Event
  /\ Failed(x)
  /\ Over(x, 1, night.streak + 1)
  /\ UNCHANGED <<vault, indexed, contract, refused, journal, note>>

\* the call succeeds
Answered(x) == ~Known(x) /\ x.raw.text \notin Stubborn

\* a post-gate rejects the answer: the schema or the aliases after one call,
\* the judge after two
Refuse(x) ==
  /\ Answered(x)
  /\ Failed(x)
  /\ refused' = [refused EXCEPT ![x.rel] = KeyOf(x)]
  /\ \E c \in {1, 2} : Over(x, c, 0)
  /\ UNCHANGED <<vault, indexed, contract, journal, note, events>>

\* the judge could not answer, or named no claim: a failure, but no refusal
JudgeFails(x) ==
  /\ Answered(x)
  /\ Event
  /\ Failed(x)
  /\ Over(x, 2, 0)
  /\ UNCHANGED <<vault, indexed, contract, refused, journal, note>>

Accept(x) ==
  /\ Answered(x)
  /\ night' = [night EXCEPT !.pc = "write", !.cand = x, !.calls = @ + 2, !.streak = 0]
  /\ shown' = shown \cup {x.raw.text}
  /\ UNCHANGED <<vault, indexed, contract, rows, refused, journal, raced, events>>

-----------------------------------------------------------------------------
(* The write: main.go's closure, Compose and Applier.Apply.                *)

\* (mutant) what the model was shown is what is written on
AsShown(p) == night.cand.raw

\* the note as it stands now; an unreadable one is an empty one
Previous(p) == IF vault[p] = None THEN Blank ELSE vault[p]

\* Compose keeps the text and renders the judgment over it
Composed(x) == [x EXCEPT !.by = Stamp]

\* the note is read again, and the judgment composed onto it; one that would
\* only move the stamps writes nothing; an unlinked note may be renamed
Compose ==
  LET x == Previous(night.cand.rel)
  IN /\ night.pc = "write"
     /\ \/ /\ x.by # None /\ x.by.pass = night.keyed.pass
           /\ night' = [night EXCEPT !.pc = "record", !.prev = x, !.next = x,
                                    !.dest = night.cand.rel]
        \/ \E d \in {night.cand.rel} \cup IF night.cand.rel \in Fixed THEN {} ELSE Paths :
             night' = [night EXCEPT !.pc = "journal", !.prev = x, !.next = Composed(x),
                                    !.dest = d]
     /\ UNCHANGED <<vault, indexed, contract, rows, refused, journal, note, events>>

\* Compose refuses: the note is left alone, and has no row
ComposeRefuses ==
  /\ night.pc = "write"
  /\ Event
  /\ Over(night.cand, 0, night.streak)
  /\ UNCHANGED <<vault, indexed, contract, rows, refused, journal, note>>

JournalWrite ==
  /\ night.pc = "journal"
  /\ journal' = journal \cup {night.prev.text}
  /\ night' = [night EXCEPT !.pc = IF night.dest = night.cand.rel THEN "put" ELSE "move"]
  /\ UNCHANGED <<vault, indexed, contract, rows, refused, note, events>>

\* os.Rename replaces whatever is at the destination
Move ==
  /\ night.pc = "move"
  /\ vault[night.cand.rel] # None
  /\ vault' = [vault EXCEPT ![night.dest] = vault[night.cand.rel], ![night.cand.rel] = None]
  /\ night' = [night EXCEPT !.pc = "put"]
  /\ UNCHANGED <<indexed, contract, rows, refused, journal, note, events>>

\* a temporary file, renamed over the note
Put ==
  /\ night.pc = "put"
  /\ vault' = [vault EXCEPT ![night.dest] = night.next]
  /\ night' = [night EXCEPT !.pc = "record"]
  /\ UNCHANGED <<indexed, contract, rows, refused, journal, note, events>>

\* Apply returned an error: a failed row at the path the note came from
ApplyFails ==
  /\ InWindow
  /\ IF night.pc = "move" /\ vault[night.cand.rel] = None THEN UNCHANGED events ELSE Event
  /\ rows' = Recorded(rows, night.cand.rel, Row("failed", Key(night.keyed, night.prev), None))
  /\ Over(night.cand, 0, night.streak)
  /\ UNCHANGED <<vault, indexed, contract, refused, journal, note>>

\* the done row: what the judgment was written on, and what it left
RowOf(x, y) == Row("done", Key(night.keyed, x), Key(night.keyed, y))

\* against the destination; a ledger that cannot be written is only reported
RecordDone ==
  /\ night.pc = "record"
  /\ refused' = [refused EXCEPT ![night.cand.rel] = None]
  /\ \/ /\ rows' = Recorded(rows, night.dest, RowOf(night.prev, night.next))
        /\ UNCHANGED events
     \/ Event /\ UNCHANGED rows
  /\ Over(night.cand, 0, night.streak)
  /\ UNCHANGED <<vault, indexed, contract, journal, note>>

\* killed, or stopped before a note by a token line or the time limit
GiveUp ==
  /\ night.pc # "idle"
  /\ Event
  /\ night' = Idle
  /\ UNCHANGED <<vault, indexed, contract, rows, refused, journal, note>>

OfANight ==
  \/ NextPage \/ EndPage
  \/ \E x \in Turn : Skip(x) \/ CallFails(x) \/ Refuse(x) \/ JudgeFails(x) \/ Accept(x)
  \/ Compose \/ ComposeRefuses \/ JournalWrite \/ Move \/ Put \/ ApplyFails \/ RecordDone

Operator == \E p \in Paths : Save(p) \/ Delete(p) \/ \E q \in Paths : HandMove(p, q)

Next == Operator \/ Reconcile \/ Bump \/ StartNight \/ OfANight \/ GiveUp

Spec == Init /\ [][Next]_vars

\* the runner starts a night again and again, a night that runs goes on (every
\* call has a timeout), and the daemon reconciles
FairSpec == Spec /\ WF_vars(StartNight) /\ WF_vars(OfANight) /\ WF_vars(Reconcile)

-----------------------------------------------------------------------------
(* Properties.                                                             *)

Candidates == [rel : Paths, raw : Contents]
Nights == [pc : {"idle", "list", "note", "write", "journal", "move", "put", "record"},
           keyed : Judgments, queue : SUBSET Paths, cause : [Paths -> 1..7],
           page : SUBSET Candidates, short : BOOLEAN, calls : 0..(MaxCalls + 1),
           streak : 0..Fuse, cand : Candidates \cup {None}, dest : Paths \cup {None},
           prev : Contents, next : Contents, late : SUBSET Texts]

\* The vault, the ledger and the night have their types; and, what batch.go's
\* guard promises, a night that is read before each note spends at most one
\* call over it, the judge of the last note.
TypeOK ==
  /\ vault \in [Paths -> Contents \cup {None}]
  /\ indexed \subseteq Paths
  /\ contract \in Judgments
  /\ rows \in [Paths -> Rows \cup {None}]
  /\ refused \in [Paths -> Keys]
  /\ journal \subseteq Texts
  /\ night \in Nights
  /\ shown \subseteq Texts /\ raced \subseteq Texts
  /\ events \in 0..MaxEvents

\* What the night's step, any but the operator's, destroys of the operator's
\* words can be put back from the journal, unless they arrived after the write
\* had read the note again, or stood where a rename put another note: an edit
\* saved during the minutes a model call takes survives (main.go reads the
\* note again after the answer; write.go journals before it writes).
OnlyRacesLose ==
  [][events' = events =>
       \A p \in Paths : vault[p] # None =>
         \/ vault[p].text \in {0} \cup journal' \cup night.late
         \/ \E q \in Paths : vault'[q] # None /\ vault'[q].text = vault[p].text
         \/ night.pc = "move" /\ p = night.dest]_vars

\* what pending calls current: a done row that fits the note under the contract
Current(p) == vault[p] # None /\ Cause(rows, p) = 7

\* the night holds another note for the path: an older reading on its page, or
\* the one it wrote there and has yet to record
Outdated(p) ==
  \/ \E x \in night.page : x.rel = p /\ x.raw # vault[p]
  \/ night.pc = "record" /\ p = night.dest /\ night.next # vault[p]

\* ledger.go:200-211 (#785): a judgment that was paid for goes on counting
\* until the note or the contract changes, whatever skips, failures, kills and
\* moves of other notes come after it; only a night that read the path, or wrote
\* to it, before the note came there can speak over it.
PaidForOnce ==
  [][\A p \in Paths :
       Current(p) /\ ~Outdated(p) /\ vault'[p] = vault[p] /\ contract' = contract
         => Current(p)']_vars

\* A note the ledger calls current was judged as it reads, or its text arrived
\* at a path while the night was working on it: no row ever vouches for an edit
\* made between two nights.
JudgedOrRaced ==
  \A p \in Paths : Current(p) => vault[p].text \in shown \cup raced

\* batch.go:6-11: what capture and earlier nights missed, a later night judges:
\* every note is, again and again, current, refused as it stands, or gone, if
\* it is not one no call ever answers for.
EveryNoteIsJudged ==
  \A p \in Paths :
    []<>(\/ vault[p] = None \/ Current(p)
         \/ refused[p] = Key(contract, vault[p])
         \/ vault[p].text \in Stubborn)
=============================================================================
