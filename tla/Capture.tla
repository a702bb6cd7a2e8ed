------------------------------- MODULE Capture -------------------------------
(***************************************************************************)
(* Capture, and the index that must agree with the files.                  *)
(*                                                                         *)
(* daemon/internal/capture turns a request into a note: it adds to an idea *)
(* card, updates the note the same source wrote before, or reserves a new  *)
(* name; the file is written first and its row in the index after.  The    *)
(* server runs the requests of its clients side by side and nothing makes  *)
(* one wait for another.  The watcher indexes what the notifier reports,   *)
(* and on each tick Index.Reconcile compares every file with its row.      *)
(*                                                                         *)
(* A file is a version, which stands for its mtime and size too, and what  *)
(* these rules tell apart in it.  A row records whose text it holds and    *)
(* the mtime it was filed under.                                           *)
(***************************************************************************)
EXTENDS Integers, FiniteSets, Sequences

CONSTANTS Clients,
          Paths,       \* the names of notes and cards, taken or free: numbers, in the order a walk meets them
          Space,       \* those the daily cap counts
          Units, Titles, Texts,
          Asks,        \* the requests each client may make
          Early,       \* the files the vault holds to begin with
          None,
          Cap,         \* thresholds.daily_write_cap; 0 when there is none
          MaxEdits,    \* BOUND: changes by the operator and the sync client
          Touched,     \* BOUND: the paths they change
          MaxFaults    \* BOUND: kills, lost events, calls of the files or the index that fail

NoNote == [v |-> 0, born |-> 0, unit |-> None, title |-> None,
           live |-> FALSE, mine |-> 0, words |-> {}]
NoRow == [of |-> 0, mtime |-> 0, born |-> 0]
NoCall == [pc |-> "idle", req |-> None, path |-> None, old |-> NoNote, text |-> NoRow,
           mtime |-> 0, began |-> 0, unread |-> {}, at |-> 0]
NoPass == [pc |-> "idle", walk |-> FALSE, todo |-> {}, known |-> {},
           path |-> None, text |-> NoRow, mtime |-> 0]

Request == [unit : Units \cup {None}, title : Titles, text : Texts,
            card : Paths \cup {None}, within : SUBSET Paths, names : Seq(Paths)]
Note == [v : Nat, born : Nat, unit : Units \cup {None}, title : Titles \cup {None},
         live : BOOLEAN, mine : Nat, words : SUBSET Texts]

ASSUME CaptureAssumption ==
  /\ Paths \subseteq Nat /\ None \notin Paths /\ Space \cup Touched \subseteq Paths
  /\ IsFiniteSet(Clients) /\ {Cap, MaxEdits, MaxFaults} \subseteq Nat
  /\ Asks \in [Clients -> SUBSET Request] /\ Early \in [Paths -> Note]
  /\ \A p \in Paths : Early[p] = NoNote \/ (Early[p].v = 1 /\ Early[p].born <= 1)

VARIABLES disk,    \* the file at each path; version 0 when there is none
          index,   \* docmeta: the row of each path; NoRow when there is none
          woken,   \* the watcher's pending paths: what the notifier reported
          cl,      \* the request each client waits for; history, the clock when it looked for its
                   \* source and for its path, began and at, and the notes it could not read
          ix,      \* the watcher's pass over files and rows
          clock,   \* the youngest version
          asked,   \* BOUND: the clients that have asked, each of them once
          edits, faults,
          raced    \* history: the paths whose version some capture took for its own

bounds == <<asked, edits, faults>>
vars == <<disk, index, woken, cl, ix, clock, bounds, raced>>

There(p) == disk[p].v # 0

First(ps) == CHOOSE p \in ps : \A q \in ps : p <= q

Init ==
  /\ disk = Early
  /\ index = [p \in Paths |-> [of |-> Early[p].v, mtime |-> Early[p].v, born |-> 0]]
  /\ woken = {} /\ cl = [c \in Clients |-> NoCall] /\ ix = NoPass
  /\ clock = 1 /\ asked = {} /\ edits = 0 /\ faults = 0 /\ raced = {}

Fault == faults < MaxFaults /\ faults' = faults + 1

\* the notifier reports a change, unless it loses the event
Reported(p) == woken' = woken \cup {p}

\* a temp file is renamed over whatever is at the path
WriteAtomic(p, n) ==
  /\ clock' = clock + 1
  /\ disk' = [disk EXCEPT ![p] = [n EXCEPT !.v = clock + 1]]
  /\ raced' = raced \ {p}
  /\ Reported(p)

TextAt(p) == [of |-> disk[p].v, mtime |-> 0, born |-> disk[p].born]
Upsert(p, text, mtime) == index' = [index EXCEPT ![p] = [text EXCEPT !.mtime = mtime]]
DeleteRow(p) == index' = [index EXCEPT ![p] = NoRow]

-----------------------------------------------------------------------------
(* One request, from the gate to the row.                                  *)

Goes(c, pc) == cl' = [cl EXCEPT ![c].pc = pc]

\* (mutant) the call ends and what it held is kept
ReturnHolding(c) == Goes(c, "idle")

Return(c) == cl' = [cl EXCEPT ![c] = NoCall]

\* the volume gate counts the rows of the day, not the files
GateOpen == Cap = 0 \/ Cardinality({p \in Space : index[p].born # 0}) < Cap

\* the card in personal/ideas that an idea resembles
MatchIdeaCard(r, unread) == r.card # None /\ There(r.card) /\ r.card \notin unread

\* (mutant) the rows are asked, which lag behind the files
SameSourceByRow(r, unread) ==
  {p \in r.within \ unread : /\ r.unit # None /\ index[p].of # 0 /\ disk[p].live
                             /\ disk[p].unit = r.unit /\ disk[p].title = r.title}

\* the note this request is again: same source, same title, neither replaced nor archived;
\* a folder or a note that cannot be read is passed over
SameSource(r, unread) ==
  {p \in r.within \ unread : /\ r.unit # None /\ There(p) /\ disk[p].live
                             /\ disk[p].unit = r.unit /\ disk[p].title = r.title}

\* Do up to the decision where the text goes.  Under a fault it misses notes, or the
\* count of the day, and then the gate lets it through.
Begin(c, r) ==
  /\ c \notin asked /\ asked' = asked \cup {c}
  /\ \E unread \in SUBSET {p \in r.within \cup {r.card} : p # None /\ There(p)} :
       /\ IF GateOpen /\ unread = {} THEN UNCHANGED faults ELSE Fault
       /\ LET to(pc, p, n) == [NoCall EXCEPT !.req = r, !.pc = pc, !.path = p, !.old = n,
                                 !.began = clock, !.unread = unread, !.at = clock]
              same == First(SameSource(r, unread))
          IN cl' = [cl EXCEPT ![c] =
                      IF MatchIdeaCard(r, unread) THEN to("card", r.card, NoNote)
                      ELSE IF SameSource(r, unread) # {} THEN to("put", same, disk[same])
                      ELSE to("reserve", None, NoNote)]
  /\ UNCHANGED <<disk, index, woken, ix, clock, edits, raced>>

\* appendToCard reads the card; it may hold these words already
ReadCard(c) ==
  /\ cl[c].pc = "card"
  /\ LET p == cl[c].path IN
     IF ~There(p) THEN Return(c)
     ELSE IF cl[c].req.text \in disk[p].words THEN Goes(c, "read")
     ELSE cl' = [cl EXCEPT ![c].pc = "put", ![c].old = disk[p], ![c].at = clock]
  /\ UNCHANGED <<disk, index, woken, ix, clock, bounds, raced>>

\* (mutant) the first name is taken as it is
FreeNamesFirst(r) == {1}

FreeNames(r) == {i \in 1..Len(r.names) : ~There(r.names[i])}

\* reserve only looks: nothing holds the name until the note is written
Reserve(c) ==
  /\ cl[c].pc = "reserve"
  /\ LET r == cl[c].req  free == FreeNames(r) IN
     IF free = {} THEN Return(c)
     ELSE \E i \in free : /\ \A j \in free : i <= j
                          /\ cl' = [cl EXCEPT ![c].pc = "put", ![c].path = r.names[i],
                                               ![c].at = clock]
  /\ UNCHANGED <<disk, index, woken, ix, clock, bounds, raced>>

\* mergeInPlace, appendToCard or a fresh note
Text(c) ==
  LET r == cl[c].req  old == cl[c].old IN
  IF cl[c].path = r.card THEN [old EXCEPT !.words = @ \cup {r.text}]
  ELSE [NoNote EXCEPT !.unit = r.unit, !.title = r.title, !.live = TRUE, !.words = {r.text},
          !.born = IF old.v = 0 THEN clock + 1 ELSE old.born, !.mine = old.mine]

Put(c) ==
  /\ cl[c].pc = "put"
  /\ WriteAtomic(cl[c].path, Text(c))
  /\ LET put == [cl[c] EXCEPT !.old = NoNote, !.began = 0, !.unread = {}, !.at = 0] IN
     cl' = [cl EXCEPT ![c] = IF @.path = @.req.card THEN [put EXCEPT !.pc = "read"]
              ELSE [put EXCEPT !.pc = "stat",
                      !.text = [of |-> clock + 1, mtime |-> 0, born |-> Text(c).born]]]
  /\ UNCHANGED <<index, ix, bounds>>

\* a file cannot be read or written: the call ends
PutFails(c) ==
  /\ cl[c].pc \in {"card", "reserve", "put", "read"} /\ Fault /\ Return(c)
  /\ UNCHANGED <<disk, index, woken, ix, clock, asked, edits, raced>>

\* a card is read again for its row
Reread(c) ==
  /\ cl[c].pc = "read"
  /\ IF There(cl[c].path)
     THEN cl' = [cl EXCEPT ![c].pc = "stat", ![c].text = TextAt(cl[c].path)]
     ELSE Return(c)
  /\ UNCHANGED <<disk, index, woken, ix, clock, bounds, raced>>

\* the mtime comes from the path, not from the file that was written
Stat(c) ==
  /\ cl[c].pc = "stat"
  /\ LET p == cl[c].path  now == disk[p].v IN
     /\ IF now = 0 /\ p = cl[c].req.card THEN Return(c)
        ELSE cl' = [cl EXCEPT ![c].pc = "row", ![c].mtime = now]
     /\ raced' = IF now \notin {0, cl[c].text.of} THEN raced \cup {p} ELSE raced
  /\ UNCHANGED <<disk, index, woken, ix, clock, bounds>>

\* a failing upsert leaves the row to the reconcile pass
Row(c) ==
  /\ cl[c].pc = "row"
  /\ Return(c)
  /\ \/ Upsert(cl[c].path, cl[c].text, cl[c].mtime) /\ UNCHANGED faults
     \/ Fault /\ UNCHANGED index
  /\ UNCHANGED <<disk, woken, ix, clock, asked, edits, raced>>

Serve(c) ==
  \/ ReadCard(c) \/ Reserve(c) \/ Put(c) \/ Reread(c) \/ Stat(c) \/ Row(c)

-----------------------------------------------------------------------------
(* The watcher goroutine: debounced batches, and a full pass on each tick. *)

Flush ==
  /\ ix.pc = "idle" /\ woken # {}
  /\ ix' = [NoPass EXCEPT !.pc = "pass", !.todo = woken]
  /\ woken' = {}
  /\ UNCHANGED <<disk, index, cl, clock, bounds, raced>>

\* a full pass reads the rows first and lists the folders after
Tick ==
  /\ ix.pc = "idle"
  /\ ix' = [NoPass EXCEPT !.pc = "list", !.walk = TRUE,
               !.known = {<<p, index[p].mtime>> : p \in {q \in Paths : index[q].of # 0}}]
  /\ UNCHANGED <<disk, index, woken, cl, clock, bounds, raced>>

List ==
  /\ ix.pc = "list"
  /\ ix' = [ix EXCEPT !.pc = "pass", !.todo = {p \in Paths : There(p)}]
  /\ UNCHANGED <<disk, index, woken, cl, clock, bounds, raced>>

\* a folder that cannot be read is reported, and its files count as not seen
Unreadable(p) ==
  /\ ix.pc = "list" /\ There(p) /\ Fault
  /\ ix' = [ix EXCEPT !.pc = "pass", !.todo = {q \in Paths \ {p} : There(q)}]
  /\ UNCHANGED <<disk, index, woken, cl, clock, asked, edits, raced>>

\* (mutant) a path the index knows is not looked at again
UnchangedIfKnown(p) == \E m \in 0..clock : <<p, m>> \in ix.known

\* the row was filed under the mtime and size the file has
Unchanged(p) == <<p, disk[p].v>> \in ix.known

\* a path of the pass: nothing to do, a row to delete, or IndexFile's stat
Visit(p) ==
  /\ ix.pc = "pass" /\ p \in ix.todo /\ (ix.walk => p = First(ix.todo))
  /\ LET seen == [ix EXCEPT !.todo = @ \ {p}, !.known = {k \in @ : k[1] # p}] IN
     ix' = IF There(p)
           THEN IF Unchanged(p) THEN seen
                ELSE [seen EXCEPT !.pc = "read", !.path = p, !.mtime = disk[p].v]
           ELSE IF ix.walk THEN seen ELSE [seen EXCEPT !.pc = "delete", !.path = p]
  /\ UNCHANGED <<disk, index, woken, cl, clock, bounds, raced>>

Resume == [ix EXCEPT !.pc = "pass", !.path = None, !.text = NoRow, !.mtime = 0]

DeleteVanished ==
  /\ ix.pc = "delete" /\ DeleteRow(ix.path) /\ ix' = Resume
  /\ UNCHANGED <<disk, woken, cl, clock, bounds, raced>>

ReadFile ==
  /\ ix.pc = "read"
  /\ ix' = IF There(ix.path) THEN [ix EXCEPT !.pc = "row", !.text = TextAt(ix.path)] ELSE Resume
  /\ UNCHANGED <<disk, index, woken, cl, clock, bounds, raced>>

UpsertFile ==
  /\ ix.pc = "row" /\ ix' = Resume
  /\ \/ Upsert(ix.path, ix.text, ix.mtime) /\ UNCHANGED faults
     \/ Fault /\ UNCHANGED index
  /\ UNCHANGED <<disk, woken, cl, clock, asked, edits, raced>>

\* the rows that were read and whose file the walk did not see go, one by one
SweepRow(p) ==
  /\ ix.pc = "pass" /\ ix.todo = {} /\ \E k \in ix.known : k[1] = p
  /\ DeleteRow(p) /\ ix' = [ix EXCEPT !.known = {k \in @ : k[1] # p}]
  /\ UNCHANGED <<disk, woken, cl, clock, bounds, raced>>

EndPass ==
  /\ ix.pc = "pass" /\ ix.todo = {} /\ ix.known = {}
  /\ ix' = NoPass
  /\ UNCHANGED <<disk, index, woken, cl, clock, bounds, raced>>

Watch ==
  \/ Flush \/ Tick \/ List \/ DeleteVanished \/ ReadFile \/ UpsertFile \/ EndPass
  \/ \E p \in Paths : Visit(p) \/ SweepRow(p)

-----------------------------------------------------------------------------
(* The vault's other writers, and the end of the daemon.                   *)

Changes == edits < MaxEdits /\ edits' = edits + 1 /\ UNCHANGED <<index, cl, ix, asked, faults>>

\* the operator sets a reading of his own, or retires the note of a source
Edit(p) ==
  /\ Changes /\ There(p)
  /\ \/ WriteAtomic(p, [disk[p] EXCEPT !.mine = clock + 1])
     \/ disk[p].unit # None /\ WriteAtomic(p, [disk[p] EXCEPT !.live = FALSE])

\* a note from somewhere else takes the name
Arrive(p) ==
  /\ Changes /\ ~There(p)
  /\ WriteAtomic(p, [NoNote EXCEPT !.born = clock + 1])

Remove(p) ==
  /\ Changes /\ There(p)
  /\ disk' = [disk EXCEPT ![p] = NoNote] /\ raced' = raced \ {p}
  /\ Reported(p) /\ UNCHANGED clock

Lost(p) ==
  /\ p \in woken /\ Fault /\ woken' = woken \ {p}
  /\ UNCHANGED <<disk, index, cl, ix, clock, asked, edits, raced>>

\* the daemon and the requests it serves end; the files and the rows stay
Kill ==
  /\ Fault
  /\ cl' = [c \in Clients |-> NoCall] /\ ix' = NoPass /\ woken' = {}
  /\ UNCHANGED <<disk, index, clock, asked, edits, raced>>

Next ==
  \/ \E c \in Clients : (\E r \in Asks[c] : Begin(c, r)) \/ Serve(c) \/ PutFails(c)
  \/ Watch \/ (\E p \in Paths : Unreadable(p) \/ Lost(p)) \/ (\E p \in Touched : Edit(p) \/ Arrive(p) \/ Remove(p))
  \/ Kill

\* requests run to their end and the ticker fires for ever
Spec == Init /\ [][Next]_vars /\ WF_vars(Watch) /\ \A c \in Clients : WF_vars(Serve(c))

-----------------------------------------------------------------------------
TypeOK ==
  /\ \A p \in Paths : disk[p].v \in 0..clock /\ disk[p].born <= disk[p].v
                      /\ index[p].of \in 0..clock /\ index[p].mtime \in 0..clock
                      /\ (index[p].of = 0 => index[p] = NoRow)
  /\ \A c \in Clients : /\ cl[c].pc \in {"idle", "card", "reserve", "put", "read", "stat", "row"}
                        /\ cl[c].path \in Paths \cup {None}
                        /\ cl[c].began <= cl[c].at /\ cl[c].at <= clock
                        /\ cl[c].pc \in {"idle", "reserve"} <=> cl[c].path = None
  /\ ix.pc \in {"idle", "list", "pass", "read", "row", "delete"}
  /\ ix.todo \cup woken \cup raced \subseteq Paths
  /\ clock <= 1 + Cardinality(asked) + edits

\* capture.go:578-580 and samesource.go:9-13: what a capture writes over is the note
\* it has read, whose `created`, importance and words of a card stay, unless the
\* file came to the path, or changed there, after the capture's last look at it.
ReplacesWhatItRead ==
  [][ \A c \in Clients : Put(c) =>
        LET was == disk[cl[c].path]  is == disk'[cl[c].path] IN
        \/ was.v \in {0} \cup (cl[c].at + 1)..clock
        \/ was = cl[c].old /\ is.born = was.born /\ is.mine = was.mine
           /\ (cl[c].path = cl[c].req.card => was.words \subseteq is.words) ]_vars

\* agentm-vault.md:196, "a memory is saved once": a capture makes a second note of the
\* same source and title only beside one that came after it had looked for it, or that
\* it could not read when it looked (samesource.go:103-105 and 112-114).
OneNotePerSource ==
  [][ \A c \in Clients : Put(c) /\ cl[c].old.v = 0 /\ cl[c].req.unit # None =>
        \A p \in cl[c].req.within \ {cl[c].path} :
          disk[p].live /\ disk[p].unit = cl[c].req.unit /\ disk[p].title = cl[c].req.title
            => disk[p].v > cl[c].began \/ p \in cl[c].unread ]_vars

\* index.go:577-585: in the end the rows are those of the files, whatever the notifier
\* missed, but for a file that changed between a capture's write and its stat.
IndexCatchesUp == <>[](\A p \in Paths \ raced : index[p].of = disk[p].v)
=============================================================================
