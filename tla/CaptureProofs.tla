---------------------------- MODULE CaptureProofs ----------------------------
(* Theorems about Capture, for any clients and what they ask, any names,   *)
(* any vault to begin with, and any number of edits and faults.            *)
EXTENDS Capture, FiniteSetTheorems, TLAPS

-----------------------------------------------------------------------------
(* Types, and the clock that stays below what was asked and edited: a      *)
(* request that has not written yet owes its tick.                         *)

RowType == [of : Nat, mtime : Nat, born : Nat]
CallType == [pc : {"idle", "card", "reserve", "put", "read", "stat", "row"},
             req : Request \cup {None}, path : Paths \cup {None}, old : Note,
             text : RowType, mtime : Nat, began : Nat, unread : SUBSET Paths, at : Nat]
PassType == [pc : {"idle", "list", "pass", "read", "row", "delete"}, walk : BOOLEAN,
             todo : SUBSET Paths, known : SUBSET (Paths \X Nat),
             path : Paths \cup {None}, text : RowType, mtime : Nat]

FilesTyped ==
  /\ clock \in Nat /\ clock > 0 /\ disk \in [Paths -> Note]
  /\ \A p \in Paths : /\ disk[p].v <= clock /\ disk[p].born <= disk[p].v
                      /\ disk[p].v = 0 => disk[p] = NoNote

RowsTyped ==
  /\ index \in [Paths -> RowType]
  /\ \A p \in Paths : /\ index[p].of <= clock /\ index[p].mtime <= clock
                      /\ index[p].of = 0 => index[p] = NoRow

\* what a call holds is not younger than the version t
CallTyped(x, t) ==
  /\ x.began <= x.at /\ x.at <= t /\ x.mtime <= t
  /\ x.old.v <= t /\ x.old.born <= x.old.v
  /\ x.pc \in {"idle", "reserve"} <=> x.path = None
  /\ x.pc # "idle" => x.req \in Request
  /\ x.pc \in {"stat", "row"} => x.text.of \in 1..t

CallsTyped == cl \in [Clients -> CallType] /\ \A c \in Clients : CallTyped(cl[c], clock)

PassTyped ==
  /\ ix \in PassType /\ ix.mtime <= clock
  /\ ix.pc \in {"read", "row", "delete"} => ix.path \in Paths
  /\ ix.pc = "row" => ix.text.of \in 1..clock
  /\ woken \subseteq Paths /\ raced \subseteq Paths

\* the clients whose request may still write
Owing == {c \in Clients : cl[c].pc \in {"card", "reserve", "put"}}

Owed ==
  /\ asked \subseteq Clients /\ edits \in Nat
  /\ clock + Cardinality(Owing) <= 1 + Cardinality(asked) + edits

Typed == FilesTyped /\ RowsTyped /\ CallsTyped /\ PassTyped /\ Owed

LEMMA Nothing ==
  /\ NoNote \in Note /\ NoNote.v = 0 /\ NoNote.born = 0 /\ ~NoNote.live
  /\ NoRow \in RowType /\ NoRow.of = 0 /\ NoRow.mtime = 0
  /\ NoCall \in CallType /\ NoCall.pc = "idle" /\ NoCall.path = None
  /\ NoCall.old = NoNote /\ NoCall.began = 0 /\ NoCall.at = 0 /\ NoCall.mtime = 0
  /\ NoPass \in PassType /\ NoPass.pc = "idle" /\ NoPass.mtime = 0
<1>1. NoNote \in Note /\ NoNote.v = 0 /\ NoNote.born = 0 /\ ~NoNote.live
  BY DEF NoNote, Note
<1>2. NoRow \in RowType /\ NoRow.of = 0 /\ NoRow.mtime = 0
  BY DEF NoRow, RowType
<1>3. /\ NoCall \in CallType /\ NoCall.pc = "idle" /\ NoCall.path = None
      /\ NoCall.old = NoNote /\ NoCall.began = 0 /\ NoCall.at = 0 /\ NoCall.mtime = 0
  BY <1>1, <1>2 DEF NoCall, CallType
<1>4. NoPass \in PassType /\ NoPass.pc = "idle" /\ NoPass.mtime = 0
  BY <1>2 DEF NoPass, PassType
<1> QED  BY <1>1, <1>2, <1>3, <1>4

LEMMA OwingIsFinite ==
  /\ IsFiniteSet(Owing) /\ Cardinality(Owing) \in Nat
  /\ \A A \in SUBSET Clients : IsFiniteSet(A) /\ Cardinality(A) \in Nat
<1>1. \A A \in SUBSET Clients : IsFiniteSet(A) /\ Cardinality(A) \in Nat
  BY CaptureAssumption, FS_Subset, FS_CardinalityType
<1>2. Owing \in SUBSET Clients
  BY DEF Owing
<1> QED  BY <1>1, <1>2

LEMMA InitTyped == Init => Typed
<1> SUFFICES ASSUME Init PROVE Typed
  OBVIOUS
<1>1. FilesTyped
  BY CaptureAssumption, Nothing DEF Init, FilesTyped, Note
<1>2. RowsTyped
  <2>1. \A p \in Paths : disk[p].v \in Nat /\ disk[p].v <= 1
    BY CaptureAssumption, Nothing DEF Init, Note
  <2>2. index = [p \in Paths |-> [of |-> disk[p].v, mtime |-> disk[p].v, born |-> 0]]
        /\ clock = 1
    BY DEF Init
  <2> QED  BY <2>1, <2>2 DEF RowsTyped, RowType, NoRow
<1>3. CallsTyped
  BY Nothing DEF Init, CallsTyped, CallTyped
<1>4. PassTyped
  BY Nothing DEF Init, PassTyped
<1>5. Owed
  <2>1. Owing = {} /\ asked = {} /\ clock = 1 /\ edits = 0
    BY Nothing DEF Init, Owing
  <2> QED  BY <2>1, FS_EmptySet DEF Owed
<1> QED  BY <1>1, <1>2, <1>3, <1>4, <1>5 DEF Typed

\* The least-number principle, from the order of the finite sets below.
LEMMA LeastNatural ==
  ASSUME NEW T \in SUBSET Nat, T # {}
  PROVE  \E n \in T : \A m \in T : n <= m
<1> DEFINE below(n) == {m \in T : m < n}
           F == {below(n) : n \in T}
<1>1. F \subseteq FiniteSubsetsOf(Nat)
  <2> SUFFICES ASSUME NEW n \in T PROVE below(n) \in FiniteSubsetsOf(Nat)
    OBVIOUS
  <2>1. \A m \in below(n) : m <= n
    OBVIOUS
  <2>2. IsFiniteSet(below(n))
    BY <2>1, FS_BoundedSetOfNaturals
  <2> QED
    BY <2>2 DEF FiniteSubsetsOf
<1>2. \E x \in F : \A y \in F : ~(<<y, x>> \in StrictSubsetOrdering(Nat))
  <2>1. F # {}
    OBVIOUS
  <2> HIDE DEF F
  <2>2. IsWellFoundedOn(StrictSubsetOrdering(Nat), FiniteSubsetsOf(Nat))
    BY FS_StrictSubsetOrderingWellFounded
  <2> QED
    BY <1>1, <2>1, <2>2, WFMin
<1>3. PICK n \in T : \A m \in T : ~(<<below(m), below(n)>> \in StrictSubsetOrdering(Nat))
  BY <1>2
<1>4. ASSUME NEW m \in T, m < n PROVE FALSE
  <2>0. m \in Nat /\ n \in Nat /\ T \subseteq Nat
    OBVIOUS
  <2>1. m \in below(n) /\ m \notin below(m)
    BY <1>4, <2>0
  <2>2. below(m) \subseteq below(n)
    <3> SUFFICES ASSUME NEW i \in T, i < m PROVE i < n
      OBVIOUS
    <3> QED
      BY <1>4, <2>0
  <2>3. <<below(m), below(n)>> \in StrictSubsetOrdering(Nat)
    BY <2>0, <2>1, <2>2 DEF StrictSubsetOrdering
  <2> QED
    BY <1>3, <2>3
<1> QED
  BY <1>4

\* the first of some paths is one of them
LEMMA FirstIsOne ==
  ASSUME NEW ps \in SUBSET Paths, ps # {} PROVE First(ps) \in ps
<1>1. ps \in SUBSET Nat
  BY CaptureAssumption
<1> QED  BY <1>1, LeastNatural DEF First

-----------------------------------------------------------------------------
(* What a step does to each part of the state.                             *)

LEMMA FilesWritten ==
  ASSUME Typed, NEW p \in Paths, NEW n \in Note, n.born <= clock + 1, WriteAtomic(p, n)
  PROVE  /\ FilesTyped' /\ clock' = clock + 1 /\ woken' \subseteq Paths /\ raced' \subseteq Paths
         /\ disk'[p] = [n EXCEPT !.v = clock + 1] /\ disk'[p].v = clock + 1
         /\ \A q \in Paths : q # p => disk'[q] = disk[q]
<1> DEFINE m == [n EXCEPT !.v = clock + 1]
<1>1. clock \in Nat /\ disk \in [Paths -> Note]
  BY DEF Typed, FilesTyped
<1>2. m \in Note /\ m.v = clock + 1 /\ m.born = n.born
  BY <1>1 DEF Note
<1>3. clock' = clock + 1 /\ disk' = [disk EXCEPT ![p] = m]
  BY DEF WriteAtomic
<1>4. woken' \subseteq Paths /\ raced' \subseteq Paths
  BY DEF WriteAtomic, Reported, Typed, PassTyped
<1> HIDE DEF m
<1>5. disk' \in [Paths -> Note] /\ disk'[p] = m /\ \A q \in Paths : q # p => disk'[q] = disk[q]
  BY <1>1, <1>2, <1>3
<1>6. \A q \in Paths : disk[q].v \in Nat /\ disk[q].v <= clock
  BY <1>1 DEF Typed, FilesTyped, Note
<1>7. FilesTyped'
  BY <1>1, <1>2, <1>3, <1>5, <1>6 DEF Typed, FilesTyped
<1> QED  BY <1>2, <1>3, <1>4, <1>5, <1>7 DEF m

LEMMA RowsStay ==
  ASSUME Typed, index' = index, clock' \in Nat, clock <= clock' PROVE RowsTyped'
<1>1. clock \in Nat /\ \A p \in Paths : index[p].of \in Nat /\ index[p].mtime \in Nat
  BY DEF Typed, FilesTyped, RowsTyped, RowType
<1> QED  BY <1>1 DEF Typed, RowsTyped

LEMMA RowFiled ==
  ASSUME Typed, NEW p \in Paths, NEW text \in RowType, text.of \in 1..clock,
         NEW m \in Nat, m <= clock, Upsert(p, text, m), clock' = clock
  PROVE  RowsTyped'
<1> DEFINE r == [text EXCEPT !.mtime = m]
<1>1. r \in RowType /\ r.of = text.of /\ r.mtime = m
  BY DEF RowType
<1>2. index' = [index EXCEPT ![p] = r]
  BY DEF Upsert
<1>3. text.of # 0 /\ text.of <= clock
  BY DEF Typed, FilesTyped
<1> HIDE DEF r
<1> QED  BY <1>1, <1>2, <1>3 DEF Typed, RowsTyped

LEMMA RowDeleted ==
  ASSUME Typed, NEW p \in Paths, DeleteRow(p), clock' = clock PROVE RowsTyped'
<1>1. 0 <= clock
  BY DEF Typed, FilesTyped
<1> QED  BY <1>1, Nothing DEF Typed, RowsTyped, DeleteRow

LEMMA CallsStay ==
  ASSUME Typed, cl' = cl, clock' \in Nat, clock <= clock' PROVE CallsTyped'
<1>1. clock \in Nat
  BY DEF Typed, FilesTyped
<1>2. \A c \in Clients : /\ cl[c].at \in Nat /\ cl[c].began \in Nat /\ cl[c].mtime \in Nat /\ cl[c].old.v \in Nat
                         /\ cl[c].text.of \in Nat
  BY DEF Typed, CallsTyped, CallType, Note, RowType
<1> QED  BY <1>1, <1>2 DEF Typed, CallsTyped, CallTyped

LEMMA CallMoves ==
  ASSUME Typed, NEW c \in Clients, NEW x \in CallType, cl' = [cl EXCEPT ![c] = x],
         clock' \in Nat, clock <= clock', CallTyped(x, clock')
  PROVE  /\ CallsTyped' /\ cl'[c] = x
         /\ \A d \in Clients : d # c => cl'[d] = cl[d]
<1>1. clock \in Nat
  BY DEF Typed, FilesTyped
<1>2. \A d \in Clients : /\ cl[d].at \in Nat /\ cl[d].began \in Nat /\ cl[d].mtime \in Nat /\ cl[d].old.v \in Nat
                         /\ cl[d].text.of \in Nat
  BY DEF Typed, CallsTyped, CallType, Note, RowType
<1>3. cl' \in [Clients -> CallType] /\ cl'[c] = x /\ \A d \in Clients : d # c => cl'[d] = cl[d]
  BY DEF Typed, CallsTyped
<1>4. \A d \in Clients : d # c => CallTyped(cl'[d], clock')
  BY <1>1, <1>2, <1>3 DEF Typed, CallsTyped, CallTyped
<1>5. CallTyped(cl'[c], clock')
  BY <1>3
<1> QED  BY <1>3, <1>4, <1>5 DEF CallsTyped

LEMMA PassStays ==
  ASSUME Typed, ix' = ix, clock' \in Nat, clock <= clock',
         woken' \subseteq Paths, raced' \subseteq Paths
  PROVE  PassTyped'
<1>1. clock \in Nat /\ ix.mtime \in Nat /\ ix.text.of \in Nat
  BY DEF Typed, FilesTyped, PassTyped, PassType, RowType
<1> QED  BY <1>1 DEF Typed, PassTyped

\* no request is asked or begins to owe, and nothing is written
LEMMA NothingOwed ==
  ASSUME Typed, UNCHANGED <<clock, asked, edits>>, Owing' \subseteq Owing PROVE Owed'
<1>1. /\ Cardinality(Owing') \in Nat /\ Cardinality(Owing) \in Nat
      /\ Cardinality(Owing') <= Cardinality(Owing)
  BY OwingIsFinite, FS_Subset, FS_CardinalityType
<1>2. clock \in Nat /\ edits \in Nat /\ Cardinality(asked) \in Nat
  BY OwingIsFinite DEF Typed, FilesTyped, Owed
<1> QED  BY <1>1, <1>2 DEF Typed, Owed

-----------------------------------------------------------------------------
(* A request.                                                              *)

\* what a request becomes when it begins: one of three
LEMMA BeginIsOneOf ==
  ASSUME Typed, NEW c \in Clients, NEW r \in Asks[c], Begin(c, r)
  PROVE  \E x \in CallType :
           /\ cl' = [cl EXCEPT ![c] = x] /\ x.began = clock /\ x.at = clock /\ x.mtime = 0
           /\ x.req = r /\ r \in Request
           /\ \/ /\ x.pc = "card" /\ x.path = r.card /\ x.path \in Paths /\ x.old = NoNote
              \/ /\ x.pc = "put" /\ x.path \in SameSource(r, x.unread) /\ x.path \in Paths
                 /\ x.old = disk[x.path]
              \/ /\ x.pc = "reserve" /\ x.path = None /\ x.old = NoNote
                 /\ SameSource(r, x.unread) = {}
<1>0. PICK unread \in SUBSET {p \in Paths : There(p)} :
        LET to(pc, p, n) == [NoCall EXCEPT !.req = r, !.pc = pc, !.path = p, !.old = n,
                              !.began = clock, !.unread = unread, !.at = clock]
            same == First(SameSource(r, unread))
        IN cl' = [cl EXCEPT ![c] =
                    IF MatchIdeaCard(r, unread) THEN to("card", r.card, NoNote)
                    ELSE IF SameSource(r, unread) # {} THEN to("put", same, disk[same])
                    ELSE to("reserve", None, NoNote)]
  <2>1. r \in Request
    BY CaptureAssumption
  <2>2. \A p \in r.within \cup {r.card} : p # None => p \in Paths
    BY <2>1 DEF Request
  <2> QED  BY <2>2 DEF Begin
<1> DEFINE to(pc, p, n) == [NoCall EXCEPT !.req = r, !.pc = pc, !.path = p, !.old = n,
                              !.began = clock, !.unread = unread, !.at = clock]
<1>1. r \in Request /\ clock \in Nat /\ disk \in [Paths -> Note]
  BY CaptureAssumption DEF Typed, FilesTyped
<1>2. r.card \in Paths \cup {None} /\ r.within \subseteq Paths
  BY <1>1 DEF Request
<1>3. NoCall \in CallType /\ NoCall.mtime = 0
  BY Nothing
<1> HIDE DEF NoCall
<1>4. CASE MatchIdeaCard(r, unread)
  <2> DEFINE x == to("card", r.card, NoNote)
  <2>1. r.card \in Paths
    BY <1>2, <1>4 DEF MatchIdeaCard
  <2>2. cl' = [cl EXCEPT ![c] = x]
    BY <1>0, <1>4
  <2>3. /\ x \in CallType /\ x.pc = "card" /\ x.path = r.card /\ x.old = NoNote
        /\ x.began = clock /\ x.at = clock /\ x.mtime = 0 /\ x.req = r
        /\ x.unread = unread
    BY <1>1, <1>3, <2>1, Nothing DEF CallType
  <2> HIDE DEF x
  <2> QED  BY <1>1, <2>1, <2>2, <2>3
<1>5. CASE ~MatchIdeaCard(r, unread) /\ SameSource(r, unread) # {}
  <2> DEFINE same == First(SameSource(r, unread))
             x == to("put", same, disk[same])
  <2>1. same \in SameSource(r, unread) /\ same \in Paths
    <3>1. SameSource(r, unread) \in SUBSET Paths
      BY <1>2 DEF SameSource
    <3> QED  BY <1>5, <3>1, FirstIsOne
  <2>2. cl' = [cl EXCEPT ![c] = x]
    BY <1>0, <1>5
  <2> HIDE DEF same
  <2>3. disk[same] \in Note
    BY <1>1, <2>1
  <2>4. /\ x \in CallType /\ x.pc = "put" /\ x.path = same /\ x.old = disk[same]
        /\ x.began = clock /\ x.at = clock /\ x.mtime = 0 /\ x.req = r
        /\ x.unread = unread
    BY <1>1, <1>3, <2>1, <2>3 DEF CallType
  <2> HIDE DEF x
  <2> QED  BY <1>1, <2>1, <2>2, <2>4
<1>6. CASE ~MatchIdeaCard(r, unread) /\ SameSource(r, unread) = {}
  <2> DEFINE x == to("reserve", None, NoNote)
  <2>1. cl' = [cl EXCEPT ![c] = x]
    BY <1>0, <1>6
  <2>2. /\ x \in CallType /\ x.pc = "reserve" /\ x.path = None /\ x.old = NoNote
        /\ x.began = clock /\ x.at = clock /\ x.mtime = 0 /\ x.req = r
        /\ x.unread = unread
    BY <1>1, <1>3, Nothing DEF CallType
  <2> HIDE DEF x
  <2> QED  BY <1>1, <1>6, <2>1, <2>2
<1> QED  BY <1>4, <1>5, <1>6

LEMMA TextTyped ==
  ASSUME Typed, NEW c \in Clients, cl[c].pc = "put"
  PROVE  /\ Text(c) \in Note /\ Text(c).born <= clock + 1 /\ cl[c].path \in Paths
<1>1. /\ cl[c] \in CallType /\ CallTyped(cl[c], clock) /\ clock \in Nat
  BY DEF Typed, CallsTyped, FilesTyped
<1>2. cl[c].path \in Paths /\ cl[c].req \in Request /\ cl[c].old \in Note
  BY <1>1 DEF CallType, CallTyped
<1>3. /\ cl[c].old.v \in Nat /\ cl[c].old.born \in Nat /\ cl[c].old.born <= clock
      /\ cl[c].old.mine \in Nat
  BY <1>1, <1>2 DEF CallTyped, Note
<1>4. CASE cl[c].path = cl[c].req.card
  <2>1. Text(c) = [cl[c].old EXCEPT !.words = @ \cup {cl[c].req.text}]
    BY <1>4 DEF Text
  <2>2. cl[c].req.text \in Texts
    BY <1>2 DEF Request
  <2>3. Text(c) \in Note /\ Text(c).born = cl[c].old.born
    BY <1>2, <2>1, <2>2 DEF Note
  <2> QED  BY <1>1, <1>2, <1>3, <2>3
<1>5. CASE cl[c].path # cl[c].req.card
  <2> DEFINE born == IF cl[c].old.v = 0 THEN clock + 1 ELSE cl[c].old.born
  <2>1. Text(c) = [v |-> 0, born |-> born, unit |-> cl[c].req.unit, title |-> cl[c].req.title,
                   live |-> TRUE, mine |-> cl[c].old.mine, words |-> {cl[c].req.text}]
    BY <1>5 DEF Text, NoNote
  <2>2. born \in Nat /\ born <= clock + 1
    <3>1. CASE cl[c].old.v = 0
      BY <1>1, <3>1
    <3>2. CASE cl[c].old.v # 0
      <4>1. born = cl[c].old.born
        BY <3>2
      <4> HIDE DEF born
      <4> QED  BY <1>1, <1>3, <4>1
    <3> QED  BY <3>1, <3>2
  <2>3. cl[c].req.text \in Texts /\ cl[c].req.unit \in Units \cup {None}
        /\ cl[c].req.title \in Titles
    BY <1>2 DEF Request
  <2> HIDE DEF born
  <2>4. Text(c) \in Note /\ Text(c).born = born
    BY <1>3, <2>1, <2>2, <2>3, Nothing DEF Note
  <2>5. Text(c).born <= clock + 1
    BY <2>2, <2>4, Zenon
  <2> QED  BY <1>2, <2>4, <2>5
<1> QED  BY <1>4, <1>5

LEMMA BeginTyped ==
  ASSUME Typed, NEW c \in Clients, NEW r \in Asks[c], Begin(c, r) PROVE Typed'
<1>1. UNCHANGED <<disk, index, woken, ix, clock, edits, raced>>
      /\ asked' = asked \cup {c} /\ c \notin asked
  BY DEF Begin
<1>2. clock \in Nat /\ clock' = clock
  BY <1>1 DEF Typed, FilesTyped
<1>3. PICK x \in CallType :
        /\ cl' = [cl EXCEPT ![c] = x] /\ x.began = clock /\ x.at = clock /\ x.mtime = 0
        /\ x.req = r /\ r \in Request
        /\ \/ /\ x.pc = "card" /\ x.path = r.card /\ x.path \in Paths /\ x.old = NoNote
           \/ /\ x.pc = "put" /\ x.path \in SameSource(r, x.unread) /\ x.path \in Paths
              /\ x.old = disk[x.path]
           \/ /\ x.pc = "reserve" /\ x.path = None /\ x.old = NoNote
              /\ SameSource(r, x.unread) = {}
  BY BeginIsOneOf
<1>4. x.old.v <= clock /\ x.old.born <= x.old.v
  BY <1>2, <1>3, Nothing DEF Typed, FilesTyped
<1>5. CallsTyped' /\ \A d \in Clients : d # c => cl'[d] = cl[d]
  <2>1. x.pc \in {"idle", "reserve"} <=> x.path = None
    BY <1>3, CaptureAssumption
  <2>2. CallTyped(x, clock')
    BY <1>2, <1>3, <1>4, <2>1 DEF CallTyped
  <2>3. clock' \in Nat /\ clock <= clock'
    BY <1>2
  <2> QED  BY <1>3, <2>2, <2>3, CallMoves
<1>6. Owed'
  <2>1. Owing' \subseteq Owing \cup {c}
    BY <1>5 DEF Owing
  <2>2. IsFiniteSet(Owing \cup {c}) /\ Cardinality(Owing \cup {c}) <= Cardinality(Owing) + 1
    <3>1. /\ IsFiniteSet(Owing \cup {c})
          /\ \/ Cardinality(Owing \cup {c}) = Cardinality(Owing)
             \/ Cardinality(Owing \cup {c}) = Cardinality(Owing) + 1
      BY OwingIsFinite, FS_AddElement, Zenon
    <3> QED  BY <3>1, OwingIsFinite
  <2>3. Cardinality(Owing') <= Cardinality(Owing) + 1 /\ Cardinality(Owing') \in Nat
    BY <2>1, <2>2, OwingIsFinite, FS_Subset, FS_CardinalityType
  <2>4. asked' \subseteq Clients /\ Cardinality(asked') = Cardinality(asked) + 1
    BY <1>1, OwingIsFinite, FS_AddElement DEF Typed, Owed
  <2>5. Cardinality(asked) \in Nat /\ edits \in Nat
    BY OwingIsFinite DEF Typed, Owed
  <2> QED  BY <1>1, <1>2, <2>3, <2>4, <2>5, OwingIsFinite DEF Typed, Owed
<1>7. FilesTyped'
  BY <1>1 DEF Typed, FilesTyped
<1>8. PassTyped'
  BY <1>1, <1>2, PassStays DEF Typed, PassTyped
<1> QED  BY <1>1, <1>2, <1>5, <1>6, <1>7, <1>8, RowsStay DEF Typed

\* a step of the request of c that writes no file and no row
LEMMA QuietStep ==
  ASSUME Typed, NEW c \in Clients, NEW x \in CallType, cl' = [cl EXCEPT ![c] = x],
         UNCHANGED <<disk, woken, ix, clock, asked, edits>>, RowsTyped', raced' \subseteq Paths,
         CallTyped(x, clock), x.pc \in {"card", "reserve", "put"} => c \in Owing
  PROVE  Typed'
<1>1. clock \in Nat /\ clock' = clock
  BY DEF Typed, FilesTyped
<1>2. CallsTyped' /\ cl'[c] = x /\ \A d \in Clients : d # c => cl'[d] = cl[d]
  <2>1. clock' \in Nat /\ clock <= clock' /\ CallTyped(x, clock')
    BY <1>1
  <2> QED  BY <2>1, CallMoves
<1>3. Owing' \subseteq Owing
  BY <1>2 DEF Owing
<1>4. FilesTyped' /\ PassTyped'
  BY <1>1, PassStays DEF Typed, FilesTyped, PassTyped
<1> QED  BY <1>2, <1>3, <1>4, NothingOwed DEF Typed

LEMMA ReturnTyped ==
  ASSUME Typed, NEW c \in Clients, Return(c),
         UNCHANGED <<disk, woken, ix, clock, asked, edits>>, RowsTyped', raced' \subseteq Paths
  PROVE  Typed'
<1>1. clock \in Nat
  BY DEF Typed, FilesTyped
<1>2. NoCall \in CallType /\ CallTyped(NoCall, clock) /\ NoCall.pc \notin {"card", "reserve", "put"}
  BY <1>1, Nothing DEF CallTyped
<1>3. cl' = [cl EXCEPT ![c] = NoCall]
  BY DEF Return
<1> QED  BY <1>2, <1>3, QuietStep

LEMMA ReadCardTyped ==
  ASSUME Typed, NEW c \in Clients, ReadCard(c) PROVE Typed'
<1> DEFINE p == cl[c].path
<1>1. /\ UNCHANGED <<disk, index, woken, ix, clock, bounds, raced>> /\ cl[c].pc = "card"
      /\ UNCHANGED <<asked, edits>>
  BY DEF ReadCard, bounds
<1>2. /\ clock \in Nat /\ disk \in [Paths -> Note] /\ cl[c] \in CallType
      /\ CallTyped(cl[c], clock) /\ raced' \subseteq Paths /\ cl \in [Clients -> CallType]
  BY <1>1 DEF Typed, FilesTyped, CallsTyped, PassTyped
<1>3. p \in Paths /\ c \in Owing
  BY <1>1, <1>2 DEF CallTyped, CallType, Owing
<1>4. RowsTyped'
  BY <1>1, <1>2, RowsStay
<1>5. CASE ~There(p)
  BY <1>1, <1>2, <1>4, <1>5, ReturnTyped DEF ReadCard
<1>6. CASE There(p) /\ cl[c].req.text \in disk[p].words
  <2> DEFINE x == [cl[c] EXCEPT !.pc = "read"]
  <2>1. cl' = [cl EXCEPT ![c] = x]
    BY <1>2, <1>6 DEF ReadCard, Goes
  <2>2. x \in CallType /\ CallTyped(x, clock) /\ x.pc = "read"
    BY <1>1, <1>2, <1>3 DEF CallType, CallTyped
  <2> HIDE DEF x
  <2> QED  BY <1>1, <1>2, <1>4, <2>1, <2>2, QuietStep
<1>7. CASE There(p) /\ cl[c].req.text \notin disk[p].words
  <2> DEFINE x == [cl[c] EXCEPT !.pc = "put", !.old = disk[p], !.at = clock]
  <2>1. cl' = [cl EXCEPT ![c] = x]
    BY <1>2, <1>7 DEF ReadCard
  <2>2. disk[p] \in Note /\ disk[p].v <= clock /\ disk[p].born <= disk[p].v
    BY <1>2, <1>3 DEF Typed, FilesTyped
  <2>3. p = cl[c].path
    OBVIOUS
  <2> HIDE DEF p
  <2>4. /\ x \in CallType /\ x.pc = "put" /\ x.path = p /\ x.req = cl[c].req /\ x.old = disk[p]
        /\ x.began = cl[c].began /\ x.at = clock /\ x.mtime = cl[c].mtime
    BY <1>2, <1>3, <2>2, <2>3 DEF CallType
  <2> HIDE DEF x
  <2>5. /\ cl[c].began <= clock /\ cl[c].mtime <= clock /\ cl[c].req \in Request /\ p # None
        /\ clock <= clock
    BY <1>1, <1>2, <1>3, CaptureAssumption DEF CallTyped, CallType
  <2>6. CallTyped(x, clock)
    BY <2>2, <2>4, <2>5 DEF CallTyped
  <2> QED  BY <1>1, <1>2, <1>3, <1>4, <2>1, <2>4, <2>6, QuietStep
<1> QED  BY <1>5, <1>6, <1>7

LEMMA ReserveTyped ==
  ASSUME Typed, NEW c \in Clients, Reserve(c) PROVE Typed'
<1>1. UNCHANGED <<disk, index, woken, ix, clock, asked, edits, raced>> /\ cl[c].pc = "reserve"
  BY DEF Reserve, bounds
<1>2. /\ clock \in Nat /\ cl[c] \in CallType /\ CallTyped(cl[c], clock)
      /\ raced' \subseteq Paths /\ cl \in [Clients -> CallType]
  BY <1>1 DEF Typed, FilesTyped, CallsTyped, PassTyped
<1>3. c \in Owing /\ cl[c].req \in Request
  BY <1>1, <1>2 DEF CallTyped, Owing
<1>4. RowsTyped'
  BY <1>1, <1>2, RowsStay
<1>5. CASE FreeNames(cl[c].req) = {}
  BY <1>1, <1>2, <1>4, <1>5, ReturnTyped DEF Reserve
<1>6. CASE FreeNames(cl[c].req) # {}
  <2>1. PICK i \in FreeNames(cl[c].req) :
          cl' = [cl EXCEPT ![c].pc = "put", ![c].path = cl[c].req.names[i],
                    ![c].at = clock]
    BY <1>6 DEF Reserve
  <2> DEFINE p == cl[c].req.names[i]
             x == [cl[c] EXCEPT !.pc = "put", !.path = p, !.at = clock]
  <2>2. p \in Paths
    <3>1. cl[c].req.names \in Seq(Paths) /\ i \in 1..Len(cl[c].req.names)
      BY <1>3 DEF Request, FreeNames
    <3> QED  BY <3>1
  <2>3. cl' = [cl EXCEPT ![c] = x]
    BY <1>2, <2>1
  <2> HIDE DEF p
  <2>4. /\ x \in CallType /\ x.pc = "put" /\ x.path = p /\ x.req = cl[c].req /\ x.old = cl[c].old
        /\ x.began = cl[c].began /\ x.at = clock /\ x.mtime = cl[c].mtime
    BY <1>2, <2>2 DEF CallType
  <2> HIDE DEF x
  <2>5. /\ cl[c].began <= clock /\ cl[c].mtime <= clock /\ p # None /\ clock <= clock
        /\ cl[c].old.v <= clock /\ cl[c].old.born <= cl[c].old.v
    BY <1>1, <1>2, <2>2, CaptureAssumption DEF CallTyped, CallType
  <2>6. CallTyped(x, clock)
    BY <1>3, <2>4, <2>5 DEF CallTyped
  <2> QED  BY <1>1, <1>2, <1>3, <1>4, <2>3, <2>4, <2>6, QuietStep
<1> QED  BY <1>5, <1>6

LEMMA PutTyped ==
  ASSUME Typed, NEW c \in Clients, Put(c) PROVE Typed'
<1>1. /\ WriteAtomic(cl[c].path, Text(c)) /\ cl[c].pc = "put"
      /\ UNCHANGED <<index, ix, asked, edits>>
  BY DEF Put, bounds
<1>2. Text(c) \in Note /\ Text(c).born <= clock + 1 /\ cl[c].path \in Paths
  BY <1>1, TextTyped
<1>3. FilesTyped' /\ clock' = clock + 1 /\ woken' \subseteq Paths /\ raced' \subseteq Paths
  BY <1>1, <1>2, FilesWritten
<1>4. /\ clock \in Nat /\ cl[c] \in CallType /\ CallTyped(cl[c], clock)
      /\ cl \in [Clients -> CallType]
  BY DEF Typed, FilesTyped, CallsTyped
<1>5. clock' \in Nat /\ clock <= clock'
  BY <1>3, <1>4
<1>6. \E x \in CallType : /\ cl' = [cl EXCEPT ![c] = x] /\ CallTyped(x, clock')
                          /\ x.pc \in {"read", "stat"}
  <2> DEFINE put == [cl[c] EXCEPT !.old = NoNote, !.began = 0, !.unread = {}, !.at = 0]
             text == [of |-> clock + 1, mtime |-> 0, born |-> Text(c).born]
  <2>1. put \in CallType /\ put.path = cl[c].path /\ put.req = cl[c].req
        /\ put.began = 0 /\ put.at = 0
        /\ put.mtime <= clock /\ put.old = NoNote
    BY <1>4, Nothing DEF CallType, CallTyped
  <2>2. text \in RowType /\ text.of = clock + 1
    <3>1. Text(c).born \in Nat
      BY <1>2 DEF Note
    <3> QED  BY <1>4, <3>1 DEF RowType
  <2>3. cl[c].req \in Request
    BY <1>1, <1>4 DEF CallTyped
  <2>4. put.mtime \in Nat /\ cl[c].path # None
    BY <1>2, <2>1, CaptureAssumption DEF CallType
  <2>5. cl' = [cl EXCEPT ![c] = IF cl[c].path = cl[c].req.card THEN [put EXCEPT !.pc = "read"]
                                ELSE [put EXCEPT !.pc = "stat", !.text = text]]
    BY <1>4 DEF Put
  <2> HIDE DEF put, text
  <2>6. CASE cl[c].path = cl[c].req.card
    <3> DEFINE x == [put EXCEPT !.pc = "read"]
    <3>1. cl' = [cl EXCEPT ![c] = x]
      BY <2>5, <2>6
    <3>2. x \in CallType /\ x.pc = "read" /\ CallTyped(x, clock')
      BY <1>3, <1>4, <2>1, <2>3, <2>4, Nothing DEF CallType, CallTyped
    <3> HIDE DEF x
    <3> QED  BY <3>1, <3>2
  <2>7. CASE cl[c].path # cl[c].req.card
    <3> DEFINE x == [put EXCEPT !.pc = "stat", !.text = text]
    <3>1. cl' = [cl EXCEPT ![c] = x]
      BY <2>5, <2>7
    <3>2. /\ x \in CallType /\ x.pc = "stat" /\ x.path = put.path /\ x.req = put.req
          /\ x.old = put.old /\ x.began = put.began /\ x.at = put.at
          /\ x.mtime = put.mtime /\ x.text = text
      BY <2>1, <2>2 DEF CallType
    <3> HIDE DEF x
    <3>3. x.old.v = 0 /\ x.old.born = 0 /\ x.mtime <= clock' /\ x.began <= x.at /\ x.at <= clock'
      BY <1>3, <1>4, <2>1, <2>4, <3>2, Nothing
    <3>4. CallTyped(x, clock')
      BY <1>3, <1>4, <2>1, <2>2, <2>3, <2>4, <3>2, <3>3 DEF CallTyped
    <3> QED  BY <3>1, <3>2, <3>4
  <2> QED  BY <2>6, <2>7
<1>7. PICK x \in CallType : /\ cl' = [cl EXCEPT ![c] = x] /\ CallTyped(x, clock')
                            /\ x.pc \in {"read", "stat"}
  BY <1>6
<1>8. CallsTyped' /\ cl'[c] = x /\ \A d \in Clients : d # c => cl'[d] = cl[d]
  BY <1>5, <1>7, CallMoves
<1>9. Owed'
  <2>1. Owing' = Owing \ {c} /\ c \in Owing
    BY <1>1, <1>7, <1>8 DEF Owing
  <2>2. Cardinality(Owing') = Cardinality(Owing) - 1
    BY <2>1, OwingIsFinite, FS_RemoveElement
  <2>3. Cardinality(asked) \in Nat /\ edits \in Nat
    BY OwingIsFinite DEF Typed, Owed
  <2> QED  BY <1>1, <1>3, <1>4, <2>2, <2>3, OwingIsFinite DEF Typed, Owed
<1>10. RowsTyped' /\ PassTyped'
  BY <1>1, <1>3, <1>5, RowsStay, PassStays
<1> QED  BY <1>3, <1>8, <1>9, <1>10 DEF Typed

\* after the write a card is read again, a note is asked for its mtime
LEMMA PutGoesOn ==
  ASSUME Typed, NEW c \in Clients, Put(c)
  PROVE  \E x : cl' = [cl EXCEPT ![c] = x] /\ x.pc \in {"read", "stat"}
<1> DEFINE put == [cl[c] EXCEPT !.old = NoNote, !.began = 0, !.unread = {}, !.at = 0]
           text == [of |-> clock + 1, mtime |-> 0, born |-> Text(c).born]
<1>1. cl[c] \in CallType /\ cl \in [Clients -> CallType]
  BY DEF Typed, CallsTyped
<1>2. put \in [pc : {"idle", "card", "reserve", "put", "read", "stat", "row"},
               req : {cl[c].req}, path : {cl[c].path}, old : {NoNote}, text : {cl[c].text},
               mtime : {cl[c].mtime}, began : {0}, unread : {{}}, at : {0}]
  BY <1>1 DEF CallType
<1>3. cl' = [cl EXCEPT ![c] = IF cl[c].path = cl[c].req.card THEN [put EXCEPT !.pc = "read"]
                              ELSE [put EXCEPT !.pc = "stat", !.text = text]]
  BY <1>1 DEF Put
<1> HIDE DEF put, text
<1>4. /\ [put EXCEPT !.pc = "read"].pc = "read"
      /\ [put EXCEPT !.pc = "stat", !.text = text].pc = "stat"
  BY <1>2
<1> QED  BY <1>3, <1>4

LEMMA RereadTyped ==
  ASSUME Typed, NEW c \in Clients, Reread(c) PROVE Typed'
<1> DEFINE p == cl[c].path
<1>1. UNCHANGED <<disk, index, woken, ix, clock, asked, edits, raced>> /\ cl[c].pc = "read"
  BY DEF Reread, bounds
<1>2. /\ clock \in Nat /\ disk \in [Paths -> Note] /\ cl[c] \in CallType
      /\ CallTyped(cl[c], clock) /\ raced' \subseteq Paths /\ cl \in [Clients -> CallType]
  BY <1>1 DEF Typed, FilesTyped, CallsTyped, PassTyped
<1>3. p \in Paths
  BY <1>1, <1>2 DEF CallTyped, CallType
<1>4. RowsTyped'
  BY <1>1, <1>2, RowsStay
<1>5. CASE ~There(p)
  BY <1>1, <1>2, <1>4, <1>5, ReturnTyped DEF Reread
<1>6. CASE There(p)
  <2> DEFINE text == TextAt(p)
             x == [cl[c] EXCEPT !.pc = "stat", !.text = text]
  <2>1. cl' = [cl EXCEPT ![c] = x]
    BY <1>2, <1>6 DEF Reread
  <2>2. text \in RowType /\ text.of \in 1..clock
    BY <1>2, <1>3, <1>6 DEF TextAt, There, RowType, Typed, FilesTyped, Note
  <2> HIDE DEF text
  <2>3. x \in CallType /\ CallTyped(x, clock) /\ x.pc = "stat"
    BY <1>1, <1>2, <2>2 DEF CallType, CallTyped
  <2> HIDE DEF x
  <2> QED  BY <1>1, <1>2, <1>4, <2>1, <2>3, QuietStep
<1> QED  BY <1>5, <1>6

LEMMA StatTyped ==
  ASSUME Typed, NEW c \in Clients, Stat(c) PROVE Typed'
<1> DEFINE now == disk[cl[c].path].v
<1>1. UNCHANGED <<disk, index, woken, ix, clock, asked, edits>> /\ cl[c].pc = "stat"
  BY DEF Stat, bounds
<1>2. /\ clock \in Nat /\ disk \in [Paths -> Note] /\ cl[c] \in CallType
      /\ CallTyped(cl[c], clock) /\ raced \subseteq Paths /\ cl \in [Clients -> CallType]
  BY <1>1 DEF Typed, FilesTyped, CallsTyped, PassTyped
<1>3. cl[c].path \in Paths
  BY <1>1, <1>2 DEF CallTyped, CallType
<1>4. RowsTyped' /\ raced' \subseteq Paths
  BY <1>1, <1>2, <1>3, RowsStay DEF Stat
<1>5. CASE Return(c)
  BY <1>1, <1>4, <1>5, ReturnTyped
<1>6. CASE ~Return(c)
  <2> DEFINE x == [cl[c] EXCEPT !.pc = "row", !.mtime = now]
  <2>1. cl' = [cl EXCEPT ![c] = x]
    BY <1>2, <1>6 DEF Stat
  <2>2. now \in Nat /\ now <= clock
    BY <1>2, <1>3 DEF Typed, FilesTyped, Note
  <2> HIDE DEF now
  <2>3. x \in CallType /\ CallTyped(x, clock) /\ x.pc = "row"
    BY <1>1, <1>2, <2>2 DEF CallType, CallTyped
  <2> HIDE DEF x
  <2> QED  BY <1>1, <1>4, <2>1, <2>3, QuietStep
<1> QED  BY <1>5, <1>6

LEMMA RowTyped ==
  ASSUME Typed, NEW c \in Clients, Row(c) \/ PutFails(c) PROVE Typed'
<1>1. UNCHANGED <<disk, woken, ix, clock, asked, edits, raced>> /\ Return(c)
  BY DEF Row, PutFails
<1>2. clock \in Nat /\ raced' \subseteq Paths /\ cl[c] \in CallType /\ CallTyped(cl[c], clock)
  BY <1>1 DEF Typed, FilesTyped, CallsTyped, PassTyped
<1>3. CASE index' = index
  BY <1>1, <1>2, <1>3, RowsStay, ReturnTyped
<1>4. CASE Upsert(cl[c].path, cl[c].text, cl[c].mtime) /\ cl[c].pc = "row"
  <2>1. /\ cl[c].path \in Paths /\ cl[c].text \in RowType /\ cl[c].text.of \in 1..clock
        /\ cl[c].mtime \in Nat /\ cl[c].mtime <= clock
    BY <1>2, <1>4 DEF CallType, CallTyped
  <2> QED  BY <1>1, <1>2, <1>4, <2>1, RowFiled, ReturnTyped
<1> QED  BY <1>3, <1>4 DEF Row, PutFails

-----------------------------------------------------------------------------
(* The watcher, and the vault's other writers.                             *)

LEMMA PassMoves ==
  ASSUME Typed, UNCHANGED <<disk, cl, clock, asked, edits>>, RowsTyped', PassTyped'
  PROVE  Typed'
<1>1. clock \in Nat
  BY DEF Typed, FilesTyped
<1>2. FilesTyped'
  BY DEF Typed, FilesTyped
<1>3. CallsTyped'
  BY <1>1, CallsStay
<1>4. Owed'
  BY NothingOwed DEF Owing
<1> QED  BY <1>2, <1>3, <1>4 DEF Typed

LEMMA WatchTyped ==
  ASSUME Typed, Watch PROVE Typed'
<1>1. UNCHANGED <<disk, cl, clock, asked, edits, raced>>
  BY DEF Watch, Flush, Tick, List, Visit, DeleteVanished, ReadFile, UpsertFile, SweepRow,
         EndPass, bounds
<1>2. /\ clock \in Nat /\ clock > 0 /\ disk \in [Paths -> Note] /\ index \in [Paths -> RowType]
      /\ PassTyped /\ clock' = clock /\ raced' \subseteq Paths
  BY <1>1 DEF Typed, FilesTyped, RowsTyped, PassTyped
<1>3. index' = index => RowsTyped'
  BY <1>1, <1>2, RowsStay
<1>4. CASE Flush
  <2>1. ix' = [NoPass EXCEPT !.pc = "pass", !.todo = woken] /\ woken' = {}
        /\ woken \subseteq Paths
    BY <1>2, <1>4 DEF Flush, PassTyped
  <2> HIDE DEF NoPass
  <2>2. ix' \in PassType /\ ix'.pc = "pass" /\ ix'.mtime = 0
    BY <2>1, Nothing DEF PassType
  <2>3. PassTyped'
    BY <1>2, <2>1, <2>2 DEF PassTyped
  <2> QED  BY <1>1, <1>3, <1>4, <2>3, PassMoves DEF Flush
<1>5. CASE Tick
  <2> DEFINE known == {<<p, index[p].mtime>> : p \in {q \in Paths : index[q].of # 0}}
  <2>1. known \subseteq Paths \X Nat
    BY <1>2 DEF RowType
  <2>2. ix' = [NoPass EXCEPT !.pc = "list", !.walk = TRUE, !.known = known] /\ woken' = woken
    BY <1>5 DEF Tick
  <2> HIDE DEF known
  <2>3. ix' \in PassType /\ ix'.pc = "list" /\ ix'.mtime = 0
    BY <2>1, <2>2, Nothing DEF PassType, NoPass
  <2>4. PassTyped'
    BY <1>2, <2>2, <2>3 DEF PassTyped
  <2> QED  BY <1>1, <1>3, <1>5, <2>4, PassMoves DEF Tick
<1>6. CASE List
  <2>1. PassTyped'
    BY <1>2, <1>6 DEF List, PassTyped, PassType
  <2> QED  BY <1>1, <1>3, <1>6, <2>1, PassMoves DEF List
<1>7. ASSUME NEW p \in Paths, Visit(p) PROVE Typed'
  <2> DEFINE seen == [ix EXCEPT !.todo = @ \ {p}, !.known = {k \in @ : k[1] # p}]
  <2>1. seen \in PassType /\ seen.pc = ix.pc /\ seen.mtime = ix.mtime
    BY <1>2 DEF PassTyped, PassType
  <2>2. disk[p].v \in Nat /\ disk[p].v <= clock
    BY <1>2 DEF Typed, FilesTyped, Note
  <2>3. /\ ix.pc = "pass" /\ woken' = woken /\ index' = index
        /\ \/ ix' = seen
           \/ ix' = [seen EXCEPT !.pc = "read", !.path = p, !.mtime = disk[p].v]
           \/ ix' = [seen EXCEPT !.pc = "delete", !.path = p]
    BY <1>7 DEF Visit
  <2> HIDE DEF seen
  <2>4. /\ ix' \in PassType /\ ix'.mtime <= clock
        /\ ix'.pc = "pass" \/ (ix'.pc \in {"read", "delete"} /\ ix'.path = p)
    BY <1>2, <2>1, <2>2, <2>3 DEF PassType, PassTyped
  <2>5. PassTyped'
    BY <1>2, <2>3, <2>4 DEF PassTyped
  <2> QED  BY <1>1, <1>3, <2>3, <2>5, PassMoves
<1>8. Resume \in PassType /\ Resume.pc = "pass" /\ Resume.mtime = 0
  BY <1>2, Nothing DEF Resume, PassTyped, PassType
<1>9. ix' = Resume /\ woken' = woken => PassTyped'
  <2> HIDE DEF Resume
  <2> QED  BY <1>2, <1>8 DEF PassTyped
<1>10. CASE DeleteVanished
  <2>1. RowsTyped'
    BY <1>2, <1>10, RowDeleted DEF DeleteVanished, PassTyped
  <2> QED  BY <1>1, <1>9, <1>10, <2>1, PassMoves DEF DeleteVanished
<1>11. CASE ReadFile
  <2>1. CASE ix' = Resume
    BY <1>1, <1>3, <1>9, <1>11, <2>1, PassMoves DEF ReadFile
  <2>2. CASE There(ix.path) /\ ix' = [ix EXCEPT !.pc = "row", !.text = TextAt(ix.path)]
    <3>1. ix.path \in Paths
      BY <1>2, <1>11 DEF ReadFile, PassTyped
    <3>2. TextAt(ix.path) \in RowType /\ TextAt(ix.path).of \in 1..clock
      BY <1>2, <2>2, <3>1 DEF TextAt, There, RowType, Typed, FilesTyped, Note
    <3>3. /\ ix' \in PassType /\ ix'.pc = "row" /\ ix'.mtime = ix.mtime /\ ix'.path = ix.path
          /\ ix'.text = TextAt(ix.path)
      BY <1>2, <2>2, <3>2 DEF PassTyped, PassType
    <3>4. PassTyped'
      BY <1>2, <1>11, <3>1, <3>2, <3>3 DEF PassTyped, ReadFile
    <3> QED  BY <1>1, <1>3, <1>11, <3>4, PassMoves DEF ReadFile
  <2> QED  BY <1>11, <2>1, <2>2 DEF ReadFile
<1>12. CASE UpsertFile
  <2>1. /\ ix.path \in Paths /\ ix.text \in RowType /\ ix.text.of \in 1..clock
        /\ ix.mtime \in Nat /\ ix.mtime <= clock
    BY <1>2, <1>12 DEF UpsertFile, PassTyped, PassType
  <2>2. RowsTyped'
    BY <1>2, <1>3, <1>12, <2>1, RowFiled DEF UpsertFile
  <2> QED  BY <1>1, <1>9, <1>12, <2>2, PassMoves DEF UpsertFile
<1>13. ASSUME NEW p \in Paths, SweepRow(p) PROVE Typed'
  <2>1. RowsTyped'
    BY <1>2, <1>13, RowDeleted DEF SweepRow
  <2>2. /\ ix' \in PassType /\ ix'.pc = "pass" /\ ix'.mtime = ix.mtime /\ woken' = woken
    BY <1>2, <1>13 DEF SweepRow, PassTyped, PassType
  <2>3. PassTyped'
    BY <1>2, <2>2 DEF PassTyped
  <2> QED  BY <1>1, <2>1, <2>3, PassMoves
<1>14. CASE EndPass
  <2>1. PassTyped'
    BY <1>2, <1>14, Nothing DEF EndPass, PassTyped
  <2> QED  BY <1>1, <1>3, <1>14, <2>1, PassMoves DEF EndPass
<1> QED  BY <1>4, <1>5, <1>6, <1>7, <1>10, <1>11, <1>12, <1>13, <1>14 DEF Watch

LEMMA UnreadableTyped ==
  ASSUME Typed, NEW p \in Paths, Unreadable(p) PROVE Typed'
<1>1. UNCHANGED <<disk, index, woken, cl, clock, asked, edits, raced>>
  BY DEF Unreadable
<1>2. PassTyped'
  BY <1>1 DEF Unreadable, Typed, PassTyped, PassType
<1>3. RowsTyped'
  BY <1>1, RowsStay DEF Typed, FilesTyped
<1> QED  BY <1>1, <1>2, <1>3, PassMoves

LEMMA LostTyped ==
  ASSUME Typed, NEW p \in Paths, Lost(p) PROVE Typed'
<1>1. UNCHANGED <<disk, index, cl, ix, clock, asked, edits, raced>> /\ woken' \subseteq woken
  BY DEF Lost
<1>2. PassTyped' /\ RowsTyped'
  BY <1>1, PassStays, RowsStay DEF Typed, FilesTyped, PassTyped
<1> QED  BY <1>1, <1>2, PassMoves

LEMMA KillTyped ==
  ASSUME Typed, Kill PROVE Typed'
<1>1. /\ UNCHANGED <<disk, index, clock, asked, edits, raced>> /\ woken' = {}
      /\ cl' = [c \in Clients |-> NoCall] /\ ix' = NoPass
  BY DEF Kill
<1>2. clock \in Nat
  BY DEF Typed, FilesTyped
<1>3. FilesTyped' /\ RowsTyped'
  BY <1>1, <1>2, RowsStay DEF Typed, FilesTyped
<1>4. CallsTyped'
  BY <1>1, <1>2, Nothing DEF CallsTyped, CallTyped
<1>5. PassTyped'
  BY <1>1, <1>2, Nothing DEF Typed, PassTyped
<1>6. Owed'
  <2>1. Owing' = {}
    BY <1>1, Nothing DEF Owing
  <2> QED  BY <1>1, <2>1, NothingOwed
<1> QED  BY <1>3, <1>4, <1>5, <1>6 DEF Typed

\* the operator's and the sync client's change of a file: what it leaves there
LEMMA FileChanged ==
  ASSUME Typed, NEW p \in Paths, Edit(p) \/ Arrive(p) \/ Remove(p)
  PROVE  /\ FilesTyped' /\ clock \in Nat /\ clock' \in {clock, clock + 1}
         /\ woken' \subseteq Paths /\ raced' \subseteq Paths /\ disk'[p].v \in {0, clock + 1}
         /\ \A q \in Paths : \/ disk'[q] = disk[q] \/ disk'[q] = NoNote
                             \/ disk'[q].v = clock + 1
<1>1. clock \in Nat /\ disk \in [Paths -> Note] /\ disk[p] \in Note
      /\ disk[p].born \in Nat /\ disk[p].born <= clock
  <2>1. clock \in Nat /\ disk \in [Paths -> Note] /\ disk[p] \in Note
    BY DEF Typed, FilesTyped
  <2>2. disk[p].v \in Nat /\ disk[p].born \in Nat /\ disk[p].v <= clock /\ disk[p].born <= disk[p].v
    BY <2>1 DEF Typed, FilesTyped, Note
  <2> QED  BY <2>1, <2>2
<1>2. ASSUME NEW n \in Note, n.born <= clock + 1, WriteAtomic(p, n)
      PROVE  /\ FilesTyped' /\ clock' = clock + 1
             /\ woken' \subseteq Paths /\ raced' \subseteq Paths /\ disk'[p].v = clock + 1
             /\ \A q \in Paths : disk'[q] = disk[q] \/ disk'[q].v = clock + 1
  BY <1>2, FilesWritten
<1>3. CASE Edit(p)
  <2>1. PICK n \in {[disk[p] EXCEPT !.mine = clock + 1], [disk[p] EXCEPT !.live = FALSE]} :
          WriteAtomic(p, n)
    BY <1>3, Zenon DEF Edit
  <2>2. n \in Note /\ n.born = disk[p].born
    <3>1. CASE n = [disk[p] EXCEPT !.mine = clock + 1]
      BY <1>1, <3>1 DEF Note
    <3>2. CASE n = [disk[p] EXCEPT !.live = FALSE]
      BY <1>1, <3>2 DEF Note
    <3> QED  BY <3>1, <3>2
  <2>3. n.born <= clock + 1
    BY <1>1, <2>2
  <2> QED  BY <1>1, <1>2, <2>1, <2>2, <2>3
<1>4. CASE Arrive(p)
  <2> DEFINE b == clock + 1
             n == [NoNote EXCEPT !.born = b]
  <2>1. n \in Note /\ n.born = b
    <3>1. b \in Nat
      BY <1>1
    <3> HIDE DEF b, NoNote
    <3> QED  BY <3>1, Nothing DEF Note
  <2>2. WriteAtomic(p, n)
    BY <1>4 DEF Arrive
  <2> HIDE DEF n
  <2>3. n.born <= clock + 1
    BY <1>1, <2>1
  <2> QED  BY <1>1, <1>2, <2>1, <2>2, <2>3
<1>5. CASE Remove(p)
  <2>1. /\ disk' = [disk EXCEPT ![p] = NoNote] /\ clock' = clock
        /\ raced' = raced \ {p} /\ woken' = woken \cup {p}
    BY <1>5 DEF Remove, Reported
  <2>2. FilesTyped'
    BY <1>1, <2>1, Nothing DEF Typed, FilesTyped
  <2> QED  BY <1>1, <2>1, <2>2, Nothing DEF Typed, PassTyped
<1> QED  BY <1>3, <1>4, <1>5

LEMMA ChangeTyped ==
  ASSUME Typed, NEW p \in Paths, Edit(p) \/ Arrive(p) \/ Remove(p) PROVE Typed'
<1>1. UNCHANGED <<index, cl, ix, asked>> /\ edits' = edits + 1
  BY DEF Edit, Arrive, Remove, Changes
<1>2. /\ FilesTyped' /\ clock \in Nat /\ clock' \in {clock, clock + 1}
      /\ woken' \subseteq Paths /\ raced' \subseteq Paths
  BY FileChanged
<1>3. clock' \in Nat /\ clock <= clock'
  BY <1>2
<1>4. RowsTyped' /\ CallsTyped' /\ PassTyped'
  BY <1>1, <1>2, <1>3, RowsStay, CallsStay, PassStays
<1>5. Owed'
  <2>1. Owing' = Owing /\ Cardinality(Owing) \in Nat
    BY <1>1, OwingIsFinite DEF Owing
  <2>2. Cardinality(asked) \in Nat /\ edits \in Nat
    BY OwingIsFinite DEF Typed, Owed
  <2> QED  BY <1>1, <1>2, <2>1, <2>2 DEF Typed, Owed
<1> QED  BY <1>2, <1>4, <1>5 DEF Typed

LEMMA NextTyped == Typed /\ [Next]_vars => Typed'
<1> SUFFICES ASSUME Typed, [Next]_vars PROVE Typed'
  OBVIOUS
<1>1. ASSUME NEW c \in Clients, NEW r \in Asks[c], Begin(c, r) PROVE Typed'
  BY <1>1, BeginTyped
<1>2. ASSUME NEW c \in Clients, Serve(c) \/ PutFails(c) PROVE Typed'
  BY <1>2, ReadCardTyped, ReserveTyped, PutTyped, RereadTyped, StatTyped, RowTyped DEF Serve
<1>3. CASE Watch
  BY <1>3, WatchTyped
<1>4. ASSUME NEW p \in Paths, Unreadable(p) \/ Lost(p) PROVE Typed'
  BY <1>4, UnreadableTyped, LostTyped
<1>5. ASSUME NEW p \in Touched, Edit(p) \/ Arrive(p) \/ Remove(p) PROVE Typed'
  <2>1. p \in Paths
    BY CaptureAssumption
  <2> QED  BY <1>5, <2>1, ChangeTyped
<1>6. CASE Kill
  BY <1>6, KillTyped
<1>7. CASE UNCHANGED vars
  BY <1>7 DEF vars, bounds, Typed, FilesTyped, RowsTyped, CallsTyped, PassTyped, Owed, Owing
<1> QED  BY <1>1, <1>2, <1>3, <1>4, <1>5, <1>6, <1>7 DEF Next

LEMMA TypedIsTypeOK == Typed => TypeOK
<1> SUFFICES ASSUME Typed PROVE TypeOK
  OBVIOUS
<1>1. ASSUME NEW p \in Paths
      PROVE  /\ disk[p].v \in 0..clock /\ disk[p].born <= disk[p].v
             /\ index[p].of \in 0..clock /\ index[p].mtime \in 0..clock
             /\ (index[p].of = 0 => index[p] = NoRow)
  BY DEF Typed, FilesTyped, RowsTyped, RowType, Note
<1>2. ASSUME NEW c \in Clients
      PROVE  /\ cl[c].pc \in {"idle", "card", "reserve", "put", "read", "stat", "row"}
             /\ cl[c].path \in Paths \cup {None}
             /\ cl[c].began <= cl[c].at /\ cl[c].at <= clock
             /\ cl[c].pc \in {"idle", "reserve"} <=> cl[c].path = None
  BY DEF Typed, CallsTyped, CallTyped, CallType
<1>3. /\ ix.pc \in {"idle", "list", "pass", "read", "row", "delete"}
      /\ ix.todo \cup woken \cup raced \subseteq Paths
  BY DEF Typed, PassTyped, PassType
<1>4. clock <= 1 + Cardinality(asked) + edits
  <2>1. /\ Cardinality(asked) \in Nat /\ Cardinality(Owing) \in Nat /\ clock \in Nat
        /\ edits \in Nat
    BY OwingIsFinite DEF Typed, Owed, FilesTyped
  <2> QED  BY <2>1 DEF Typed, Owed
<1> QED  BY <1>1, <1>2, <1>3, <1>4 DEF TypeOK

\* Every call, every row and every file has its types at every step, and no row or
\* call is younger than the clock, which ticks once for each request and edit.
THEOREM CaptureIsTyped == Spec => []TypeOK
BY InitTyped, NextTyped, TypedIsTypeOK, PTL DEF Spec

-----------------------------------------------------------------------------
(* What a request knows of the files when it writes.  It looked for its    *)
(* source, and then at the path, some steps ago; since then a file stayed  *)
(* as it was, went, or got a version younger than the look.                *)

\* the file the request writes over is the one it read, none, or a younger one
ReadLately(x, files) ==
  x.pc = "put" => \/ files[x.path] = x.old
                  \/ files[x.path].v = 0 \/ files[x.path].v > x.at

Again(f, r) == f.live /\ f.unit = r.unit /\ f.title = r.title

\* a request that makes a new note saw none of its source and title, of those it could read
SawNone(x, files) ==
  (x.pc = "reserve" \/ (x.pc = "put" /\ x.old.v = 0)) /\ x.req.unit # None =>
     \A p \in x.req.within :
       Again(files[p], x.req) => files[p].v > x.began \/ p \in x.unread

Told(x, files) == ReadLately(x, files) /\ SawNone(x, files)

Informed == \A c \in Clients : Told(cl[c], disk)

LEMMA InitInformed == Init => Informed
BY Nothing DEF Init, Informed, Told, ReadLately, SawNone

\* what a call knows stays so while files change
LEMMA StaysTold ==
  ASSUME Typed, NEW x \in CallType, CallTyped(x, clock), Told(x, disk),
         \A q \in Paths : disk'[q] = disk[q] \/ disk'[q] = NoNote \/ disk'[q].v = clock + 1
  PROVE  Told(x, disk')
<1>1. /\ clock \in Nat /\ x.at \in Nat /\ x.began \in Nat /\ x.began <= x.at /\ x.at <= clock
      /\ (x.pc = "put" => x.path \in Paths)
  BY DEF Typed, FilesTyped, CallType, CallTyped
<1>2. x.pc # "idle" => x.req.within \subseteq Paths
  BY DEF CallTyped, Request
<1>3. clock + 1 > x.at /\ clock + 1 > x.began
  BY <1>1
<1>4. \A q \in Paths : \/ disk'[q] = disk[q] \/ (disk'[q].v = 0 /\ ~disk'[q].live)
                       \/ disk'[q].v > x.at /\ disk'[q].v > x.began
  BY <1>3, Nothing
<1>5. ReadLately(x, disk')
  BY <1>1, <1>4 DEF Told, ReadLately
<1>6. SawNone(x, disk')
  <2> SUFFICES ASSUME x.pc = "reserve" \/ (x.pc = "put" /\ x.old.v = 0), x.req.unit # None,
                      NEW p \in x.req.within, Again(disk'[p], x.req)
               PROVE  disk'[p].v > x.began \/ p \in x.unread
    BY DEF SawNone
  <2>1. p \in Paths
    BY <1>2
  <2>2. CASE disk'[p] = disk[p]
    BY <2>2 DEF Told, SawNone
  <2> QED  BY <1>4, <2>1, <2>2 DEF Again
<1> QED  BY <1>5, <1>6 DEF Told

\* the files stay, and every call but that of c
LEMMA OneCallMoves ==
  ASSUME Typed, Informed, NEW c \in Clients, disk' = disk, Told(cl'[c], disk'),
         \A d \in Clients : d # c => cl'[d] = cl[d]
  PROVE  Informed'
BY DEF Informed

LEMMA BeginInformed ==
  ASSUME Typed, Informed, NEW c \in Clients, NEW r \in Asks[c], Begin(c, r) PROVE Informed'
<1>1. disk' = disk /\ cl \in [Clients -> CallType]
  BY DEF Begin, Typed, CallsTyped
<1>2. PICK x \in CallType :
        /\ cl' = [cl EXCEPT ![c] = x] /\ x.began = clock /\ x.at = clock /\ x.mtime = 0
        /\ x.req = r /\ r \in Request
        /\ \/ /\ x.pc = "card" /\ x.path = r.card /\ x.path \in Paths /\ x.old = NoNote
           \/ /\ x.pc = "put" /\ x.path \in SameSource(r, x.unread) /\ x.path \in Paths
              /\ x.old = disk[x.path]
           \/ /\ x.pc = "reserve" /\ x.path = None /\ x.old = NoNote
              /\ SameSource(r, x.unread) = {}
  BY BeginIsOneOf
<1>3. cl'[c] = x /\ \A d \in Clients : d # c => cl'[d] = cl[d]
  BY <1>1, <1>2
<1>4. ReadLately(x, disk)
  BY <1>2 DEF ReadLately
<1>5. SawNone(x, disk)
  <2>1. CASE x.pc = "reserve"
    <3> SUFFICES ASSUME r.unit # None, NEW p \in r.within, Again(disk[p], r), p \notin x.unread
                 PROVE  FALSE
      BY <1>2, <2>1 DEF SawNone
    <3>1. r.within \subseteq Paths /\ SameSource(r, x.unread) = {}
      BY <1>2, <2>1 DEF Request
    <3>2. There(p)
      BY <3>1, Nothing DEF Typed, FilesTyped, There, Again
    <3> QED  BY <3>1, <3>2 DEF SameSource, Again
  <2>2. CASE x.pc = "put"
    <3>1. x.old.v # 0
      BY <1>2, <2>2 DEF SameSource, There
    <3> QED  BY <2>2, <3>1 DEF SawNone
  <2>3. CASE x.pc = "card"
    BY <2>3 DEF SawNone
  <2> QED  BY <1>2, <2>1, <2>2, <2>3
<1>6. Told(cl'[c], disk')
  BY <1>1, <1>3, <1>4, <1>5 DEF Told
<1> QED  BY <1>1, <1>3, <1>6, OneCallMoves

LEMMA ServeInformed ==
  ASSUME Typed, Informed, NEW c \in Clients, Serve(c) \/ PutFails(c) PROVE Informed'
<1>1. /\ cl \in [Clients -> CallType] /\ cl[c] \in CallType /\ CallTyped(cl[c], clock)
      /\ Told(cl[c], disk)
  BY DEF Typed, CallsTyped, Informed
<1>2. ASSUME disk' = disk, NEW x, cl' = [cl EXCEPT ![c] = x], x.pc \notin {"put", "reserve"}
      PROVE  Informed'
  <2>1. cl'[c] = x /\ \A d \in Clients : d # c => cl'[d] = cl[d]
    BY <1>1, <1>2
  <2>2. Told(cl'[c], disk')
    BY <1>2, <2>1 DEF Told, ReadLately, SawNone
  <2> QED  BY <1>2, <2>1, <2>2, OneCallMoves
<1>3. disk' = disk /\ Return(c) => Informed'
  BY <1>2, Nothing DEF Return
<1>4. CASE ReadCard(c)
  <2>1. disk' = disk /\ cl[c].pc = "card"
    BY <1>4 DEF ReadCard
  <2>2. cl[c].path \in Paths
    BY <1>1, <2>1 DEF CallTyped, CallType
  <2>3. CASE Goes(c, "read")
    <3> DEFINE x == [cl[c] EXCEPT !.pc = "read"]
    <3>1. cl' = [cl EXCEPT ![c] = x]
      BY <1>1, <2>3 DEF Goes
    <3>2. x.pc = "read"
      BY <1>1 DEF CallType
    <3> HIDE DEF x
    <3> QED  BY <1>2, <2>1, <3>1, <3>2
  <2>4. CASE There(cl[c].path) /\ cl' = [cl EXCEPT ![c].pc = "put", ![c].old = disk[cl[c].path],
                              ![c].at = clock]
    <3> DEFINE x == [cl[c] EXCEPT !.pc = "put", !.old = disk[cl[c].path], !.at = clock]
    <3>1. cl' = [cl EXCEPT ![c] = x]
      BY <1>1, <2>4
    <3>2. x.path = cl[c].path /\ x.old = disk[cl[c].path] /\ x.pc = "put"
      BY <1>1 DEF CallType
    <3> HIDE DEF x
    <3>3. cl'[c] = x /\ \A d \in Clients : d # c => cl'[d] = cl[d]
      BY <1>1, <3>1
    <3>4. Told(x, disk)
      BY <2>4, <3>2 DEF Told, ReadLately, SawNone, There
    <3> QED  BY <2>1, <3>3, <3>4, OneCallMoves
  <2> QED  BY <1>3, <1>4, <2>1, <2>3, <2>4 DEF ReadCard
<1>5. CASE Reserve(c)
  <2>1. disk' = disk /\ cl[c].pc = "reserve"
    BY <1>5 DEF Reserve
  <2>2. CASE FreeNames(cl[c].req) # {}
    <3>1. PICK i \in FreeNames(cl[c].req) :
            cl' = [cl EXCEPT ![c].pc = "put", ![c].path = cl[c].req.names[i],
                    ![c].at = clock]
      BY <1>5, <2>2 DEF Reserve
    <3> DEFINE p == cl[c].req.names[i]
               x == [cl[c] EXCEPT !.pc = "put", !.path = p, !.at = clock]
    <3>2. cl' = [cl EXCEPT ![c] = x] /\ disk[p].v = 0
      BY <1>1, <3>1 DEF FreeNames, There
    <3> HIDE DEF p
    <3>3. /\ x.pc = "put" /\ x.path = p /\ x.old = cl[c].old /\ x.req = cl[c].req
          /\ x.began = cl[c].began /\ x.unread = cl[c].unread
      BY <1>1 DEF CallType
    <3> HIDE DEF x
    <3>4. cl'[c] = x /\ \A d \in Clients : d # c => cl'[d] = cl[d]
      BY <1>1, <3>2
    <3>5. ReadLately(x, disk)
      BY <3>2, <3>3 DEF ReadLately
    <3>6. SawNone(x, disk)
      BY <1>1, <2>1, <3>3 DEF Told, SawNone
    <3> QED  BY <2>1, <3>4, <3>5, <3>6, OneCallMoves DEF Told
  <2> QED  BY <1>3, <1>5, <2>1, <2>2 DEF Reserve
<1>6. CASE Put(c)
  <2> DEFINE p == cl[c].path
  <2>1. WriteAtomic(p, Text(c)) /\ cl[c].pc = "put"
    BY <1>6 DEF Put
  <2>2. Text(c) \in Note /\ Text(c).born <= clock + 1 /\ p \in Paths
    BY <2>1, TextTyped
  <2>3. \A q \in Paths : disk'[q] = disk[q] \/ disk'[q].v = clock + 1
    BY <2>1, <2>2, FilesWritten
  <2>4. PICK x : cl' = [cl EXCEPT ![c] = x] /\ x.pc \in {"read", "stat"}
    BY <1>6, PutGoesOn
  <2>5. cl'[c] = x /\ \A d \in Clients : d # c => cl'[d] = cl[d]
    BY <1>1, <2>4
  <2>6. Told(x, disk')
    BY <2>4 DEF Told, ReadLately, SawNone
  <2>7. ASSUME NEW d \in Clients, d # c PROVE Told(cl'[d], disk')
    <3>1. cl[d] \in CallType /\ CallTyped(cl[d], clock) /\ Told(cl[d], disk)
      BY DEF Typed, CallsTyped, Informed
    <3>2. Told(cl[d], disk')
      BY <2>3, <3>1, StaysTold
    <3> QED  BY <2>5, <2>7, <3>2
  <2> QED  BY <2>5, <2>6, <2>7 DEF Informed
<1>7. CASE Reread(c)
  <2>1. disk' = disk
    BY <1>7 DEF Reread
  <2>2. CASE ~Return(c)
    <3> DEFINE x == [cl[c] EXCEPT !.pc = "stat", !.text = TextAt(cl[c].path)]
    <3>1. cl' = [cl EXCEPT ![c] = x]
      BY <1>1, <1>7, <2>2 DEF Reread
    <3>2. x.pc = "stat"
      BY <1>1 DEF CallType
    <3> HIDE DEF x
    <3> QED  BY <1>2, <2>1, <3>1, <3>2
  <2> QED  BY <1>3, <2>1, <2>2
<1>8. CASE Stat(c)
  <2>1. disk' = disk
    BY <1>8 DEF Stat
  <2>2. CASE ~Return(c)
    <3> DEFINE x == [cl[c] EXCEPT !.pc = "row", !.mtime = disk[cl[c].path].v]
    <3>1. cl' = [cl EXCEPT ![c] = x]
      BY <1>1, <1>8, <2>2 DEF Stat
    <3>2. x.pc = "row"
      BY <1>1 DEF CallType
    <3> HIDE DEF x
    <3> QED  BY <1>2, <2>1, <3>1, <3>2
  <2> QED  BY <1>3, <2>1, <2>2
<1>9. CASE Row(c) \/ PutFails(c)
  BY <1>3, <1>9 DEF Row, PutFails
<1> QED  BY <1>4, <1>5, <1>6, <1>7, <1>8, <1>9 DEF Serve

LEMMA NextInformed == Typed /\ Informed /\ [Next]_vars => Informed'
<1> SUFFICES ASSUME Typed, Informed, [Next]_vars PROVE Informed'
  OBVIOUS
<1>1. ASSUME NEW c \in Clients, NEW r \in Asks[c], Begin(c, r) PROVE Informed'
  BY <1>1, BeginInformed
<1>2. ASSUME NEW c \in Clients, Serve(c) \/ PutFails(c) PROVE Informed'
  BY <1>2, ServeInformed
<1>3. disk' = disk /\ cl' = cl => Informed'
  BY DEF Informed
<1>4. CASE Watch
  BY <1>3, <1>4 DEF Watch, Flush, Tick, List, Visit, DeleteVanished, ReadFile, UpsertFile,
                    SweepRow, EndPass
<1>5. ASSUME NEW p \in Paths, Unreadable(p) \/ Lost(p) PROVE Informed'
  BY <1>3, <1>5 DEF Unreadable, Lost
<1>6. ASSUME NEW p \in Touched, Edit(p) \/ Arrive(p) \/ Remove(p) PROVE Informed'
  <2>1. p \in Paths /\ cl' = cl
    BY <1>6, CaptureAssumption DEF Edit, Arrive, Remove, Changes
  <2>2. \A q \in Paths : disk'[q] = disk[q] \/ disk'[q] = NoNote \/ disk'[q].v = clock + 1
    BY <1>6, <2>1, FileChanged
  <2>3. ASSUME NEW d \in Clients PROVE Told(cl[d], disk')
    <3>1. cl[d] \in CallType /\ CallTyped(cl[d], clock) /\ Told(cl[d], disk)
      BY DEF Typed, CallsTyped, Informed
    <3> QED  BY <2>2, <3>1, StaysTold
  <2> QED  BY <2>1, <2>3 DEF Informed
<1>7. CASE Kill
  <2>1. \A d \in Clients : cl'[d].pc = "idle"
    BY <1>7, Nothing DEF Kill
  <2> QED  BY <2>1 DEF Informed, Told, ReadLately, SawNone
<1>8. CASE UNCHANGED vars
  BY <1>3, <1>8 DEF vars
<1> QED  BY <1>1, <1>2, <1>4, <1>5, <1>6, <1>7, <1>8 DEF Next

-----------------------------------------------------------------------------
\* capture.go:578-580, samesource.go:9-13: whatever the clients, the sync client and
\* the operator write in between, a capture replaces the note it has read and keeps
\* its `created`, importance and words, or a file younger than its last look at the path.
THEOREM NothingUnreadIsReplaced == Spec => ReplacesWhatItRead
<1> DEFINE Kept(c) ==
      LET was == disk[cl[c].path]  is == disk'[cl[c].path] IN
      \/ was.v \in {0} \cup (cl[c].at + 1)..clock
      \/ was = cl[c].old /\ is.born = was.born /\ is.mine = was.mine
         /\ (cl[c].path = cl[c].req.card => was.words \subseteq is.words)
<1>1. ASSUME Typed, Informed, NEW c \in Clients, Put(c) PROVE Kept(c)
  <2> DEFINE p == cl[c].path  was == disk[p]  old == cl[c].old
  <2>1. WriteAtomic(p, Text(c)) /\ cl[c].pc = "put"
    BY <1>1 DEF Put
  <2>2. Text(c) \in Note /\ Text(c).born <= clock + 1 /\ p \in Paths
    BY <1>1, <2>1, TextTyped
  <2>3. disk'[p] = [Text(c) EXCEPT !.v = clock + 1]
    BY <1>1, <2>1, <2>2, FilesWritten
  <2>4. disk'[p].born = Text(c).born /\ disk'[p].mine = Text(c).mine
        /\ disk'[p].words = Text(c).words
    BY <2>2, <2>3 DEF Note
  <2>5. /\ clock \in Nat /\ cl[c] \in CallType /\ old \in Note /\ was \in Note /\ was.v <= clock
        /\ (was = old \/ was.v = 0 \/ was.v > cl[c].at)
    BY <1>1, <2>1, <2>2 DEF Typed, FilesTyped, CallsTyped, CallType, Informed, Told, ReadLately
  <2>6. CASE was = old /\ was.v # 0
    <3>1. CASE p = cl[c].req.card
      <4>1. Text(c) = [old EXCEPT !.words = @ \cup {cl[c].req.text}]
        BY <3>1 DEF Text
      <4>2. Text(c).born = old.born /\ Text(c).mine = old.mine /\ old.words \subseteq Text(c).words
        BY <2>5, <4>1 DEF Note
      <4> QED  BY <2>4, <2>6, <4>2
    <3>2. CASE p # cl[c].req.card
      <4>1. Text(c).born = old.born /\ Text(c).mine = old.mine
        BY <2>6, <3>2 DEF Text, NoNote
      <4> QED  BY <2>4, <2>6, <3>2, <4>1
    <3> QED  BY <3>1, <3>2
  <2>7. CASE was.v = 0
    BY <2>7
  <2>8. CASE was.v > cl[c].at
    <3>1. was.v \in Nat /\ cl[c].at \in Nat
      BY <2>5 DEF Note, CallType
    <3>2. was.v \in (cl[c].at + 1)..clock
      BY <2>5, <2>8, <3>1
    <3> QED  BY <3>2
  <2> QED  BY <2>5, <2>6, <2>7, <2>8
<1>2. Typed /\ Informed /\ [Next]_vars => [\A c \in Clients : Put(c) => Kept(c)]_vars
  BY <1>1
<1> QED
  BY <1>2, InitTyped, NextTyped, InitInformed, NextInformed, PTL DEF Spec, ReplacesWhatItRead

\* agentm-vault.md:196: whatever comes between its look and its write, a capture makes
\* a second note of a source and title only beside one younger than the look, or one
\* whose read failed when it looked (samesource.go:103-105 and 112-114).
THEOREM SecondNotesAreUnseen == Spec => OneNotePerSource
<1> DEFINE Younger(c) ==
      \A p \in cl[c].req.within \ {cl[c].path} :
        disk[p].live /\ disk[p].unit = cl[c].req.unit /\ disk[p].title = cl[c].req.title
          => disk[p].v > cl[c].began \/ p \in cl[c].unread
<1>1. ASSUME Typed, Informed, NEW c \in Clients, Put(c), cl[c].old.v = 0, cl[c].req.unit # None
      PROVE  Younger(c)
  <2>1. SawNone(cl[c], disk) /\ cl[c].pc = "put"
    BY <1>1 DEF Informed, Told, Put
  <2> QED  BY <1>1, <2>1 DEF SawNone, Again
<1>2. Typed /\ Informed /\ [Next]_vars =>
        [\A c \in Clients : Put(c) /\ cl[c].old.v = 0 /\ cl[c].req.unit # None => Younger(c)]_vars
  BY <1>1
<1> QED
  BY <1>2, InitTyped, NextTyped, InitInformed, NextInformed, PTL DEF Spec, OneNotePerSource
-----------------------------------------------------------------------------
(* A pass skips a file whose row was filed under the mtime the file has.   *)
(* A row whose text is another version's is filed under an mtime that no   *)
(* file has again, or its path is among the raced ones.                    *)

\* a row filed under the mtime of the file at p holds its text
Fits(of, mtime, p, files, races) == mtime = files[p].v => mtime = 0 \/ of = mtime \/ p \in races

RowsFit(rows, files, races) == \A p \in Paths : Fits(rows[p].of, rows[p].mtime, p, files, races)

\* the row that a call, or the pass, is about to file
HeldFits(x, files, races) == x.pc = "row" => Fits(x.text.of, x.mtime, x.path, files, races)

CallsFit(calls, files, races) == \A c \in Clients : HeldFits(calls[c], files, races)

Filed == RowsFit(index, disk, raced) /\ CallsFit(cl, disk, raced) /\ HeldFits(ix, disk, raced)

LEMMA InitFiled == Init => Filed
<1> SUFFICES ASSUME Init PROVE Filed
  OBVIOUS
<1>1. RowsFit(index, disk, raced)
  BY DEF Init, RowsFit, Fits
<1>2. CallsFit(cl, disk, raced) /\ HeldFits(ix, disk, raced)
  BY Nothing DEF Init, CallsFit, HeldFits
<1> QED  BY <1>1, <1>2 DEF Filed

\* what happens to a file: nothing, and it stays raced; it goes; or it gets a new version
Aged == \A p \in Paths : \/ disk'[p] = disk[p] /\ (p \in raced => p \in raced')
                         \/ disk'[p].v = 0 \/ disk'[p].v = clock + 1

LEMMA NextAges == Typed /\ [Next]_vars => Aged
<1> SUFFICES ASSUME Typed, [Next]_vars PROVE Aged
  OBVIOUS
<1>1. ASSUME NEW p \in Paths, NEW n \in Note, n.born <= clock + 1, WriteAtomic(p, n) PROVE Aged
  <2>1. /\ disk'[p].v = clock + 1 /\ raced' = raced \ {p}
        /\ \A q \in Paths : q # p => disk'[q] = disk[q]
    BY <1>1, FilesWritten DEF WriteAtomic
  <2> QED  BY <2>1 DEF Aged
<1>2. disk' = disk /\ raced \subseteq raced' => Aged
  BY DEF Aged
<1>3. ASSUME NEW c \in Clients, NEW r \in Asks[c], Begin(c, r) PROVE Aged
  BY <1>2, <1>3 DEF Begin
<1>4. ASSUME NEW c \in Clients, Serve(c) \/ PutFails(c) PROVE Aged
  <2>1. CASE Put(c)
    BY <1>1, <2>1, TextTyped DEF Put
  <2>2. CASE Stat(c)
    BY <1>2, <2>2 DEF Stat
  <2>3. CASE ReadCard(c) \/ Reserve(c) \/ Reread(c) \/ Row(c) \/ PutFails(c)
    BY <1>2, <2>3 DEF ReadCard, Reserve, Reread, Row, PutFails
  <2> QED  BY <1>4, <2>1, <2>2, <2>3 DEF Serve
<1>5. CASE Watch
  BY <1>2, <1>5 DEF Watch, Flush, Tick, List, Visit, DeleteVanished, ReadFile, UpsertFile,
                    SweepRow, EndPass
<1>6. ASSUME NEW p \in Paths, Unreadable(p) \/ Lost(p) PROVE Aged
  BY <1>2, <1>6 DEF Unreadable, Lost
<1>7. ASSUME NEW p \in Touched, Edit(p) \/ Arrive(p) \/ Remove(p) PROVE Aged
  <2>1. p \in Paths /\ disk \in [Paths -> Note]
    BY CaptureAssumption DEF Typed, FilesTyped
  <2>2. /\ disk'[p].v \in {0, clock + 1}
        /\ \A q \in Paths : disk'[q] = disk[q] \/ disk'[q].v = 0 \/ disk'[q].v = clock + 1
    BY <1>7, <2>1, FileChanged, Nothing
  <2>3. raced' = raced \ {p}
    BY <1>7 DEF Edit, Arrive, Remove, WriteAtomic
  <2> QED  BY <2>2, <2>3 DEF Aged
<1>8. CASE Kill
  BY <1>2, <1>8 DEF Kill
<1>9. CASE UNCHANGED vars
  BY <1>2, <1>9 DEF vars
<1> QED  BY <1>3, <1>4, <1>5, <1>6, <1>7, <1>8, <1>9 DEF Next

LEMMA FitsStays ==
  ASSUME Typed, Aged, NEW of, NEW m \in Nat, m <= clock, NEW p \in Paths,
         Fits(of, m, p, disk, raced)
  PROVE  Fits(of, m, p, disk', raced')
<1>1. clock \in Nat
  BY DEF Typed, FilesTyped
<1> QED  BY <1>1 DEF Aged, Fits

\* the rows there are and those about to be filed fit the files of the next state
LEMMA StayFiled ==
  ASSUME Typed, Filed, Aged
  PROVE  RowsFit(index, disk', raced') /\ CallsFit(cl, disk', raced') /\ HeldFits(ix, disk', raced')
<1>1. RowsFit(index, disk', raced')
  <2> SUFFICES ASSUME NEW p \in Paths
               PROVE  Fits(index[p].of, index[p].mtime, p, disk', raced')
    BY DEF RowsFit
  <2>1. index[p].mtime \in Nat /\ index[p].mtime <= clock
    BY DEF Typed, RowsTyped, RowType
  <2>2. Fits(index[p].of, index[p].mtime, p, disk, raced)
    BY DEF Filed, RowsFit
  <2> QED  BY <2>1, <2>2, FitsStays
<1>2. CallsFit(cl, disk', raced')
  <2> SUFFICES ASSUME NEW c \in Clients, cl[c].pc = "row"
               PROVE  Fits(cl[c].text.of, cl[c].mtime, cl[c].path, disk', raced')
    BY DEF CallsFit, HeldFits
  <2>1. cl[c].mtime \in Nat /\ cl[c].mtime <= clock /\ cl[c].path \in Paths
    BY DEF Typed, CallsTyped, CallType, CallTyped
  <2>2. Fits(cl[c].text.of, cl[c].mtime, cl[c].path, disk, raced)
    BY DEF Filed, CallsFit, HeldFits
  <2> QED  BY <2>1, <2>2, FitsStays
<1>3. HeldFits(ix, disk', raced')
  <2> SUFFICES ASSUME ix.pc = "row" PROVE Fits(ix.text.of, ix.mtime, ix.path, disk', raced')
    BY DEF HeldFits
  <2>1. ix.mtime \in Nat /\ ix.mtime <= clock /\ ix.path \in Paths
    BY DEF Typed, PassTyped, PassType
  <2>2. Fits(ix.text.of, ix.mtime, ix.path, disk, raced)
    BY DEF Filed, HeldFits
  <2> QED  BY <2>1, <2>2, FitsStays
<1> QED  BY <1>1, <1>2, <1>3

\* a row comes from what was held for it, or goes
LEMMA RowsStayFit ==
  ASSUME Typed, Filed, Aged, [Next]_vars PROVE RowsFit(index', disk', raced')
<1>1. index' = index => RowsFit(index', disk', raced')
  BY StayFiled
<1>2. ASSUME NEW p \in Paths, NEW text \in RowType, NEW m \in Nat, Upsert(p, text, m),
             Fits(text.of, m, p, disk', raced')
      PROVE  RowsFit(index', disk', raced')
  <2>1. index' = [index EXCEPT ![p] = [text EXCEPT !.mtime = m]] /\ index \in [Paths -> RowType]
    BY <1>2 DEF Upsert, Typed, RowsTyped
  <2>2. index'[p].of = text.of /\ index'[p].mtime = m
    BY <2>1 DEF RowType
  <2>3. \A q \in Paths : q # p => index'[q] = index[q]
    BY <2>1
  <2> QED  BY <1>2, <2>2, <2>3, StayFiled DEF RowsFit
<1>3. ASSUME NEW p \in Paths, DeleteRow(p) PROVE RowsFit(index', disk', raced')
  <2>1. index'[p] = NoRow /\ \A q \in Paths : q # p => index'[q] = index[q]
    BY <1>3 DEF DeleteRow, Typed, RowsTyped
  <2>2. Fits(index'[p].of, index'[p].mtime, p, disk', raced')
    BY <2>1, Nothing DEF Fits
  <2> QED  BY <2>1, <2>2, StayFiled DEF RowsFit
<1>4. ASSUME NEW c \in Clients, Row(c) PROVE RowsFit(index', disk', raced')
  <2>1. /\ cl[c].pc = "row" /\ cl[c].path \in Paths /\ cl[c].text \in RowType /\ cl[c].mtime \in Nat
    BY <1>4 DEF Row, Typed, CallsTyped, CallType, CallTyped
  <2>2. Fits(cl[c].text.of, cl[c].mtime, cl[c].path, disk', raced')
    BY <2>1, StayFiled DEF CallsFit, HeldFits
  <2> QED  BY <1>1, <1>2, <1>4, <2>1, <2>2 DEF Row
<1>5. CASE UpsertFile
  <2>1. ix.pc = "row" /\ ix.path \in Paths /\ ix.text \in RowType /\ ix.mtime \in Nat
    BY <1>5 DEF UpsertFile, Typed, PassTyped, PassType
  <2>2. Fits(ix.text.of, ix.mtime, ix.path, disk', raced')
    BY <2>1, StayFiled DEF HeldFits
  <2> QED  BY <1>1, <1>2, <1>5, <2>1, <2>2 DEF UpsertFile
<1>6. CASE DeleteVanished
  BY <1>3, <1>6 DEF DeleteVanished, Typed, PassTyped
<1>7. ASSUME NEW p \in Paths, SweepRow(p) PROVE RowsFit(index', disk', raced')
  BY <1>3, <1>7 DEF SweepRow
<1>8. ASSUME NEW c \in Clients, NEW r \in Asks[c], Begin(c, r) PROVE index' = index
  BY <1>8 DEF Begin
<1>9. ASSUME NEW c \in Clients,
             ReadCard(c) \/ Reserve(c) \/ Put(c) \/ PutFails(c) \/ Reread(c) \/ Stat(c)
      PROVE  index' = index
  BY <1>9 DEF ReadCard, Reserve, Put, PutFails, Reread, Stat
<1>10. ASSUME NEW p \in Paths, Visit(p) \/ Unreadable(p) \/ Lost(p) PROVE index' = index
  BY <1>10 DEF Visit, Unreadable, Lost
<1>11. CASE Flush \/ Tick \/ List \/ ReadFile \/ EndPass \/ Kill \/ UNCHANGED vars
  BY <1>1, <1>11 DEF Flush, Tick, List, ReadFile, EndPass, Kill, vars
<1>12. ASSUME NEW p \in Touched, Edit(p) \/ Arrive(p) \/ Remove(p) PROVE index' = index
  BY <1>12 DEF Edit, Arrive, Remove, Changes
<1> QED
  BY <1>1, <1>4, <1>5, <1>6, <1>7, <1>8, <1>9, <1>10, <1>11, <1>12 DEF Next, Serve, Watch

\* a call files under the mtime of its own text, or makes the path a raced one
LEMMA StatFits ==
  ASSUME Typed, NEW c \in Clients, Stat(c) PROVE HeldFits(cl'[c], disk', raced')
<1> DEFINE p == cl[c].path  now == disk[p].v
<1>1. disk' = disk /\ cl[c] \in CallType /\ cl \in [Clients -> CallType]
  BY DEF Stat, Typed, CallsTyped
<1>2. CASE cl' = [cl EXCEPT ![c] = NoCall]
  BY <1>1, <1>2, Nothing DEF HeldFits
<1>3. CASE cl' = [cl EXCEPT ![c].pc = "row", ![c].mtime = now]
  <2>1. cl'[c].path = p /\ cl'[c].text = cl[c].text /\ cl'[c].mtime = now
    BY <1>1, <1>3 DEF CallType
  <2>2. now = 0 \/ now = cl[c].text.of \/ p \in raced'
    BY DEF Stat
  <2> QED  BY <1>1, <2>1, <2>2 DEF HeldFits, Fits
<1> QED  BY <1>2, <1>3 DEF Stat, Return

LEMMA CallsStayFit ==
  ASSUME Typed, Filed, Aged, [Next]_vars PROVE CallsFit(cl', disk', raced')
<1>1. cl' = cl => CallsFit(cl', disk', raced')
  BY StayFiled
<1>2. ASSUME NEW c \in Clients, NEW x, cl' = [cl EXCEPT ![c] = x], HeldFits(x, disk', raced')
      PROVE  CallsFit(cl', disk', raced')
  <2>1. cl'[c] = x /\ \A d \in Clients : d # c => cl'[d] = cl[d]
    BY <1>2 DEF Typed, CallsTyped
  <2> QED  BY <1>2, <2>1, StayFiled DEF CallsFit
<1>3. ASSUME NEW c \in Clients, NEW x, cl' = [cl EXCEPT ![c] = x], x.pc # "row"
      PROVE  CallsFit(cl', disk', raced')
  BY <1>2, <1>3 DEF HeldFits
<1>4. ASSUME NEW c \in Clients, Return(c) PROVE CallsFit(cl', disk', raced')
  BY <1>3, <1>4, Nothing DEF Return
<1>5. ASSUME NEW c \in Clients, NEW r \in Asks[c], Begin(c, r) PROVE CallsFit(cl', disk', raced')
  BY <1>3, <1>5, BeginIsOneOf
<1>6. ASSUME NEW c \in Clients, ReadCard(c) PROVE CallsFit(cl', disk', raced')
  <2>1. cl[c] \in CallType
    BY DEF Typed, CallsTyped
  <2>2. CASE Goes(c, "read")
    <3>1. [cl[c] EXCEPT !.pc = "read"].pc # "row"
      BY <2>1 DEF CallType
    <3> QED  BY <1>3, <2>2, <3>1 DEF Goes
  <2>3. CASE cl' = [cl EXCEPT ![c].pc = "put", ![c].old = disk[cl[c].path],
                              ![c].at = clock]
    <3> DEFINE x == [cl[c] EXCEPT !.pc = "put", !.old = disk[cl[c].path], !.at = clock]
    <3>1. cl' = [cl EXCEPT ![c] = x]
      BY <2>3 DEF Typed, CallsTyped
    <3>2. x.pc # "row"
      BY <2>1 DEF CallType
    <3> HIDE DEF x
    <3> QED  BY <1>3, <3>1, <3>2
  <2> QED  BY <1>4, <1>6, <2>2, <2>3 DEF ReadCard
<1>7. ASSUME NEW c \in Clients, Reserve(c) PROVE CallsFit(cl', disk', raced')
  <2>1. ASSUME NEW p, cl' = [cl EXCEPT ![c].pc = "put", ![c].path = p, ![c].at = clock]
        PROVE  CallsFit(cl', disk', raced')
    <3>1. [cl[c] EXCEPT !.pc = "put", !.path = p, !.at = clock].pc # "row"
      BY DEF Typed, CallsTyped, CallType
    <3> QED  BY <1>3, <2>1, <3>1
  <2> QED  BY <1>4, <1>7, <2>1 DEF Reserve
<1>8. ASSUME NEW c \in Clients, Put(c) PROVE CallsFit(cl', disk', raced')
  BY <1>3, <1>8, PutGoesOn
<1>9. ASSUME NEW c \in Clients, Reread(c) PROVE CallsFit(cl', disk', raced')
  <2>1. CASE cl' = [cl EXCEPT ![c].pc = "stat", ![c].text = TextAt(cl[c].path)]
    <3>1. [cl[c] EXCEPT !.pc = "stat", !.text = TextAt(cl[c].path)].pc # "row"
      BY DEF Typed, CallsTyped, CallType
    <3> QED  BY <1>3, <2>1, <3>1
  <2> QED  BY <1>4, <1>9, <2>1 DEF Reread
<1>10. ASSUME NEW c \in Clients, Stat(c) PROVE CallsFit(cl', disk', raced')
  <2>1. \A d \in Clients : d # c => cl'[d] = cl[d]
    BY <1>10 DEF Stat, Return, Typed, CallsTyped
  <2> QED  BY <1>10, <2>1, StatFits, StayFiled DEF CallsFit
<1>11. ASSUME NEW c \in Clients, Row(c) \/ PutFails(c) PROVE CallsFit(cl', disk', raced')
  BY <1>4, <1>11 DEF Row, PutFails
<1>12. CASE Watch
  BY <1>1, <1>12 DEF Watch, Flush, Tick, List, Visit, DeleteVanished, ReadFile, UpsertFile,
                     SweepRow, EndPass
<1>13. ASSUME NEW p \in Paths, Unreadable(p) \/ Lost(p) PROVE cl' = cl
  BY <1>13 DEF Unreadable, Lost
<1>14. ASSUME NEW p \in Touched, Edit(p) \/ Arrive(p) \/ Remove(p) PROVE cl' = cl
  BY <1>14 DEF Edit, Arrive, Remove, Changes
<1>15. CASE Kill
  <2>1. \A d \in Clients : cl'[d].pc = "idle"
    BY <1>15, Nothing DEF Kill
  <2> QED  BY <2>1 DEF CallsFit, HeldFits
<1>16. CASE UNCHANGED vars
  BY <1>1, <1>16 DEF vars
<1> QED
  BY <1>1, <1>5, <1>6, <1>7, <1>8, <1>9, <1>10, <1>11, <1>12, <1>13, <1>14, <1>15, <1>16
     DEF Next, Serve

LEMMA PassStaysFit ==
  ASSUME Typed, Filed, Aged, [Next]_vars PROVE HeldFits(ix', disk', raced')
<1>1. ix' = ix => HeldFits(ix', disk', raced')
  BY StayFiled
<1>2. ix'.pc # "row" => HeldFits(ix', disk', raced')
  BY DEF HeldFits
<1>3. ix \in PassType
  BY DEF Typed, PassTyped
<1>4. CASE Flush \/ Tick \/ List \/ EndPass \/ Kill
  BY <1>2, <1>3, <1>4, Nothing DEF Flush, Tick, List, EndPass, Kill, NoPass, PassType
<1>5. Resume.pc = "pass"
  BY <1>3 DEF Resume, PassType
<1>6. CASE ReadFile
  <2>1. CASE ix' = [ix EXCEPT !.pc = "row", !.text = TextAt(ix.path)]
    <3>1. TextAt(ix.path).of = disk[ix.path].v /\ disk' = disk
      BY <1>6 DEF ReadFile, TextAt
    <3>2. ix'.path = ix.path /\ ix'.mtime = ix.mtime /\ ix'.text = TextAt(ix.path)
      BY <1>3, <2>1 DEF PassType
    <3> QED  BY <3>1, <3>2 DEF HeldFits, Fits
  <2> QED  BY <1>2, <1>5, <1>6, <2>1 DEF ReadFile
<1>7. CASE UpsertFile \/ DeleteVanished
  BY <1>2, <1>5, <1>7 DEF UpsertFile, DeleteVanished
<1>8. ASSUME NEW p \in Paths, Visit(p) PROVE HeldFits(ix', disk', raced')
  <2> DEFINE seen == [ix EXCEPT !.todo = @ \ {p}, !.known = {k \in @ : k[1] # p}]
  <2>1. seen \in PassType /\ seen.pc = "pass"
    BY <1>3, <1>8 DEF Visit, PassType
  <2>2. \/ ix' = seen
        \/ ix' = [seen EXCEPT !.pc = "read", !.path = p, !.mtime = disk[p].v]
        \/ ix' = [seen EXCEPT !.pc = "delete", !.path = p]
    BY <1>8 DEF Visit
  <2> HIDE DEF seen
  <2>3. ix'.pc # "row"
    BY <2>1, <2>2 DEF PassType
  <2> QED  BY <1>2, <2>3
<1>9. ASSUME NEW p \in Paths, Unreadable(p) \/ SweepRow(p) PROVE HeldFits(ix', disk', raced')
  BY <1>2, <1>3, <1>9 DEF Unreadable, SweepRow, PassType
<1>10. ASSUME NEW p \in Paths, Lost(p) PROVE ix' = ix
  BY <1>10 DEF Lost
<1>11. ASSUME NEW p \in Touched, Edit(p) \/ Arrive(p) \/ Remove(p) PROVE ix' = ix
  BY <1>11 DEF Edit, Arrive, Remove, Changes
<1>12. ASSUME NEW c \in Clients, Serve(c) \/ PutFails(c) PROVE ix' = ix
  BY <1>12 DEF Serve, PutFails, ReadCard, Reserve, Put, Reread, Stat, Row
<1>13. ASSUME NEW c \in Clients, NEW r \in Asks[c], Begin(c, r) PROVE ix' = ix
  BY <1>13 DEF Begin
<1>14. UNCHANGED vars => ix' = ix
  BY DEF vars
<1> QED
  BY <1>1, <1>4, <1>6, <1>7, <1>8, <1>9, <1>10, <1>11, <1>12, <1>13, <1>14 DEF Next, Watch

LEMMA NextFiled == Typed /\ Filed /\ [Next]_vars => Filed'
<1> SUFFICES ASSUME Typed, Filed, [Next]_vars PROVE Filed'
  OBVIOUS
<1>1. RowsFit(index', disk', raced') /\ CallsFit(cl', disk', raced') /\ HeldFits(ix', disk', raced')
  BY NextAges, RowsStayFit, CallsStayFit, PassStaysFit
<1> QED  BY <1>1 DEF Filed, RowsFit, CallsFit, HeldFits, Fits

\* index.go:649: the file a pass skips has its own text in its row
SkippedIsCurrent ==
  \A p \in Paths \ raced : There(p) /\ index[p].mtime = disk[p].v => index[p].of = disk[p].v

\* index.go:649: whatever captures, passes, edits, failing calls and kills come between a
\* stat, a read and an upsert, a pass never skips a file whose row holds another text,
\* but for a file that changed between a capture's write and its stat.
THEOREM SkippedFilesAreCurrent == Spec => []SkippedIsCurrent
<1>1. Typed /\ Filed => SkippedIsCurrent
  BY DEF Filed, RowsFit, Fits, SkippedIsCurrent, There
<1> QED  BY <1>1, InitTyped, NextTyped, InitFiled, NextFiled, PTL DEF Spec
=============================================================================
