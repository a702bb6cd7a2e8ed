------------------------------ MODULE MCCapture ------------------------------
(* Capture as TLC checks it: one page captured twice under one title, which *)
(* a note beside it may hold already, and an idea with a card.             *)
EXTENDS Capture

File(u, t, x) == [v |-> 1, born |-> 0, unit |-> u, title |-> t, live |-> TRUE, mine |-> 0, words |-> {x}]
Ask(u, x, k, names) == [unit |-> u, title |-> "t", text |-> x, card |-> k, within |-> {1, 2}, names |-> names]

PathsOf == 1..3
Page == Ask("page", "text", None, <<1, 2>>)
Idea == Ask(None, "idea", 3, <<1>>)
AsksOf == <<{Page}, {Page, Idea}>>
EarlyOf == [p \in PathsOf |-> IF p = 3 THEN File(None, "card", "own") ELSE NoNote]
=============================================================================
