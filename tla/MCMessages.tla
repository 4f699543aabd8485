----------------------------- MODULE MCMessages -----------------------------
(* Messages for TLC: a message and a reply to it.                           *)
EXTENDS Messages

CONSTANTS c1, m1, m2

MCMessages == {m1, m2}

MCContents == {Blank, [text |-> "t", link |-> FALSE], [text |-> NoText, link |-> TRUE]}

MCStates == [content : MCContents, author : {"member", "user"}]

MCParent == [m \in MCMessages |-> IF m = m2 THEN m1 ELSE Null]
=============================================================================
