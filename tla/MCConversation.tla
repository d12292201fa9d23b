--------------------------- MODULE MCConversation ---------------------------
(***************************************************************************)
(* Instances of Conversation for TLC.                                      *)
(***************************************************************************)
EXTENDS Conversation

CONSTANTS w1, t1, r1, k1, p1, q1
NoMessages == {}
OneWalk == {w1}
OneThread == {t1}
OneRelay == {r1}
OneRekey == {k1}
OnePing == {p1}
OneQuery == {q1}
=============================================================================
