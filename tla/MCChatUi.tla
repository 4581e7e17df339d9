------------------------------ MODULE MCChatUi ------------------------------
(* ChatUi for TLC. *)
EXTENDS ChatUi

CONSTANTS a, b, g

MCEvents == Messages \cup OtherEvents
MCSortKey == [c \in Convs |-> IF c = a THEN 1 ELSE IF c = b THEN 2 ELSE 3]
=============================================================================
