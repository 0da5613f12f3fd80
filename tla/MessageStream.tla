---------------------------- MODULE MessageStream ----------------------------
(***************************************************************************)
(* What a connection promises the content: the messages the peer sent,     *)
(* each once and in the order sent, as far as the connection lives.  One   *)
(* that a packet holds comes whole, a longer one comes as a packet with    *)
(* nothing in it.                                                          *)
(***************************************************************************)
EXTENDS Naturals, SequencesExt

CONSTANT Longest    \* bytes of payload a packet holds besides the header

VARIABLES sent, received

Init == sent = << >> /\ received = << >>

Send == IsStrictPrefix(sent, sent') /\ UNCHANGED received

Given(message) == IF Len(message) <= Longest THEN message ELSE << >>

Receive == /\ Len(received) < Len(sent)
           /\ received' = Append(received, Given(sent[Len(received) + 1]))
           /\ UNCHANGED sent

Spec == Init /\ [][Send \/ Receive]_<<sent, received>>
=============================================================================
