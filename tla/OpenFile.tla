------------------------------ MODULE OpenFile ------------------------------
(***************************************************************************)
(* What a stdio stream promises: the file behind it is read and written at *)
(* one position, as if there were no buffer; moved is what the last step   *)
(* moved between the program and the file.  After an output error nothing  *)
(* more is promised.                                                       *)
(***************************************************************************)
EXTENDS Integers, Sequences

CONSTANT Byte

VARIABLES content, position, moved, broken

vars == <<content, position, moved, broken>>

\* Sequence s with the bytes bs written at position p of it.
Overlay(s, p, bs) ==
    SubSeq(s, 1, p) \o bs \o SubSeq(s, p + Len(bs) + 1, Len(s))

Init == position = 0 /\ moved = <<>> /\ broken = FALSE /\ content \in Seq(Byte)

Write  == /\ content' = Overlay(content, position, moved')
          /\ position' = position + Len(moved')

Read   == /\ position' \in position..Len(content)
          /\ moved' = SubSeq(content, position + 1, position')
          /\ UNCHANGED content

Unread == /\ position > 0 /\ position' = position - 1
          /\ UNCHANGED <<content, moved>>

Seek   == /\ position' \in 0..Len(content)
          /\ UNCHANGED <<content, moved>>

Next == broken' \/ (~broken /\ ~broken' /\ (Write \/ Read \/ Unread \/ Seek))

Spec == Init /\ [][Next]_vars
=============================================================================
