---------------------------- MODULE ServerFolder ----------------------------
(***************************************************************************)
(* What a Storage folder of numbered files is meant to be: a gapless list  *)
(* of pictures.  Every client finds the files by counting them, so a gap   *)
(* would make a picture unreachable for ever.                              *)
(*                                                                         *)
(*   Spec        a write hits a number already in use or the next one, so  *)
(*               the list never has a gap;                                 *)
(*   AppendSpec  a write always takes the next number, so no picture is    *)
(*               ever replaced.                                            *)
(***************************************************************************)
EXTENDS Naturals, Sequences

CONSTANT Picture

VARIABLE pictures

Init == pictures = << >>

\* A picture is added at the end.
Add(p) == pictures' = Append(pictures, p)

\* The picture at position i is replaced.
Replace(i, p) == pictures' = [pictures EXCEPT ![i] = p]

Next == \E p \in Picture : Add(p) \/ \E i \in DOMAIN pictures : Replace(i, p)

Spec == Init /\ [][Next]_pictures

AppendSpec == Init /\ [][\E p \in Picture : Add(p)]_pictures

=============================================================================
