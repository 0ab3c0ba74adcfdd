---------------------------- MODULE MCFrameLink ----------------------------
(***************************************************************************)
(* Instances of FrameLink for TLC.                                         *)
(***************************************************************************)
EXTENDS FrameLink

\* Markers, escapes, and pairs of 0xff nearer and farther than MaxPair.
McBodies == {<<125, 126>>, <<255, 1, 255, 124>>}

\* 0x7d is written as two bytes: a frame of 8 bytes becomes one of 258.
McLong == {[i \in 1 .. 125 |-> 125], <<1>>}
============================================================================
