-------------------------- MODULE MCUpdateDelivery --------------------------
(* Instances of UpdateDelivery for TLC: rows of one, two or three pixels.  *)
EXTENDS UpdateDelivery

Row(n) == 0..(n - 1)

Screen1 == Row(1)
Screen2 == Row(2)

BlackAndWhite == {0, 1}
AllBlack == [p \in Area |-> 0]
AllWhite == [p \in Area |-> 1]
LeftWhite == [p \in Area |-> IF p = 0 THEN 1 ELSE 0]

NoMoves == {}

(* One pixel moves over its neighbour. *)
OneMove == {[target |-> {1}, delta |-> -1]}

(* The whole view of n pixels, incremental or not. *)
WholeView(n)   == [region : {Row(n)}, incremental : BOOLEAN]
WholeView1     == WholeView(1)

(* The next change of one pixel, and a refresh that asks for more than the *)
(* view.                                                                   *)
LeftOrAll2 ==
  {[region |-> {0}, incremental |-> TRUE], [region |-> Row(3), incremental |-> FALSE]}
=============================================================================
