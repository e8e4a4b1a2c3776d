--------------------------- MODULE MCUpdateSender ---------------------------
(* Instances of UpdateSender for TLC: a row of three or four pixels.       *)
EXTENDS UpdateSender

Row(n) == 0..(n - 1)

Intervals(pixels) == {a..b : a, b \in pixels} \ {{}}

(* Every copy of an interval of the screen to another place on the screen. *)
AllMoves ==
  {m \in [target : Intervals(Screen), delta : {-2, -1, 1, 2}] :
     Translate(m.target, m.delta) \subseteq Screen}

(* Those whose source and target do not overlap.                           *)
DisjointMoves ==
  {m \in AllMoves : m.target \cap Translate(m.target, m.delta) = {}}

(* A move no view port sees the target of without a part of the source:    *)
(* the others lose a pixel, see SenderClip.                                *)
Visible(m) ==
  \A corner \in ViewPorts :
    LET seen == {p \in Area : p + corner \in m.target} IN
    seen # {} => \E p \in seen : p + m.delta \in Area

VisibleMoves         == {m \in AllMoves : Visible(m)}
VisibleDisjointMoves == {m \in DisjointMoves : Visible(m)}

Screen3 == Row(3)
Screen4 == Row(4)
Area2   == Row(2)
Area3   == Row(3)
AnyViewPort   == {0, 1}
WholeOrPart   == {Row(3), 1..2}
WholeRequest2 == {Row(2)}
WholeRequest3 == {Row(3)}
=============================================================================
