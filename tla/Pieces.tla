------------------------------- MODULE Pieces -------------------------------
(***************************************************************************)
(* The tetrominoes of tetris-core: mino offsets of every kind in every     *)
(* rotation, the wall-kick tables, and the piece a kick produces.  The     *)
(* y axis points down, as in the source.  Rotations are numbered clockwise *)
(* from North, the numbering place.rs uses too.                            *)
(***************************************************************************)
EXTENDS Integers, Sequences

AllKinds == {"I", "O", "T", "S", "Z", "J", "L"}

North == 0
Rotations == 0..3

RotateCw(r)  == (r + 1) % 4
RotateCcw(r) == (r + 3) % 4
-----------------------------------------------------------------------------
(* Mino offsets, one set per rotation: North, East, South, West. *)
IShape == << {<<0,1>>, <<1,1>>, <<2,1>>, <<3,1>>}, {<<2,0>>, <<2,1>>, <<2,2>>, <<2,3>>},
             {<<0,2>>, <<1,2>>, <<2,2>>, <<3,2>>}, {<<1,0>>, <<1,1>>, <<1,2>>, <<1,3>>} >>
OShape == [i \in 1..4 |-> {<<1,0>>, <<2,0>>, <<1,1>>, <<2,1>>}]
TShape == << {<<1,0>>, <<0,1>>, <<1,1>>, <<2,1>>}, {<<1,0>>, <<1,1>>, <<2,1>>, <<1,2>>},
             {<<0,1>>, <<1,1>>, <<2,1>>, <<1,2>>}, {<<1,0>>, <<0,1>>, <<1,1>>, <<1,2>>} >>
SShape == << {<<1,0>>, <<2,0>>, <<0,1>>, <<1,1>>}, {<<1,0>>, <<1,1>>, <<2,1>>, <<2,2>>},
             {<<1,1>>, <<2,1>>, <<0,2>>, <<1,2>>}, {<<0,0>>, <<0,1>>, <<1,1>>, <<1,2>>} >>
ZShape == << {<<0,0>>, <<1,0>>, <<1,1>>, <<2,1>>}, {<<2,0>>, <<1,1>>, <<2,1>>, <<1,2>>},
             {<<0,1>>, <<1,1>>, <<1,2>>, <<2,2>>}, {<<1,0>>, <<0,1>>, <<1,1>>, <<0,2>>} >>
JShape == << {<<0,0>>, <<0,1>>, <<1,1>>, <<2,1>>}, {<<1,0>>, <<2,0>>, <<1,1>>, <<1,2>>},
             {<<0,1>>, <<1,1>>, <<2,1>>, <<2,2>>}, {<<1,0>>, <<1,1>>, <<0,2>>, <<1,2>>} >>
LShape == << {<<2,0>>, <<0,1>>, <<1,1>>, <<2,1>>}, {<<1,0>>, <<1,1>>, <<1,2>>, <<2,2>>},
             {<<0,1>>, <<1,1>>, <<2,1>>, <<0,2>>}, {<<0,0>>, <<1,0>>, <<1,1>>, <<1,2>>} >>

Shapes == [I |-> IShape, O |-> OShape, T |-> TShape, S |-> SShape,
           Z |-> ZShape, J |-> JShape, L |-> LShape]

Shape(kind, rotation) == Shapes[kind][rotation + 1]
-----------------------------------------------------------------------------
(* Wall kicks, indexed by the rotation turned from; first entry first tried. *)
JLSTZKicksCw ==
  << << <<0,0>>, <<-1,0>>, <<-1,1>>,  <<0,-2>>, <<-1,-2>> >>,
     << <<0,0>>, <<1,0>>,  <<1,-1>>,  <<0,2>>,  <<1,2>> >>,
     << <<0,0>>, <<1,0>>,  <<1,1>>,   <<0,-2>>, <<1,-2>> >>,
     << <<0,0>>, <<-1,0>>, <<-1,-1>>, <<0,2>>,  <<-1,2>> >> >>
JLSTZKicksCcw ==
  << << <<0,0>>, <<1,0>>,  <<1,1>>,   <<0,-2>>, <<1,-2>> >>,
     << <<0,0>>, <<1,0>>,  <<1,-1>>,  <<0,2>>,  <<1,2>> >>,
     << <<0,0>>, <<-1,0>>, <<-1,1>>,  <<0,-2>>, <<-1,-2>> >>,
     << <<0,0>>, <<-1,0>>, <<-1,-1>>, <<0,2>>,  <<-1,2>> >> >>
IKicksCw ==
  << << <<0,0>>, <<-2,0>>, <<1,0>>,  <<-2,-1>>, <<1,2>> >>,
     << <<0,0>>, <<-1,0>>, <<2,0>>,  <<-1,2>>,  <<2,-1>> >>,
     << <<0,0>>, <<2,0>>,  <<-1,0>>, <<2,1>>,   <<-1,-2>> >>,
     << <<0,0>>, <<1,0>>,  <<-2,0>>, <<1,-2>>,  <<-2,1>> >> >>
IKicksCcw ==
  << << <<0,0>>, <<-1,0>>, <<2,0>>,  <<-1,2>>,  <<2,-1>> >>,
     << <<0,0>>, <<2,0>>,  <<-1,0>>, <<2,1>>,   <<-1,-2>> >>,
     << <<0,0>>, <<1,0>>,  <<-2,0>>, <<1,-2>>,  <<-2,1>> >>,
     << <<0,0>>, <<-2,0>>, <<1,0>>,  <<-2,-1>>, <<1,2>> >> >>

\* O never reaches a table: GameState refuses to rotate it first.
Kicks(kind, from, cw) ==
  LET table == IF kind = "I" THEN IF cw THEN IKicksCw ELSE IKicksCcw
                             ELSE IF cw THEN JLSTZKicksCw ELSE JLSTZKicksCcw
  IN  table[from + 1]
-----------------------------------------------------------------------------
(* A piece is [kind, rotation, x, y]; (x, y) is the origin of its box. *)
CellsOf(p) == {<<p.x + m[1], p.y + m[2]>> : m \in Shape(p.kind, p.rotation)}

Shifted(p, dx, dy) == [p EXCEPT !.x = @ + dx, !.y = @ + dy]

\* The piece turned one quarter with its i-th kick.
Kicked(p, cw, i) ==
  LET k == Kicks(p.kind, p.rotation, cw)[i]
  IN  [p EXCEPT !.rotation = IF cw THEN RotateCw(@) ELSE RotateCcw(@),
                !.x = @ + k[1], !.y = @ + k[2]]
=============================================================================
