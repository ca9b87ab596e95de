-------------------------------- MODULE Screen --------------------------------
(***************************************************************************)
(* From the game to the terminal's screen: the render throttle decides     *)
(* whether this pass of the loop draws, the view paints a frame into a     *)
(* buffer, and the renderer writes the frame, or what changed of it, as    *)
(* terminal commands and trades buffers with the view.  The terminal is    *)
(* modelled from outside: it executes the commands, keeps a pen and a      *)
(* cursor, and may be resized at any moment.                               *)
(***************************************************************************)
EXTENDS Integers, SequencesExt

CONSTANTS Views,       \* what there is to show: game and adapter status
          Picture,     \* the cells a view paints, by position, over the blank frame
          Mark,        \* the render_fingerprint of a view, a hash
          StaticViews, \* the views of a paused or finished game
          Sizes,       \* terminal sizes, <<width, height>>
          Interval,    \* min_static_interval_ms
          Passes       \* times one pass of the loop may take

ASSUME ScreenAssumption ==
  /\ Interval \in Nat /\ Passes \subseteq Nat
  /\ Sizes \subseteq (Nat \ {0}) \X (Nat \ {0})
  /\ \A v \in Views : \A p \in DOMAIN Picture[v] :
       {Picture[v][p].style.bold, Picture[v][p].style.dim} \subseteq BOOLEAN

VARIABLES
  pass,      \* of the loop: "size", "draw" or "poll"
  view,      \* what the game and the adapter status are now
  seen,      \* last_term_size, the size the loop read
  buffer,    \* fb, the buffer of the loop
  last,      \* the renderer's previous frame, or NoFrame
  throttle,  \* RenderThrottle; since = now_ms - last_render_ms
  size,      \* the terminal's size,
  screen,    \*   its cells, cursor and pen
  resized,   \*   and whether it was resized since the loop read its size
  shown      \* history: the view and the size of the last draw

screenVars == <<pass, view, seen, buffer, last, throttle, size, screen, resized, shown>>

NoFrame == [w |-> 0, h |-> 0, cells |-> <<>>]
-----------------------------------------------------------------------------
(* Frames: the cells of a buffer, row by row.                              *)

DefaultStyle == [fg |-> "light", bg |-> "black", bold |-> FALSE, dim |-> FALSE]
Blank == [ch |-> " ", style |-> DefaultStyle]

Pos(i, w) == <<(i - 1) % w, (i - 1) \div w>>

NewFrame(s) == [w |-> s[1], h |-> s[2], cells |-> [i \in 1 .. s[1] * s[2] |-> Blank]]

\* resize keeps what is in the vector, at whatever position it ends up.
Resized(b, s) ==
  [w |-> s[1], h |-> s[2],
   cells |-> [i \in 1 .. s[1] * s[2] |-> IF i \in DOMAIN b.cells THEN b.cells[i] ELSE Blank]]

Cleared(b) == [b EXCEPT !.cells = [i \in DOMAIN b.cells |-> Blank]]

\* What lies outside the frame is clipped.
Painted(v, b) ==
  [b EXCEPT !.cells = [i \in DOMAIN b.cells |->
     IF Pos(i, b.w) \in DOMAIN Picture[v] THEN Picture[v][Pos(i, b.w)] ELSE b.cells[i]]]

\* Slip: the frame is painted over what the buffer held.
PaintOver(v, s, b) == Painted(v, Resized(b, s))

RenderInto(v, s, b) == Painted(v, Cleared(Resized(b, s)))
-----------------------------------------------------------------------------
(* Encoding.                                                               *)

\* The attribute reset comes after the colours.
ApplyStyle(style) ==
  <<[op |-> "fg", arg |-> style.fg], [op |-> "bg", arg |-> style.bg], [op |-> "reset"]>>
  \o (IF style.bold THEN <<[op |-> "bold"]>> ELSE <<>>)
  \o (IF style.dim  THEN <<[op |-> "dim"]>>  ELSE <<>>)

\* The commands for the cell at i, of those that are written: where it is, its style unless
\* the cell written before it has the same, its character.
CellCode(b, written, i, lead) ==
  LET before == {j \in written : j < i}
      styled == before # {} /\ b.cells[Max(before)].style = b.cells[i].style
  IN lead \o (IF styled THEN <<>> ELSE ApplyStyle(b.cells[i].style))
          \o <<[op |-> "print", arg |-> b.cells[i].ch]>>

\* The style is reset at the end.
EncodeCells(b, written, lead) ==
  FlattenSeq([i \in DOMAIN b.cells |->
    IF i \in written THEN CellCode(b, written, i, lead[i]) ELSE <<>>])
  \o (IF written = {} THEN <<>> ELSE <<[op |-> "resetcolor"], [op |-> "reset"]>>)

MoveTo(p) == <<[op |-> "move", arg |-> p]>>

EncodeFull(b) ==
  LET rowStart == [i \in DOMAIN b.cells |->
        IF i > 1 /\ Pos(i, b.w)[1] = 0 THEN <<[op |-> "newline"]>> ELSE <<>>]
  IN <<[op |-> "clear"]>> \o MoveTo(<<0, 0>>) \o EncodeCells(b, DOMAIN b.cells, rowStart)

\* The runs of changed cells; no run goes past the end of a row.
EncodeDiff(prev, next) ==
  LET changed  == {i \in DOMAIN next.cells : prev.cells[i] # next.cells[i]}
      runStart == [i \in DOMAIN next.cells |->
        IF i - 1 \in changed /\ Pos(i, next.w)[1] # 0 THEN <<>> ELSE MoveTo(Pos(i, next.w))]
  IN EncodeCells(next, changed, runStart)
-----------------------------------------------------------------------------
(* The terminal, with line wrap off.                                       *)

PlainPen == [fg |-> "default", bg |-> "default", bold |-> FALSE, dim |-> FALSE]
Spaces(s, pen) == [p \in (0 .. s[1] - 1) \X (0 .. s[2] - 1) |->
                     [ch |-> " ", style |-> [PlainPen EXCEPT !.bg = pen.bg]]]

Lower(a, b) == IF a < b THEN a ELSE b

Execute(t, c) ==
  LET edge == <<size[1] - 1, size[2] - 1>>
  IN CASE c.op = "clear"      -> [t EXCEPT !.cells = Spaces(size, t.pen)]
       [] c.op = "move"       -> [t EXCEPT !.at = <<Lower(c.arg[1], edge[1]),
                                                    Lower(c.arg[2], edge[2])>>]
       [] c.op = "fg"         -> [t EXCEPT !.pen.fg = c.arg]
       [] c.op = "bg"         -> [t EXCEPT !.pen.bg = c.arg]
       [] c.op = "bold"       -> [t EXCEPT !.pen.bold = TRUE]
       [] c.op = "dim"        -> [t EXCEPT !.pen.dim = TRUE]
       [] c.op = "reset"      -> [t EXCEPT !.pen = PlainPen]   \* SGR 0: the colours too
       [] c.op = "resetcolor" -> [t EXCEPT !.pen.fg = "default", !.pen.bg = "default"]
       [] c.op = "print"      -> [t EXCEPT !.cells[t.at] = [ch |-> c.arg, style |-> t.pen],
                                           !.at[1] = Lower(t.at[1] + 1, edge[1])]
       [] c.op = "newline" /\ t.at[2] < edge[2] -> [t EXCEPT !.at = <<0, t.at[2] + 1>>]
       [] OTHER ->   \* a newline on the last row: the screen scrolls
            [t EXCEPT !.at = <<0, edge[2]>>,
                      !.cells = [p \in DOMAIN t.cells |->
                        IF p[2] < edge[2] THEN t.cells[<<p[1], p[2] + 1>>]
                                          ELSE Spaces(size, t.pen)[p]]]

Executed(t, commands) ==
  LET after[i \in 0 .. Len(commands)] ==
        IF i = 0 THEN t ELSE Execute(after[i - 1], commands[i])
  IN after[Len(commands)]
-----------------------------------------------------------------------------
ScreenInit ==
  /\ pass = "size" /\ view \in Views
  /\ seen = <<0, 0>> /\ buffer = NoFrame /\ last = NoFrame
  /\ throttle = [rendered |-> FALSE, since |-> 0, mark |-> <<>>]
  /\ size \in Sizes /\ resized = FALSE
  /\ screen = [cells |-> Spaces(size, PlainPen), at |-> <<0, 0>>, pen |-> PlainPen]
  /\ shown = <<>>

\* A new size invalidates the renderer's frame.
ReadSize ==
  /\ pass = "size" /\ pass' = "draw"
  /\ seen' = size /\ resized' = FALSE
  /\ last' = IF size # seen THEN NoFrame ELSE last
  /\ UNCHANGED <<view, buffer, throttle, size, screen, shown>>

\* The fingerprint covers the view and the size.
Fingerprint == <<Mark[view], seen>>

ShouldRender ==
  \/ ~ throttle.rendered
  \/ view \notin StaticViews
  \/ Fingerprint # throttle.mark
  \/ throttle.since >= Interval

\* Slip: a frame that is not throttled leaves the fingerprint alone.
NotedIfStatic(t) ==
  [rendered |-> TRUE, since |-> 0,
   mark |-> IF ~ t.rendered \/ view \in StaticViews THEN Fingerprint ELSE t.mark]

Noted(t) == [rendered |-> TRUE, since |-> 0, mark |-> Fingerprint]

\* draw_swap: the frame is written in full after an invalidation or a change of size, and
\* becomes the renderer's; the loop gets the renderer's old one, of the frame's size.
DrawSwap(frame) ==
  LET same == last # NoFrame /\ last.w = frame.w /\ last.h = frame.h
  IN /\ screen' = Executed(screen, IF same THEN EncodeDiff(last, frame) ELSE EncodeFull(frame))
     /\ buffer' = IF last = NoFrame THEN NewFrame(seen) ELSE Resized(last, seen)
     /\ last' = frame

Draw ==
  /\ pass = "draw" /\ ShouldRender
  /\ pass' = "poll"
  /\ throttle' = Noted(throttle)
  /\ DrawSwap(RenderInto(view, seen, buffer))
  /\ shown' = <<view, seen>>
  /\ UNCHANGED <<view, seen, size, resized>>

SkipDraw ==
  /\ pass = "draw" /\ ~ ShouldRender
  /\ pass' = "poll"
  /\ UNCHANGED <<view, seen, buffer, last, throttle, size, screen, resized, shown>>

\* Events, steps of the game and status updates until the next pass.
Poll ==
  /\ pass = "poll" /\ pass' = "size"
  /\ view' \in Views
  /\ \E dt \in Passes : throttle' = [throttle EXCEPT !.since = Lower(@ + dt, Interval)]
  /\ UNCHANGED <<seen, buffer, last, size, screen, resized, shown>>

\* The window changes, once at most between two readings of its size; what fits may stay.
ResizeTerminal ==
  /\ ~ resized /\ resized' = TRUE
  /\ size' \in Sizes \ {size}
  /\ \E keeps \in BOOLEAN :
       LET blank == Spaces(size', PlainPen)
       IN screen' = [screen EXCEPT !.at = <<0, 0>>, !.cells = [p \in DOMAIN blank |->
            IF keeps /\ p \in DOMAIN screen.cells THEN screen.cells[p] ELSE blank[p]]]
  /\ UNCHANGED <<pass, view, seen, buffer, last, throttle, shown>>

ScreenNext == ReadSize \/ Draw \/ SkipDraw \/ Poll \/ ResizeTerminal

ScreenSpec == ScreenInit /\ [][ScreenNext]_screenVars
-----------------------------------------------------------------------------
Face(cell)  == <<cell.ch, cell.style.bold, cell.style.dim>>

Settled == pass = "poll" /\ ~ resized

\* After a pass that met no resize the screen shows the characters and the emphasis of
\* the view it drew last, and nothing else: whatever was on it before, in full or by
\* differences, through resizes, and although loop and renderer trade buffers (draw_swap).
ScreenShowsView ==
  Settled =>
    \A i \in 1 .. size[1] * size[2] :
      LET p == Pos(i, size[1])
      IN Face(screen.cells[p]) =
         Face(IF p \in DOMAIN Picture[shown[1]] THEN Picture[shown[1]][p] ELSE Blank)

\* What is on the screen is not old: it is the present view at the present size, or the
\* game is static, its fingerprint has not changed since the draw, and less than the
\* static interval has passed (should_render).
ScreenIsFresh ==
  pass = "poll" =>
    \/ shown = <<view, seen>>
    \/ /\ view \in StaticViews
       /\ Mark[shown[1]] = Mark[view] /\ shown[2] = seen
       /\ throttle.since < Interval
=============================================================================
