----------------------------- MODULE PartsProofs -----------------------------
(***************************************************************************)
(* The parts MCParts runs side by side, each for every value of its        *)
(* constants: the shuffle deals complete bags, and pieces are drawn as     *)
(* they were shown; the loop over clear_row clears all full rows at once,  *)
(* and every clear scores; the observer shows what it read last, and moves *)
(* on; a tape is decoded as it was encoded, a cut one to a beginning of    *)
(* it, and a mismatch is reproduced by its prefix; the screen is fresh,    *)
(* and shows the view.                                                     *)
(***************************************************************************)
EXTENDS ClearRows, BoardProofs, Rng, Screen, Replay, Observe, SequenceTheorems

-----------------------------------------------------------------------------
(* The generator. *)

Dealt == {"I", "O", "T", "S", "Z", "J", "L"}

Distinct(bag) == \A m, n \in 1..7 : bag[m] = bag[n] => m = n

\* A bag with one piece of each kind.
Complete(bag) ==
  /\ bag \in [1..7 -> Dealt]
  /\ \A k \in Dealt : \E i \in 1..7 : bag[i] = k
  /\ Distinct(bag)

LEMMA HalfBounds == \A n \in 0 .. Half - 1 : n \in Nat
  BY SMTT(30) DEF Half

\* A remainder is below its divisor.
LEMMA ModBounds == \A m \in Nat \ {0} : \A n \in Nat : n % m \in 0 .. m - 1
  BY SMTT(30)

\* The generator stays within 32 bits.
LEMMA NextU32OK ==
  ASSUME NEW s \in Numbers
  PROVE  NextU32(s) \in Numbers
<1>1. \A n \in Nat : n % Half \in 0 .. Half - 1
  <2>1. Half \in Nat \ {0}
    BY SMTT(30) DEF Half
  <2> QED BY <2>1, ModBounds
<1>2. s.lo \in Nat /\ s.hi \in Nat
  BY HalfBounds DEF Numbers
<1>3. s.lo * 26125 + 62303 \in Nat
  BY <1>2
<1>4. (s.lo * 26125 + 62303) \div Half \in Nat
  BY <1>3 DEF Half
<1>5. (s.lo * 26125 + 62303) \div Half + s.hi * 26125 + s.lo * 25 + 15470 \in Nat
  BY <1>2, <1>4
<1> QED BY <1>1, <1>3, <1>5 DEF NextU32, Numbers

\* next_range stays in its range.
LEMMA BelowOK ==
  ASSUME NEW s \in Numbers, NEW max \in 2..7
  PROVE  Below(s, max) + 1 \in 1..max
<1>1. s.lo \in Nat /\ s.hi \in Nat
  BY HalfBounds DEF Numbers
<1>2. Half % max \in Nat
  BY SMTT(30) DEF Half
<1>3. s.hi * (Half % max) + s.lo \in Nat
  BY <1>1, <1>2
<1>4. \A n \in Nat : n % max \in 0 .. max - 1
  <2>1. max \in Nat \ {0}
    OBVIOUS
  <2> QED BY <2>1, ModBounds
<1>5. Below(s, max) \in 0 .. max - 1
  BY <1>3, <1>4 DEF Below
<1> QED BY <1>5

\* Swapping two pieces keeps a bag complete.
LEMMA SwapComplete ==
  ASSUME NEW bag, Complete(bag), NEW i \in 1..7, NEW j \in 1..7
  PROVE  Complete(Swapped(bag, i, j))
<1> DEFINE new == Swapped(bag, i, j)
<1>1. new \in [1..7 -> Dealt]
  BY DEF Complete, Swapped
<1>2. \A k \in 1..7 : new[k] = IF k = j THEN bag[i] ELSE IF k = i THEN bag[j] ELSE bag[k]
  BY DEF Complete, Swapped
<1>3. ASSUME NEW k \in Dealt
      PROVE  \E n \in 1..7 : new[n] = k
  <2>1. PICK n \in 1..7 : bag[n] = k
    BY DEF Complete
  <2>2. CASE n = i
    BY <1>2, <2>1, <2>2
  <2>3. CASE n = j
    BY <1>2, <2>1, <2>3
  <2>4. CASE n # i /\ n # j
    BY <1>2, <2>1, <2>4
  <2> QED BY <2>2, <2>3, <2>4
<1>4. Distinct(new)
  BY <1>2 DEF Complete, Distinct
<1> QED BY <1>1, <1>3, <1>4 DEF Complete

RoundOK(r) == Complete(r.bag) /\ r.rng \in Numbers

\* A round keeps both.
LEMMA RoundKeeps ==
  ASSUME NEW r, RoundOK(r), NEW n \in 2..7
  PROVE  RoundOK(Round(r, n))
<1> DEFINE rng == NextU32(r.rng)
<1>1. rng \in Numbers
  BY NextU32OK DEF RoundOK
<1>2. Below(rng, n) + 1 \in 1..n
  BY <1>1, BelowOK
<1>3. Complete(Swapped(r.bag, n, Below(rng, n) + 1))
  BY <1>2, SwapComplete DEF RoundOK
<1> QED BY <1>1, <1>3 DEF Round, RoundOK

\* Every shuffle leaves one piece of each kind in the bag and the generator in a
\* 32-bit state: a queue never runs short of a kind, whatever its seed.
THEOREM ShuffleComplete ==
  ASSUME NEW s \in Numbers
  PROVE  Complete(Shuffle(s).bag) /\ Shuffle(s).rng \in Numbers
<1>1. RoundOK([bag |-> NewBag, rng |-> s])
  BY DEF RoundOK, Complete, Distinct, NewBag, Dealt
<1> QED BY <1>1, RoundKeeps DEF RoundOK, Shuffle
-----------------------------------------------------------------------------
QueueComplete(q) ==
  /\ DOMAIN q = {"seed", "bag", "index", "rng"}
  /\ Complete(q.bag)
  /\ q.index \in 0..7
  /\ q.rng \in Numbers

\* What was drawn from a bag is its first pieces.
RngInv ==
  /\ QueueComplete(queue)
  /\ fromBag \in Seq(Dealt) /\ Len(fromBag) = queue.index
  /\ \A i \in 1..Len(fromBag) : fromBag[i] = queue.bag[i]

LEMMA RngStarts == (\E s \in Numbers : queue = Q!NewQueue(s)) /\ fromBag = <<>> => RngInv
<1> SUFFICES ASSUME NEW s \in Numbers, queue = Q!NewQueue(s), fromBag = <<>>
             PROVE  RngInv
  OBVIOUS
<1>1. queue = [seed |-> s, bag |-> Shuffle(s).bag, index |-> 0, rng |-> Shuffle(s).rng]
  BY DEF Q!NewQueue, Q!Refill
<1>2. Complete(Shuffle(s).bag) /\ Shuffle(s).rng \in Numbers
  BY ShuffleComplete
<1> QED BY <1>1, <1>2 DEF RngInv, QueueComplete

\* A draw takes the next piece of the bag, or the first of a new one.
LEMMA RngSteps == RngInv /\ [DrawPiece]_rngVars => RngInv'
<1> SUFFICES ASSUME RngInv, DrawPiece
             PROVE  RngInv'
  BY DEF RngInv, rngVars
<1> DEFINE ready == Q!Ready(queue)
           rest  == IF Len(fromBag) = 7 THEN <<>> ELSE fromBag
<1>1. /\ QueueComplete(ready) /\ ready.index \in 0..6
      /\ rest \in Seq(Dealt) /\ Len(rest) = ready.index
      /\ \A i \in 1..Len(rest) : rest[i] = ready.bag[i]
  <2>1. CASE queue.index = 7
    <3>1. QueueComplete(ready) /\ ready.index = 0
      BY <2>1, ShuffleComplete DEF Q!Ready, Q!Refill, RngInv, QueueComplete
    <3>2. rest = <<>>
      BY <2>1 DEF RngInv
    <3> HIDE DEF ready, rest
    <3> QED BY <3>1, <3>2
  <2>2. CASE queue.index # 7
    BY <2>2 DEF Q!Ready, RngInv, QueueComplete
  <2> QED BY <2>1, <2>2
<1>2. queue' = [ready EXCEPT !.index = ready.index + 1]
  BY DEF DrawPiece, Q!Draw
<1>3. fromBag' = Append(rest, ready.bag[ready.index + 1])
  BY DEF DrawPiece, Q!Drawn
<1> HIDE DEF ready, rest
<1>4. ready.bag[ready.index + 1] \in Dealt
  BY <1>1 DEF QueueComplete, Complete
<1>5. QueueComplete(queue') /\ queue'.bag = ready.bag /\ queue'.index = ready.index + 1
  BY <1>1, <1>2 DEF QueueComplete
<1>6. /\ fromBag' \in Seq(Dealt) /\ Len(fromBag') = queue'.index
      /\ \A i \in 1..Len(fromBag') : fromBag'[i] = queue'.bag[i]
  BY <1>1, <1>3, <1>4, <1>5
<1> QED BY <1>5, <1>6 DEF RngInv

LEMMA RngStates == RngSpec => []RngInv
<1>1. RngInit => RngInv
  BY RngStarts, RngAssumption DEF RngInit, Numbers
<1> QED BY <1>1, RngSteps, PTL DEF RngSpec

\* However many pieces are drawn, from whatever seed, they come in complete bags.
THEOREM AlwaysDealtInBags == RngSpec => []DealtInBags
<1>1. ASSUME RngInv
      PROVE  DealtInBags
  <2>1. Distinct(queue.bag)
    BY <1>1 DEF RngInv, QueueComplete, Complete
  <2>2. \A i \in 1..Len(fromBag) : i \in 1..7 /\ fromBag[i] = queue.bag[i]
    BY <1>1 DEF RngInv, QueueComplete
  <2> QED BY <2>1, <2>2 DEF DealtInBags, Distinct
<1> QED BY <1>1, RngStates, PTL
-----------------------------------------------------------------------------
(* The preview. *)

\* The piece of the preview in place i: from the bag, or from the bag the next
\* shuffle makes.
Shown(q, i) == IF q.index + i <= 7 THEN q.bag[q.index + i]
               ELSE Shuffle(q.rng).bag[q.index + i - 7]

\* A function on five places is a sequence.
LEMMA FunctionIsSeq ==
  ASSUME NEW S, NEW f \in [1..5 -> S]
  PROVE  f \in Seq(S) /\ Len(f) = 5
<1>1. PICK n \in Nat : n = 5
  OBVIOUS
<1>2. f \in [1..n -> S]
  BY <1>1
<1>3. f \in Seq(S)
  BY <1>2
<1> QED BY <1>3

LEMMA PreviewShown ==
  ASSUME NEW q, QueueComplete(q)
  PROVE  /\ Q!Preview(q) \in [1..5 -> Dealt]
         /\ \A i \in 1..5 : Q!Preview(q)[i] = Shown(q, i)
<1>1. Complete(Shuffle(q.rng).bag)
  BY ShuffleComplete DEF QueueComplete
<1>2. ASSUME NEW i \in 1..5
      PROVE  Shown(q, i) \in Dealt
  <2>1. CASE q.index + i <= 7
    <3>1. q.index + i \in 1..7
      BY <2>1 DEF QueueComplete
    <3> QED BY <2>1, <3>1 DEF Shown, QueueComplete, Complete
  <2>2. CASE ~ (q.index + i <= 7)
    <3>1. q.index + i - 7 \in 1..7
      BY <2>2 DEF QueueComplete
    <3> QED BY <1>1, <2>2, <3>1 DEF Shown, Complete
  <2> QED BY <2>1, <2>2
<1>3. Q!Preview(q) = [i \in 1..5 |-> Shown(q, i)]
  BY DEF Q!Preview, Shown, QueueComplete
<1> QED BY <1>2, <1>3

\* A draw takes the piece shown first and shows the others one place earlier.
LEMMA DrawKeepsPreview ==
  ASSUME NEW q, QueueComplete(q), QueueComplete(Q!Draw(q))
  PROVE  /\ Q!Drawn(q) = Shown(q, 1)
         /\ \A i \in 1..4 : Shown(Q!Draw(q), i) = Shown(q, i + 1)
<1>1. CASE q.index < 7
  <2>1. Q!Ready(q) = q
    BY <1>1 DEF Q!Ready, QueueComplete
  <2>2. Q!Drawn(q) = Shown(q, 1)
    BY <1>1, <2>1 DEF Q!Drawn, Shown, QueueComplete
  <2>3. /\ Q!Draw(q).index = q.index + 1 /\ Q!Draw(q).bag = q.bag
        /\ Q!Draw(q).rng = q.rng
    BY <2>1 DEF Q!Draw, QueueComplete
  <2>4. q.index \in 0..6
    BY <1>1 DEF QueueComplete
  <2> QED BY <2>2, <2>3, <2>4 DEF Shown
<1>2. CASE q.index = 7
  <2>1. /\ Q!Ready(q).index = 0 /\ Q!Ready(q).bag = Shuffle(q.rng).bag
        /\ DOMAIN Q!Ready(q) = DOMAIN q
    BY <1>2 DEF Q!Ready, Q!Refill, QueueComplete
  <2>2. Q!Drawn(q) = Shown(q, 1)
    BY <1>2, <2>1 DEF Q!Drawn, Shown
  <2>3. Q!Draw(q).index = 1 /\ Q!Draw(q).bag = Shuffle(q.rng).bag
    BY <2>1 DEF Q!Draw, QueueComplete
  <2> QED BY <1>2, <2>2, <2>3 DEF Shown
<1> QED BY <1>1, <1>2 DEF QueueComplete

\* What was shown is what comes, in its order.
LEMMA DrawKeepsPromise ==
  ASSUME RngInv, RngInv', DrawPiece
  PROVE  PreviewKept'
<1>1. PICK a \in [1..5 -> Dealt] : a = Q!Preview(queue) /\ \A i \in 1..5 : a[i] = Shown(queue, i)
  BY PreviewShown DEF RngInv
<1>2. PICK b \in [1..5 -> Dealt] : b = Q!Preview(queue') /\ \A i \in 1..5 : b[i] = Shown(queue', i)
  BY PreviewShown DEF RngInv
<1>3. PICK k : k = Q!Drawn(queue)
  OBVIOUS
<1>4. k = a[1] /\ \A i \in 1..4 : b[i] = a[i + 1]
  <2>1. queue' = Q!Draw(queue)
    BY DEF DrawPiece
  <2>2. k = Shown(queue, 1) /\ \A i \in 1..4 : Shown(queue', i) = Shown(queue, i + 1)
    BY <1>3, <2>1, DrawKeepsPreview DEF RngInv
  <2> QED BY <1>1, <1>2, <2>2
<1>5. promised' = <<a, k>>
  BY <1>1, <1>3 DEF DrawPiece
<1>6. SubSeq(b, 1, 4) = SubSeq(a, 2, 5)
  <2>1. a \in Seq(Dealt) /\ Len(a) = 5 /\ b \in Seq(Dealt) /\ Len(b) = 5
    BY FunctionIsSeq
  <2>2. SubSeq(b, 1, 4) \in Seq(Dealt) /\ SubSeq(a, 2, 5) \in Seq(Dealt)
    BY <2>1
  <2>3. Len(SubSeq(b, 1, 4)) = 4 /\ Len(SubSeq(a, 2, 5)) = 4
    BY <2>1
  <2>4. \A i \in 1..4 : SubSeq(b, 1, 4)[i] = b[i] /\ SubSeq(a, 2, 5)[i] = a[i + 1]
    BY <2>1
  <2> QED BY <1>4, <2>2, <2>3, <2>4
<1>7. promised'[1] = a /\ promised'[2] = k
  BY <1>5
<1> QED BY <1>2, <1>4, <1>6, <1>7 DEF PreviewKept

\* The five pieces shown are the five that come, from every seed and for ever.
THEOREM PreviewAlwaysKept == RngSpec => []PreviewKept
<1>1. RngInit => PreviewKept
  BY DEF RngInit, PreviewKept
<1>2. RngInv /\ RngInv' /\ PreviewKept /\ [DrawPiece]_rngVars => PreviewKept'
  <2>1. ASSUME PreviewKept, UNCHANGED rngVars
        PROVE  PreviewKept'
    BY <2>1 DEF PreviewKept, rngVars
  <2> QED BY <2>1, DrawKeepsPromise
<1> QED BY <1>1, <1>2, RngStates, PTL DEF RngSpec
-----------------------------------------------------------------------------
(* One clear_row of the highest full row. *)

\* The full rows other than the highest stay where they are: none is above it.
LEMMA ClearTopRows ==
  ASSUME NEW b, b \subseteq Cells, NEW y \in FullRows(b), \A z \in FullRows(b) : y <= z
  PROVE  /\ ClearRow(b, y) \subseteq Cells
         /\ FullRows(ClearRow(b, y)) = FullRows(b) \ {y}
<1> DEFINE Stay == {c \in b : c[2] > y}
           Sunk == {<<c[1], c[2] + 1>> : c \in {d \in b : d[2] < y}}
<1>1. y \in Nat /\ y < H /\ H \in Nat /\ W \in Nat /\ W > 0
  BY BoardAssumption DEF FullRows, Rows
<1>2. \A c \in b : c[1] \in Columns /\ c[2] \in Rows /\ c = <<c[1], c[2]>>
  BY DEF Cells
<1>3. ClearRow(b, y) = Stay \cup Sunk
  BY DEF ClearRow
<1>4. \A x \in Columns : \A z \in Rows : <<x, z>> \in Stay <=> z > y /\ <<x, z>> \in b
  BY <1>1 DEF Rows
<1>5. \A x \in Columns : \A z \in Rows :
        <<x, z>> \in Sunk <=> z <= y /\ <<x, z - 1>> \in b
  <2> SUFFICES ASSUME NEW x \in Columns, NEW z \in Rows
               PROVE  <<x, z>> \in Sunk <=> z <= y /\ <<x, z - 1>> \in b
    OBVIOUS
  <2>1. ASSUME <<x, z>> \in Sunk PROVE z <= y /\ <<x, z - 1>> \in b
    <3>1. PICK c \in b : c[2] < y /\ <<x, z>> = <<c[1], c[2] + 1>>
      BY <2>1
    <3>2. c = <<c[1], c[2]>> /\ c[2] \in Int
      BY <1>2 DEF Rows
    <3>3. x = c[1] /\ z = c[2] + 1
      BY <3>1
    <3>4. z - 1 = c[2] /\ z <= y
      BY <1>1, <3>1, <3>2, <3>3
    <3> QED BY <3>2, <3>3, <3>4
  <2>2. ASSUME z <= y, <<x, z - 1>> \in b PROVE <<x, z>> \in Sunk
    <3> DEFINE c == <<x, z - 1>>
    <3>1. c \in b /\ c[1] = x /\ c[2] = z - 1
      BY <2>2
    <3>2. c[2] < y /\ c[2] + 1 = z
      BY <1>1, <2>2, <3>1 DEF Rows
    <3> QED BY <3>1, <3>2
  <2> QED BY <2>1, <2>2
<1> HIDE DEF Stay, Sunk
<1>6. ClearRow(b, y) \subseteq Cells
  <2>1. Stay \subseteq Cells
    BY DEF Stay
  <2>2. Sunk \subseteq Cells
    <3> SUFFICES ASSUME NEW c \in b, c[2] < y
                 PROVE  <<c[1], c[2] + 1>> \in Cells
      BY DEF Sunk
    <3>1. c[1] \in Columns /\ c[2] + 1 \in Rows
      BY <1>1, <1>2 DEF Rows
    <3> QED BY <3>1 DEF Cells
  <2> QED BY <1>3, <2>1, <2>2
<1>7. ASSUME NEW z \in Rows
      PROVE  RowFull(ClearRow(b, y), z) <=> RowFull(b, z) /\ z # y
  <2>1. z \in Int /\ 0 \in Columns
    BY <1>1 DEF Rows, Columns
  <2>2. CASE z > y
    <3>1. \A x \in Columns : <<x, z>> \in ClearRow(b, y) <=> <<x, z>> \in b
      <4> SUFFICES ASSUME NEW x \in Columns
                   PROVE  <<x, z>> \in ClearRow(b, y) <=> <<x, z>> \in b
        OBVIOUS
      <4>1. ~ z <= y
        BY <1>1, <2>1, <2>2
      <4>2. (<<x, z>> \in Stay <=> <<x, z>> \in b) /\ <<x, z>> \notin Sunk
        BY <1>4, <1>5, <2>2, <4>1
      <4> QED BY <1>3, <4>2
    <3> QED BY <1>1, <2>1, <2>2, <3>1 DEF RowFull
  <2>3. CASE z <= y
    <3>1. ~ (RowFull(b, z) /\ z # y)
      BY <1>1, <2>1, <2>3 DEF FullRows
    <3>2. \A x \in Columns : <<x, z>> \in ClearRow(b, y) <=> <<x, z - 1>> \in b
      BY <1>1, <1>3, <1>4, <1>5, <2>1, <2>3
    <3>3. ASSUME RowFull(ClearRow(b, y), z) PROVE FALSE
      <4>1. \A x \in Columns : <<x, z - 1>> \in b
        BY <3>2, <3>3 DEF RowFull
      <4>2. <<0, z - 1>> \in b
        BY <2>1, <4>1
      <4>3. z - 1 \in Rows
        BY <1>2, <4>2
      <4>4. z - 1 \in FullRows(b)
        BY <4>1, <4>3 DEF FullRows, RowFull
      <4> QED BY <1>1, <2>1, <2>3, <4>4
    <3> QED BY <3>1, <3>3
  <2> QED BY <1>1, <2>1, <2>2, <2>3
<1>8. FullRows(ClearRow(b, y)) = FullRows(b) \ {y}
  BY <1>7 DEF FullRows
<1> QED BY <1>6, <1>8

\* Clearing the highest full row first changes nothing of what all the clears make:
\* the rows above it fall by one, and have one full row less below them.
LEMMA ClearTopSame ==
  ASSUME NEW b, b \subseteq Cells, NEW y \in FullRows(b), \A z \in FullRows(b) : y <= z
  PROVE  ClearFullRows(ClearRow(b, y)) = ClearFullRows(b)
<1> DEFINE n == ClearRow(b, y)
           Fall(d) == <<d[1], d[2] + Cardinality(FullRowsBelow(b, d[2]))>>
           Fell(d) == <<d[1], d[2] + Cardinality(FullRowsBelow(n, d[2]))>>
<1>1. n \subseteq Cells /\ FullRows(n) = FullRows(b) \ {y}
  BY ClearTopRows
<1>2. ClearFullRows(b) = {Fall(d) : d \in {e \in b : e[2] \notin FullRows(b)}}
  BY DEF ClearFullRows
<1>3. ClearFullRows(n) = {Fell(d) : d \in {e \in n : e[2] \notin FullRows(n)}}
  BY DEF ClearFullRows
<1>4. n = {c \in b : c[2] > y} \cup {<<c[1], c[2] + 1>> : c \in {d \in b : d[2] < y}}
  BY DEF ClearRow
<1>5. \A c \in b : c[1] \in Columns /\ c[2] \in Int /\ c = <<c[1], c[2]>>
  BY DEF Cells, Rows
<1>6. y \in Int /\ FullRows(b) \subseteq Int
  BY DEF FullRows, Rows
<1>7. /\ IsFiniteSet(FullRows(b)) /\ Cardinality(FullRows(b)) \in Nat
      /\ Cardinality(FullRows(b) \ {y}) = Cardinality(FullRows(b)) - 1
  BY BoardFinite, FS_RemoveElement
<1> HIDE DEF n
\* Below the row nothing changes.
<1>8. ASSUME NEW d \in b, d[2] > y
      PROVE  Fell(d) = Fall(d) /\ (d[2] \in FullRows(n) <=> d[2] \in FullRows(b))
  <2>1. FullRowsBelow(n, d[2]) = FullRowsBelow(b, d[2])
    BY <1>1, <1>5, <1>6, <1>8 DEF FullRowsBelow
  <2> QED BY <1>1, <1>5, <1>6, <1>8, <2>1
\* A row above falls by one now and by one less later.
<1>9. ASSUME NEW d \in b, d[2] < y
      PROVE  LET e == <<d[1], d[2] + 1>>
             IN  Fell(e) = Fall(d) /\ e[2] \notin FullRows(n) /\ d[2] \notin FullRows(b)
  <2> DEFINE e == <<d[1], d[2] + 1>>
  <2>1. d[2] \in Int /\ e[1] = d[1] /\ e[2] = d[2] + 1
    BY <1>5
  <2>2. d[2] \notin FullRows(b) /\ e[2] \notin FullRows(n)
    BY <1>1, <1>6, <1>9, <2>1
  <2>3. FullRowsBelow(b, d[2]) = FullRows(b)
    BY <1>6, <1>9, <2>1 DEF FullRowsBelow
  <2>4. FullRowsBelow(n, e[2]) = FullRows(b) \ {y}
    <3>1. \A r \in FullRows(b) \ {y} : r > e[2]
      BY <1>6, <1>9, <2>1
    <3> HIDE DEF e
    <3> QED BY <1>1, <3>1 DEF FullRowsBelow
  <2> HIDE DEF e
  <2>5. e[2] + Cardinality(FullRowsBelow(n, e[2]))
          = d[2] + Cardinality(FullRowsBelow(b, d[2]))
    <3>1. Cardinality(FullRowsBelow(n, e[2])) = Cardinality(FullRows(b)) - 1
      BY <1>7, <2>4
    <3>2. Cardinality(FullRowsBelow(b, d[2])) = Cardinality(FullRows(b))
      BY <2>3
    <3> QED BY <1>7, <2>1, <3>1, <3>2
  <2>6. Fell(e) = Fall(d)
    BY <2>1, <2>5
  <2> QED BY <2>2, <2>6 DEF e
<1>10. ASSUME NEW d \in b, d[2] \notin FullRows(b) PROVE d[2] > y \/ d[2] < y
  BY <1>5, <1>6, <1>10
<1> DEFINE OldRest == {e \in b : e[2] \notin FullRows(b)}
           NewRest  == {e \in n : e[2] \notin FullRows(n)}
<1> HIDE DEF Fall, Fell
<1>11. ASSUME NEW d \in OldRest PROVE \E e \in NewRest : Fell(e) = Fall(d)
  <2>1. CASE d[2] > y
    <3>1. d \in NewRest
      BY <1>4, <1>8, <2>1
    <3> QED BY <1>8, <2>1, <3>1
  <2>2. CASE d[2] < y
    <3> DEFINE e == <<d[1], d[2] + 1>>
    <3>1. e \in n
      BY <1>4, <2>2
    <3>2. e[2] \notin FullRows(n) /\ Fell(e) = Fall(d)
      BY <1>9, <2>2
    <3> HIDE DEF e
    <3> QED BY <3>1, <3>2
  <2> QED BY <1>10, <2>1, <2>2
<1>12. ASSUME NEW e \in NewRest PROVE \E d \in OldRest : Fell(e) = Fall(d)
  <2>1. CASE e \in b /\ e[2] > y
    <3>1. e \in OldRest
      BY <1>8, <2>1
    <3> QED BY <1>8, <2>1, <3>1
  <2>2. CASE \E d \in b : d[2] < y /\ e = <<d[1], d[2] + 1>>
    <3>1. PICK d \in b : d[2] < y /\ e = <<d[1], d[2] + 1>>
      BY <2>2
    <3>2. d[2] \notin FullRows(b) /\ Fell(e) = Fall(d)
      BY <1>9, <3>1
    <3> QED BY <3>2
  <2> QED BY <1>4, <2>1, <2>2
<1> HIDE DEF OldRest, NewRest
<1>13. {Fall(d) : d \in OldRest} = {Fell(e) : e \in NewRest}
  BY <1>11, <1>12
<1> QED BY <1>2, <1>3, <1>13 DEF OldRest, NewRest, n

\* Without a full row there is nothing to clear.
LEMMA ClearNothing ==
  ASSUME NEW b, b \subseteq Cells, FullRows(b) = {}
  PROVE  ClearFullRows(b) = b
<1>1. \A c \in b : FullRowsBelow(b, c[2]) = {}
  BY DEF FullRowsBelow
<1>2. \A c \in b : c = <<c[1], c[2] + 0>>
  BY DEF Cells, Rows
<1>3. \A c \in b : <<c[1], c[2] + Cardinality(FullRowsBelow(b, c[2]))>> = c
  BY <1>1, <1>2, FS_EmptySet
<1> QED BY <1>3 DEF ClearFullRows
-----------------------------------------------------------------------------
(* The two passes. *)

\* s lists the rows of S from the top.
Listed(s, S) ==
  /\ s \in Seq(Int) /\ IsFiniteSet(S) /\ Cardinality(S) = Len(s)
  /\ \A y \in S : \E i \in 1..Len(s) : s[i] = y
  /\ \A i \in 1..Len(s) : s[i] \in S
  /\ \A i, j \in 1..Len(s) : i < j => s[i] < s[j]

LEMMA ListedNone == Listed(<<>>, {})
BY FS_EmptySet DEF Listed

LEMMA ListedMore ==
  ASSUME NEW s, NEW S, Listed(s, S), NEW y \in Int, \A z \in S : z < y
  PROVE  Listed(Append(s, y), S \cup {y})
<1> DEFINE t == Append(s, y)
<1>1. s \in Seq(Int) /\ Len(s) \in Nat /\ y \notin S
  BY DEF Listed
<1>2. /\ t \in Seq(Int) /\ Len(t) = Len(s) + 1 /\ t[Len(s) + 1] = y
      /\ \A i \in 1..Len(s) : t[i] = s[i]
  BY <1>1
<1>3. IsFiniteSet(S \cup {y}) /\ Cardinality(S \cup {y}) = Len(t)
  BY <1>1, <1>2, FS_AddElement DEF Listed
<1> HIDE DEF t
<1>4. \A i \in 1..Len(t) : i \in 1..Len(s) \/ i = Len(s) + 1
  BY <1>1, <1>2
<1>5. ASSUME NEW z \in S \cup {y} PROVE \E i \in 1..Len(t) : t[i] = z
  <2>1. CASE z \in S
    <3>1. PICK i \in 1..Len(s) : s[i] = z
      BY <2>1 DEF Listed
    <3>2. i \in 1..Len(t) /\ t[i] = z
      BY <1>1, <1>2, <3>1
    <3> QED BY <3>2
  <2>2. CASE z = y
    <3>1. Len(s) + 1 \in 1..Len(t) /\ t[Len(s) + 1] = z
      BY <1>1, <1>2, <2>2
    <3> QED BY <3>1
  <2> QED BY <2>1, <2>2
<1>6. \A i \in 1..Len(t) : t[i] \in S \cup {y}
  BY <1>2, <1>4 DEF Listed
<1>7. ASSUME NEW i \in 1..Len(t), NEW j \in 1..Len(t), i < j PROVE t[i] < t[j]
  <2>1. i \in 1..Len(s)
    BY <1>1, <1>2, <1>7
  <2>2. t[i] = s[i] /\ s[i] \in S
    BY <1>2, <2>1 DEF Listed
  <2> QED BY <1>2, <1>4, <1>7, <2>1, <2>2 DEF Listed
<1> QED BY <1>2, <1>3, <1>5, <1>6, <1>7 DEF Listed, t

LEMMA ListedRest ==
  ASSUME NEW s, NEW S, Listed(s, S), s # <<>>
  PROVE  /\ Head(s) \in S /\ \A y \in S : Head(s) <= y
         /\ Listed(Tail(s), S \ {Head(s)}) /\ Len(Tail(s)) = Len(s) - 1
<1> DEFINE t == Tail(s)
           h == Head(s)
<1>1. s \in Seq(Int) /\ Len(s) \in Nat /\ Len(s) > 0 /\ 1 \in 1..Len(s)
  BY DEF Listed
<1>2. /\ h = s[1] /\ t \in Seq(Int) /\ Len(t) = Len(s) - 1
      /\ \A i \in 1..Len(t) : t[i] = s[i + 1]
  BY <1>1
<1> HIDE DEF t, h
<1>3. h \in S
  BY <1>1, <1>2 DEF Listed
<1>4. \A i \in 1..Len(s) : s[i] \in Int
  BY <1>1
<1>5. \A y \in S : h <= y
  <2> SUFFICES ASSUME NEW y \in S PROVE h <= y
    OBVIOUS
  <2>1. PICK i \in 1..Len(s) : s[i] = y
    BY DEF Listed
  <2>2. i = 1 \/ 1 < i
    BY <1>1
  <2> QED BY <1>1, <1>2, <1>4, <2>1, <2>2 DEF Listed
<1>6. IsFiniteSet(S \ {h}) /\ Cardinality(S \ {h}) = Len(t)
  BY <1>1, <1>2, <1>3, FS_RemoveElement DEF Listed
<1>7. ASSUME NEW y \in S \ {h} PROVE \E i \in 1..Len(t) : t[i] = y
  <2>1. PICK i \in 1..Len(s) : s[i] = y
    BY DEF Listed
  <2>2. i # 1
    BY <1>2, <2>1
  <2>3. i - 1 \in 1..Len(t) /\ (i - 1) + 1 = i
    BY <1>1, <1>2, <2>1, <2>2
  <2> QED BY <1>2, <2>1, <2>3
<1>8. ASSUME NEW i \in 1..Len(t) PROVE t[i] \in S \ {h}
  <2>1. i + 1 \in 1..Len(s) /\ 1 < i + 1
    BY <1>1, <1>2
  <2>2. s[1] < s[i + 1] /\ s[i + 1] \in S
    BY <1>1, <2>1 DEF Listed
  <2>3. s[1] # s[i + 1]
    BY <1>1, <1>4, <2>1, <2>2
  <2> QED BY <1>2, <2>2, <2>3
<1>9. ASSUME NEW i \in 1..Len(t), NEW j \in 1..Len(t), i < j PROVE t[i] < t[j]
  <2>1. i + 1 \in 1..Len(s) /\ j + 1 \in 1..Len(s) /\ i + 1 < j + 1
    BY <1>1, <1>2, <1>9
  <2> QED BY <1>2, <2>1 DEF Listed
<1> QED BY <1>2, <1>3, <1>5, <1>6, <1>7, <1>8, <1>9 DEF Listed, t, h

\* Rows that are full above the row the first pass is at.
FullAbove(y) == {z \in FullRows(board) : z < y}

ClearInv ==
  /\ board \subseteq Cells /\ locked \subseteq Cells
  /\ phase \in {"lock", "collect", "clear", "done"}
  /\ phase = "lock" =>
       /\ FullRows(board) = {} /\ locked = board \cup CellsOf(piece)
       /\ pending = <<>> /\ row = 0 /\ lines = 0
  /\ phase = "collect" =>
       board = locked /\ lines = 0 /\ row \in Rows /\ Listed(pending, FullAbove(row))
  /\ phase = "clear" =>
       /\ lines \in Nat /\ Listed(pending, FullRows(board))
       /\ ClearFullRows(board) = ClearFullRows(locked)
       /\ lines + Len(pending) = Cardinality(FullRows(locked))
  /\ phase = "done" =>
       board = ClearFullRows(locked) /\ lines = Cardinality(FullRows(locked))

LEMMA PieceOnBoard ==
  ASSUME NEW b, NEW p, Fits(b, p)
  PROVE  CellsOf(p) \subseteq Cells
  BY DEF Fits, CellsOf

LEMMA ClearStarts == ClearInit => ClearInv
<1> SUFFICES ASSUME ClearInit PROVE ClearInv
  OBVIOUS
<1>1. board \subseteq Cells /\ FullRows(board) = {} /\ Fits(board, piece)
  BY DEF ClearInit, Placements
<1>2. CellsOf(piece) \subseteq Cells
  BY <1>1, PieceOnBoard
<1> QED BY <1>1, <1>2 DEF ClearInit, ClearInv

LEMMA CollectKeeps == ClearInv /\ CollectRow => ClearInv'
<1> SUFFICES ASSUME ClearInv, CollectRow PROVE ClearInv'
  OBVIOUS
<1>1. /\ phase = "collect" /\ row' = row + 1
      /\ pending' = (IF RowFull(board, row) THEN Append(pending, row) ELSE pending)
      /\ phase' = (IF row' = H THEN "clear" ELSE phase)
      /\ board' = board /\ lines' = lines /\ locked' = locked
  BY DEF CollectRow
<1>2. /\ board \subseteq Cells /\ board = locked /\ lines = 0 /\ row \in Rows
      /\ Listed(pending, FullAbove(row))
  BY <1>1 DEF ClearInv
<1>3. H \in Nat /\ row \in Int /\ row >= 0 /\ row < H
  BY <1>2, BoardAssumption DEF Rows
<1>4. FullRows(board) \subseteq Rows /\ \A z \in Rows : z \in Int
  BY DEF FullRows, Rows
<1>5. Listed(pending', FullAbove(row + 1))
  <2>0. \A z \in FullRows(board) : z < row + 1 <=> z < row \/ z = row
    BY <1>3, <1>4
  <2>1. CASE RowFull(board, row)
    <3>1. FullAbove(row + 1) = FullAbove(row) \cup {row}
      <4>1. row \in FullRows(board)
        BY <1>2, <2>1 DEF FullRows
      <4> QED BY <2>0, <4>1 DEF FullAbove
    <3>2. \A z \in FullAbove(row) : z < row
      BY DEF FullAbove
    <3> QED BY <1>1, <1>2, <1>3, <2>1, <3>1, <3>2, ListedMore
  <2>2. CASE ~ RowFull(board, row)
    <3>1. FullAbove(row + 1) = FullAbove(row)
      <4>1. row \notin FullRows(board)
        BY <2>2 DEF FullRows
      <4> QED BY <2>0, <4>1 DEF FullAbove
    <3> QED BY <1>1, <1>2, <2>2, <3>1
  <2> QED BY <2>1, <2>2
<1>6. CASE row' = H
  <2>1. FullAbove(row + 1) = FullRows(board)
    BY <1>1, <1>3, <1>4, <1>6 DEF FullAbove, Rows
  <2>2. Len(pending') = Cardinality(FullRows(board)) /\ Len(pending') \in Nat
    BY <1>5, <2>1 DEF Listed
  <2> QED BY <1>1, <1>2, <1>5, <1>6, <2>1, <2>2 DEF ClearInv
<1>7. CASE row' # H
  <2>1. row' \in Rows
    BY <1>1, <1>3, <1>7 DEF Rows
  <2>2. FullAbove(row + 1) = FullAbove(row)'
    BY <1>1 DEF FullAbove
  <2> QED BY <1>1, <1>2, <1>5, <1>7, <2>1, <2>2 DEF ClearInv
<1> QED BY <1>6, <1>7

LEMMA ClearKeeps == ClearInv /\ ClearNextRow => ClearInv'
<1> SUFFICES ASSUME ClearInv, ClearNextRow PROVE ClearInv'
  OBVIOUS
<1>1. /\ phase = "clear" /\ pending # <<>> /\ board' = ClearRow(board, Head(pending))
      /\ pending' = Tail(pending) /\ lines' = lines + 1
      /\ phase' = phase /\ locked' = locked
  BY DEF ClearNextRow
<1>2. /\ board \subseteq Cells /\ locked \subseteq Cells /\ lines \in Nat
      /\ Listed(pending, FullRows(board))
      /\ ClearFullRows(board) = ClearFullRows(locked)
      /\ lines + Len(pending) = Cardinality(FullRows(locked))
  BY <1>1 DEF ClearInv
<1>3. /\ Head(pending) \in FullRows(board)
      /\ \A y \in FullRows(board) : Head(pending) <= y
      /\ Listed(pending', FullRows(board) \ {Head(pending)})
      /\ Len(pending') = Len(pending) - 1 /\ Len(pending) \in Nat
  <2>1. Len(pending) \in Nat
    BY <1>2 DEF Listed
  <2> QED BY <1>1, <1>2, <2>1, ListedRest
<1>4. /\ board' \subseteq Cells /\ FullRows(board') = FullRows(board) \ {Head(pending)}
      /\ ClearFullRows(board') = ClearFullRows(board)
  BY <1>1, <1>2, <1>3, ClearTopRows, ClearTopSame
<1>5. lines' + Len(pending') = Cardinality(FullRows(locked)) /\ lines' \in Nat
  BY <1>1, <1>2, <1>3
<1>6. FullRows(board)' = FullRows(board') /\ ClearFullRows(board)' = ClearFullRows(board')
  OBVIOUS
<1> QED BY <1>1, <1>2, <1>3, <1>4, <1>5, <1>6 DEF ClearInv

LEMMA FinishKeeps == ClearInv /\ Finish => ClearInv'
<1> SUFFICES ASSUME ClearInv, Finish PROVE ClearInv'
  OBVIOUS
<1>1. /\ phase = "clear" /\ pending = <<>> /\ phase' = "done"
      /\ board' = board /\ lines' = lines /\ locked' = locked
  BY DEF Finish
<1>2. /\ board \subseteq Cells /\ lines \in Nat /\ Listed(<<>>, FullRows(board))
      /\ ClearFullRows(board) = ClearFullRows(locked)
      /\ lines + Len(pending) = Cardinality(FullRows(locked))
  BY <1>1 DEF ClearInv
<1>3. FullRows(board) = {}
  BY <1>2 DEF Listed
<1>4. board = ClearFullRows(locked)
  BY <1>2, <1>3, ClearNothing
<1>5. lines = Cardinality(FullRows(locked))
  BY <1>1, <1>2
<1> QED BY <1>1, <1>4, <1>5 DEF ClearInv

LEMMA ClearStep == ClearInv /\ [ClearNext]_clearVars => ClearInv'
<1> SUFFICES ASSUME ClearInv, [ClearNext]_clearVars PROVE ClearInv'
  OBVIOUS
<1>1. CASE LockCells
  <2>1. /\ phase = "lock" /\ phase' = "collect" /\ board' = board \cup CellsOf(piece)
        /\ pending' = pending /\ row' = row /\ lines' = lines /\ locked' = locked
    BY <1>1 DEF LockCells
  <2>2. /\ locked \subseteq Cells /\ locked = board \cup CellsOf(piece)
        /\ pending = <<>> /\ row = 0 /\ lines = 0
    BY <2>1 DEF ClearInv
  <2>3. 0 \in Rows
    BY BoardAssumption DEF Rows
  <2>4. FullAbove(row)' = {}
    BY <2>1, <2>2 DEF FullAbove, FullRows, Rows
  <2> QED BY <2>1, <2>2, <2>3, <2>4, ListedNone DEF ClearInv
<1>2. CASE CollectRow
  BY <1>2, CollectKeeps
<1>3. CASE ClearNextRow
  BY <1>3, ClearKeeps
<1>4. CASE Finish
  BY <1>4, FinishKeeps
<1>5. CASE UNCHANGED clearVars
  <2>1. FullAbove(row)' = FullAbove(row)
    BY <1>5 DEF clearVars, FullAbove
  <2> QED BY <1>5, <2>1 DEF ClearInv, clearVars
<1> QED BY <1>1, <1>2, <1>3, <1>4, <1>5 DEF ClearNext

LEMMA AlwaysClearing == ClearSpec => []ClearInv
BY ClearStarts, ClearStep, PTL DEF ClearSpec

\* The instance speaks of the same rows.
LEMMA SameRows == \A b : /\ Atomic!FullRows(b) = FullRows(b)
                         /\ Atomic!ClearFullRows(b) = ClearFullRows(b)
                         /\ Atomic!Cells = Cells
                         /\ Atomic!Cardinality(b) = Cardinality(b)
<1>1. Atomic!Cells = Cells /\ Atomic!Columns = Columns /\ Atomic!Rows = Rows
  BY DEF Atomic!Cells, Cells, Atomic!Rows, Rows, Atomic!Columns, Columns
<1>2. \A b : Atomic!FullRows(b) = FullRows(b)
  BY <1>1 DEF Atomic!FullRows, FullRows, Atomic!RowFull, RowFull
<1>3. \A b, y : Atomic!FullRowsBelow(b, y) = FullRowsBelow(b, y)
  BY <1>2 DEF Atomic!FullRowsBelow, FullRowsBelow
<1>4. \A S : Atomic!Cardinality(S) = Cardinality(S)
  BY DEF Atomic!Cardinality, Cardinality
<1>5. \A b : Atomic!ClearFullRows(b) = ClearFullRows(b)
  BY <1>2, <1>3, <1>4 DEF Atomic!ClearFullRows, ClearFullRows
<1> QED BY <1>1, <1>2, <1>4, <1>5

\* Board::clear_full_rows: the loop over clear_row makes all full rows vanish at once,
\* on boards of every size: clearing from the top never disturbs a row still to be cleared.
THEOREM LoopClearsAtOnce == ClearSpec => ClearsAtOnce
<1> DEFINE field == IF phase = "done" THEN board ELSE locked
           gone  == IF phase = "done" THEN lines ELSE 0
<1>1. ClearInit => Atomic!Init
  <2> SUFFICES ASSUME ClearInit PROVE Atomic!Init
    OBVIOUS
  <2>1. ClearInv /\ phase = "lock"
    BY ClearStarts DEF ClearInit
  <2> QED BY <2>1, SameRows DEF Atomic!Init, ClearInv
<1>2. ClearInv /\ [ClearNext]_clearVars => [Atomic!Clear]_<<field, gone>>
  <2> SUFFICES ASSUME ClearInv, [ClearNext]_clearVars
               PROVE  Atomic!Clear \/ (field' = field /\ gone' = gone)
    OBVIOUS
  <2>1. CASE Finish
    <3>1. /\ phase = "clear" /\ phase' = "done" /\ locked' = locked
      BY <2>1 DEF Finish
    <3>2. /\ board' = ClearFullRows(locked) /\ lines' = Cardinality(FullRows(locked))
          /\ locked \subseteq Cells
      BY <2>1, <3>1, FinishKeeps DEF ClearInv
    <3>3. CASE FullRows(locked) = {}
      <4>1. board' = locked /\ lines' = 0
        BY <3>2, <3>3, ClearNothing, FS_EmptySet
      <4> QED BY <3>1, <4>1
    <3>4. CASE FullRows(locked) # {}
      <4>1. field = locked /\ field' = board' /\ gone' = lines'
        BY <3>1
      <4> HIDE DEF field, gone
      <4>2. /\ Atomic!FullRows(field) # {} /\ field' = Atomic!ClearFullRows(field)
            /\ gone' = Atomic!Cardinality(Atomic!FullRows(field))
        BY <3>2, <3>4, <4>1, SameRows
      <4> QED BY <4>2 DEF field, gone, Atomic!Clear
    <3> QED BY <3>3, <3>4
  <2>2. CASE LockCells
    BY <2>2 DEF LockCells
  <2>3. CASE CollectRow
    BY <2>3 DEF CollectRow
  <2>4. CASE ClearNextRow
    BY <2>4 DEF ClearNextRow
  <2>5. CASE UNCHANGED clearVars
    BY <2>5 DEF clearVars
  <2> QED BY <2>1, <2>2, <2>3, <2>4, <2>5 DEF ClearNext
<1> QED BY <1>1, <1>2, AlwaysClearing, PTL DEF ClearSpec, ClearsAtOnce, Atomic!Spec
-----------------------------------------------------------------------------
(* What a clear scores. *)

\* The rows a lock fills are rows of the piece.
RowsOf(p) == {p.y + m[2] : m \in Shape(p.kind, p.rotation)}

ScoreInv ==
  /\ piece \in AnyPiece /\ FullRows(locked) \subseteq RowsOf(piece)
  /\ phase # "lock" =>
       tspin = IF piece.kind = "T" THEN TSpinKind(rotated, locked, piece) ELSE "None"

LEMMA OwnRows ==
  ASSUME NEW b, NEW p, FullRows(b) = {}
  PROVE  FullRows(b \cup CellsOf(p)) \subseteq RowsOf(p)
<1> SUFFICES ASSUME NEW y \in FullRows(b \cup CellsOf(p)) PROVE y \in RowsOf(p)
  OBVIOUS
<1>1. y \in Rows /\ ~ RowFull(b, y)
  BY DEF FullRows
<1>2. PICK x \in Columns : <<x, y>> \notin b
  BY <1>1 DEF RowFull
<1>3. <<x, y>> \in CellsOf(p)
  BY <1>2 DEF FullRows, RowFull
<1> QED BY <1>3 DEF CellsOf, RowsOf

\* The T covers three rows at most.
LEMMA TRows ==
  ASSUME NEW r \in Rotations, NEW m \in Shape("T", r)
  PROVE  m[2] \in 0..2
<1>1. Shape("T", r) = TShape[r + 1]
  BY DEF Shape, Shapes
<1>2. r + 1 = 1 \/ r + 1 = 2 \/ r + 1 = 3 \/ r + 1 = 4
  BY DEF Rotations
<1>3. \A i \in 1..4 : \A c \in TShape[i] : c[2] \in 0..2
  BY DEF TShape
<1> QED BY <1>1, <1>2, <1>3

LEMMA FewRows ==
  ASSUME NEW p \in AnyPiece, NEW S, S \subseteq RowsOf(p)
  PROVE  /\ IsFiniteSet(S) /\ Cardinality(S) \in 0..4
         /\ p.kind = "T" =>
              /\ Cardinality(S) \in 0..3
              /\ Cardinality(S) = 3 => p.y \in S /\ p.y + 2 \in S
<1>1. p.y \in Int /\ p.kind \in AllKinds /\ p.rotation \in Rotations
  BY DEF AnyPiece
<1>2. RowsOf(p) \subseteq p.y .. p.y + 3
  BY <1>1, ShapesOK DEF RowsOf
<1>3. IsFiniteSet(p.y .. p.y + 3) /\ Cardinality(p.y .. p.y + 3) = 4
  BY <1>1, FS_Interval
<1>4. IsFiniteSet(S) /\ Cardinality(S) \in 0..4
  <2>1. S \in SUBSET (p.y .. p.y + 3)
    BY <1>2
  <2>2. IsFiniteSet(S) /\ Cardinality(S) <= Cardinality(p.y .. p.y + 3)
    BY <1>3, <2>1, FS_Subset
  <2> QED BY <1>3, <2>2, FS_CardinalityType
<1>5. ASSUME p.kind = "T"
      PROVE  Cardinality(S) \in 0..3 /\ (Cardinality(S) = 3 => p.y \in S /\ p.y + 2 \in S)
  <2>1. RowsOf(p) \subseteq p.y .. p.y + 2
    BY <1>1, <1>5, TRows DEF RowsOf
  <2>2. IsFiniteSet(p.y .. p.y + 2) /\ Cardinality(p.y .. p.y + 2) = 3
    BY <1>1, FS_Interval
  <2>3. Cardinality(S) <= 3 /\ (Cardinality(S) = 3 => S = p.y .. p.y + 2)
    BY <2>1, <2>2, FS_Subset
  <2> QED BY <1>1, <1>4, <2>3
<1> QED BY <1>4, <1>5

\* With all three rows full, every corner of the T is: none of its spins is a mini.
LEMMA ThreeRowsFull ==
  ASSUME NEW b, NEW p \in AnyPiece, NEW turned,
         p.y \in FullRows(b), p.y + 2 \in FullRows(b)
  PROVE  TSpinKind(turned, b, p) # "Mini"
<1> DEFINE front == FrontCorners[p.rotation + 1]
<1>1. p.rotation + 1 = 1 \/ p.rotation + 1 = 2 \/ p.rotation + 1 = 3 \/ p.rotation + 1 = 4
  BY DEF AnyPiece, Rotations
<1>2. \A c \in front : c[2] = 0 \/ c[2] = 2
  BY <1>1 DEF FrontCorners
<1>3. p.y \in Int
  BY DEF AnyPiece
<1> HIDE DEF front
<1>4. ASSUME NEW c \in front PROVE <<p.x + c[1], p.y + c[2]>> \notin Cells \ b
  <2>1. p.y + c[2] \in FullRows(b)
    BY <1>2, <1>3
  <2> QED BY <2>1 DEF FullRows, RowFull, Cells
<1>5. Blocked(b, p, front) = front
  BY <1>4 DEF Blocked
<1> QED BY <1>5 DEF TSpinKind, front

\* Every line clear there is has points at level 0.
LEMMA EveryClearScores ==
  ASSUME NEW n \in 1..4, NEW tspin_ \in TSpinKinds,
         tspin_ = "Mini" => n <= 2, tspin_ = "Full" => n <= 3
  PROVE  LineClearScore(n, 0, tspin_, FALSE) > 0
<1>1. SatAdd(0, 1) = 1
  BY ScoringAssumption DEF SatAdd
<1>2. \A a \in Nat \ {0} : SatMul(a, 1) > 0
  BY ScoringAssumption DEF SatMul
<1>3. ASSUME tspin_ = "None" PROVE LineScore(n, 0) > 0
  <2>1. LINE_SCORES[n] \in Nat \ {0}
    BY DEF LINE_SCORES
  <2> QED BY <1>1, <1>2, <2>1 DEF LineScore
<1>4. ASSUME tspin_ # "None" PROVE TSpinScore(tspin_, n, 0) > 0
  <2>1. TSpinBase(tspin_, n) \in Nat \ {0}
    BY <1>4 DEF TSpinBase, TSpinKinds
  <2> QED BY <1>1, <1>2, <2>1 DEF TSpinScore
<1> QED BY <1>3, <1>4 DEF LineClearScore

LEMMA ScoreStarts == ClearInit => ScoreInv
<1> SUFFICES ASSUME ClearInit PROVE ScoreInv
  OBVIOUS
<1>1. /\ phase = "lock" /\ FullRows(board) = {} /\ locked = board \cup CellsOf(piece)
      /\ piece \in [kind : PlayKinds, rotation : Rotations, x : -2 .. W, y : 0 .. H]
  BY DEF ClearInit, Placements
<1>2. piece \in AnyPiece
  BY <1>1, ClearRowsAssumption, BoardAssumption DEF AnyPiece
<1> QED BY <1>1, <1>2, OwnRows DEF ScoreInv

LEMMA ScoreStep == ClearInv /\ ScoreInv /\ [ClearNext]_clearVars => ScoreInv'
<1> SUFFICES ASSUME ClearInv, ScoreInv, [ClearNext]_clearVars PROVE ScoreInv'
  OBVIOUS
<1>1. piece' = piece /\ rotated' = rotated /\ locked' = locked
  BY DEF ClearNext, LockCells, CollectRow, ClearNextRow, Finish, clearVars
<1>2. RowsOf(piece)' = RowsOf(piece) /\ FullRows(locked)' = FullRows(locked)
  BY <1>1 DEF RowsOf
<1>3. CASE LockCells
  <2>1. /\ board' = locked
        /\ tspin' = IF piece.kind = "T" THEN TSpinKind(rotated, board', piece) ELSE "None"
    BY <1>3 DEF LockCells, ClearInv
  <2> QED BY <1>1, <1>2, <2>1 DEF ScoreInv
<1>4. CASE ~ LockCells
  <2>1. tspin' = tspin /\ (phase' # "lock" => phase # "lock")
    BY <1>4 DEF ClearNext, CollectRow, ClearNextRow, Finish, clearVars
  <2> QED BY <1>1, <1>2, <2>1 DEF ScoreInv
<1> QED BY <1>3, <1>4

\* calculate_score: no lock meets the zero defaults of the score tables, on boards of
\* every size: a lock clears rows of its piece only, four at most, a T three at most, and a
\* T that fills three rows has all its corners blocked, which is never a mini.
THEOREM ClearsAlwaysScore == ClearSpec => []ClearAlwaysScores
<1>1. ClearInv /\ ScoreInv => ClearAlwaysScores
  <2> SUFFICES ASSUME ClearInv, ScoreInv, phase = "done", lines > 0
               PROVE  LineClearScore(lines, 0, tspin, FALSE) > 0
    BY DEF ClearAlwaysScores
  <2>1. /\ lines = Cardinality(FullRows(locked)) /\ piece \in AnyPiece
        /\ FullRows(locked) \subseteq RowsOf(piece)
        /\ tspin = IF piece.kind = "T" THEN TSpinKind(rotated, locked, piece) ELSE "None"
    BY DEF ClearInv, ScoreInv
  <2>2. /\ lines \in 0..4
        /\ piece.kind = "T" => /\ lines \in 0..3
                               /\ lines = 3 => /\ piece.y \in FullRows(locked)
                                               /\ piece.y + 2 \in FullRows(locked)
    BY <2>1, FewRows
  <2>3. tspin \in TSpinKinds
    BY <2>1 DEF TSpinKind, TSpinKinds
  <2>4. tspin = "Mini" => lines <= 2
    BY <2>1, <2>2, ThreeRowsFull
  <2>5. tspin = "Full" => lines <= 3
    BY <2>1, <2>2
  <2>6. lines \in 1..4
    BY <2>2
  <2> QED BY <2>3, <2>4, <2>5, <2>6, EveryClearScores
<1> QED BY <1>1, ClearStarts, ClearStep, ScoreStarts, ScoreStep, PTL DEF ClearSpec
-----------------------------------------------------------------------------
(* The observer: what is shown. *)

\* Whatever is read is drawn before the next wait for the terminal.
ShownInv ==
  /\ stage = "loop" /\ ~ dirty => drawn = <<latest, snap>>
  /\ ShownIsNewest
  /\ dirty \in BOOLEAN

\* run_observe: when the loop waits for the terminal, the screen shows the newest
\* observation read and its status lines, after however many reconnections.
THEOREM AlwaysShownNewest == ObserveInit /\ [][ObserveNext]_observeVars => []ShownIsNewest
<1>1. ObserveInit => ShownInv
  BY DEF ObserveInit, ShownInv, ShownIsNewest
<1>2. ShownInv /\ [ObserveNext]_observeVars => ShownInv'
  <2> SUFFICES ASSUME ShownInv, [ObserveNext]_observeVars PROVE ShownInv'
    OBVIOUS
  <2> USE DEF ShownInv, ShownIsNewest
  <2>1. CASE Adapter
    <3>1. UNCHANGED loopVars
      BY <2>1 DEF Adapter, Greet, SendObservation, ReportError, HangUp, GoUpOrDown
    <3> QED BY <3>1 DEF loopVars
  <2>2. CASE Refused
    BY <2>2 DEF Refused, AttemptFailed
  <2>3. CASE Connect
    BY <2>3 DEF Connect
  <2>4. CASE AwaitWelcome
    BY <2>4 DEF AwaitWelcome, AttemptFailed, Accepted
  <2>5. CASE WelcomeTimeout
    BY <2>5 DEF WelcomeTimeout, AttemptFailed, Accepted
  <2>6. CASE ReadEvent
    BY <2>6 DEF ReadEvent
  <2>7. CASE DrawNewest
    BY <2>7 DEF DrawNewest
  <2>8. CASE PollKeys
    BY <2>8 DEF PollKeys
  <2>9. CASE UNCHANGED observeVars
    BY <2>9 DEF observeVars
  <2> QED BY <2>1, <2>2, <2>3, <2>4, <2>5, <2>6, <2>7, <2>8, <2>9 DEF ObserveNext, Observer
<1>3. ShownInv => ShownIsNewest
  BY DEF ShownInv
<1> QED BY <1>1, <1>2, <1>3, PTL

-----------------------------------------------------------------------------
(* The observer: what is shown moves on. *)

Moments == Nat \X Nat
Occurrences == [kind : {"welcome", "obs", "error", "closed"}, obs : Moments]
Links == [open : BOOLEAN, greeted : BOOLEAN, sent : Nat, events : Seq(Occurrences)]

\* What waits in the channel of connection c, l, is its own and in the order it was sent.
InOrder(c, l) ==
  LET s == l.events
  IN  /\ \A i \in 1..Len(s) : s[i].kind = "obs" =>
           s[i].obs[1] = c /\ s[i].obs[2] > 0 /\ s[i].obs[2] <= l.sent
      /\ \A i, j \in 1..Len(s) : i < j /\ s[i].kind = "obs" /\ s[j].kind = "obs" =>
           s[i].obs[2] < s[j].obs[2]

\* All that waits there, and all that is still to be sent, is newer than o.
Ahead(c, l, o) ==
  \/ o[1] < c
  \/ /\ o[1] = c /\ o[2] <= l.sent
     /\ \A i \in 1..Len(l.events) : l.events[i].kind = "obs" => o[2] < l.events[i].obs[2]

MovesInv ==
  /\ links \in Seq(Links) /\ rx \in 0..Len(links) /\ snap \in Moments
  /\ \A c \in 1..Len(links) : InOrder(c, links[c])
  /\ rx = 0 => snap = None
  /\ rx # 0 => Ahead(rx, links[rx], snap)
  /\ stage = "greet" =>
       /\ rx < Len(links) /\ got.obs \in Moments
       /\ got.obs # None => /\ got.obs[1] = Len(links)
                            /\ Ahead(Len(links), links[Len(links)], got.obs)
  /\ stage \in {"loop", "poll"} => rx > 0
  /\ drawn # <<>> => drawn[2] \in Moments /\ ~ Before(snap, drawn[2])

LEMMA BeforeOrder ==
  /\ \A a \in Moments : ~ Before(a, a)
  /\ \A a, b, c \in Moments : ~ Before(a, b) /\ ~ Before(b, c) => ~ Before(a, c)
BY DEF Moments, Before

LEMMA LinkParts ==
  ASSUME NEW l \in Links
  PROVE  /\ l.sent \in Nat /\ l.events \in Seq(Occurrences) /\ Len(l.events) \in Nat
         /\ \A i \in 1..Len(l.events) :
              l.events[i] \in Occurrences /\ l.events[i].obs[1] \in Nat /\ l.events[i].obs[2] \in Nat
<1>1. l.sent \in Nat /\ l.events \in Seq(Occurrences) /\ Len(l.events) \in Nat
  BY DEF Links
<1>2. \A e \in Occurrences : e.obs[1] \in Nat /\ e.obs[2] \in Nat
  BY DEF Occurrences, Moments
<1>3. \A i \in 1..Len(l.events) : l.events[i] \in Occurrences
  BY <1>1
<1> QED BY <1>1, <1>2, <1>3

\* An event at the end of a channel.
LEMMA MoreInOrder ==
  ASSUME NEW c \in Nat, NEW l \in Links, InOrder(c, l), NEW m \in Links,
         NEW e \in Occurrences, m.events = Append(l.events, e),
         \/ m.sent = l.sent /\ e.kind # "obs"
         \/ m.sent = l.sent + 1 /\ e.obs = <<c, l.sent + 1>>
  PROVE  InOrder(c, m) /\ \A o \in Moments : Ahead(c, l, o) => Ahead(c, m, o)
<1> DEFINE s == l.events
           t == m.events
<1>1. /\ s \in Seq(Occurrences) /\ Len(s) \in Nat /\ l.sent \in Nat /\ m.sent \in Nat
      /\ m.sent >= l.sent
  BY LinkParts
<1>2. Len(t) = Len(s) + 1 /\ t[Len(s) + 1] = e /\ \A i \in 1..Len(s) : t[i] = s[i]
  BY <1>1
<1>3. \A i \in 1..Len(t) : i \in 1..Len(s) \/ i = Len(s) + 1
  BY <1>1, <1>2
<1>4. \A i \in 1..Len(s) : /\ s[i].obs[2] \in Nat
                           /\ s[i].kind = "obs" => /\ s[i].obs[1] = c /\ s[i].obs[2] > 0
                                                   /\ s[i].obs[2] <= l.sent
  BY LinkParts DEF InOrder
<1>5. e.kind = "obs" => e.obs[1] = c /\ e.obs[2] = l.sent + 1 /\ m.sent = l.sent + 1
  OBVIOUS
<1>6. \A i, j \in 1..Len(s) : i < j /\ s[i].kind = "obs" /\ s[j].kind = "obs" =>
        s[i].obs[2] < s[j].obs[2]
  BY DEF InOrder
<1>7. ASSUME NEW o \in Moments, Ahead(c, l, o) PROVE Ahead(c, m, o)
  <2>1. o[2] \in Nat
    BY DEF Moments
  <2>2. CASE o[1] < c
    BY <2>2 DEF Ahead
  <2>3. CASE ~ o[1] < c
    <3>1. /\ o[1] = c /\ o[2] <= l.sent
          /\ \A i \in 1..Len(s) : s[i].kind = "obs" => o[2] < s[i].obs[2]
      BY <1>7, <2>3 DEF Ahead
    <3> HIDE DEF s, t
    <3>2. ASSUME NEW i \in 1..Len(t), t[i].kind = "obs" PROVE o[2] < t[i].obs[2]
      <4>1. CASE i \in 1..Len(s)
        BY <1>2, <3>1, <3>2, <4>1
      <4>2. CASE i = Len(s) + 1
        BY <1>1, <1>2, <1>5, <2>1, <3>1, <3>2, <4>2
      <4> QED BY <1>3, <4>1, <4>2
    <3>3. o[2] <= m.sent
      BY <1>1, <2>1, <3>1
    <3> QED BY <3>1, <3>2, <3>3 DEF Ahead, t
  <2> QED BY <2>2, <2>3
<1> HIDE DEF s, t
<1>8. ASSUME NEW i \in 1..Len(t), t[i].kind = "obs"
      PROVE  t[i].obs[1] = c /\ t[i].obs[2] > 0 /\ t[i].obs[2] <= m.sent
  <2>1. CASE i \in 1..Len(s)
    BY <1>1, <1>2, <1>4, <1>8, <2>1
  <2>2. CASE i = Len(s) + 1
    BY <1>1, <1>2, <1>5, <1>8, <2>2
  <2> QED BY <1>3, <2>1, <2>2
<1>9. ASSUME NEW i \in 1..Len(t), NEW j \in 1..Len(t), i < j,
             t[i].kind = "obs", t[j].kind = "obs"
      PROVE  t[i].obs[2] < t[j].obs[2]
  <2>1. i \in 1..Len(s) /\ t[i] = s[i]
    BY <1>1, <1>2, <1>9
  <2>2. CASE j \in 1..Len(s)
    BY <1>2, <1>6, <1>9, <2>1, <2>2
  <2>3. CASE j = Len(s) + 1
    BY <1>1, <1>2, <1>4, <1>5, <1>9, <2>1, <2>3
  <2> QED BY <1>3, <2>2, <2>3
<1> QED BY <1>7, <1>8, <1>9 DEF InOrder, t

\* The first event of a channel is read.
LEMMA RestInOrder ==
  ASSUME NEW c \in Nat, NEW l \in Links, InOrder(c, l), NEW m \in Links,
         l.events # <<>>, m.events = Tail(l.events), m.sent = l.sent
  PROVE  /\ InOrder(c, m) /\ Head(l.events) \in Occurrences
         /\ \A o \in Moments : Ahead(c, l, o) => Ahead(c, m, o)
         /\ LET first == Head(l.events).obs
            IN  Head(l.events).kind = "obs" =>
                  /\ first \in Moments /\ first # None /\ first[1] = c /\ Ahead(c, m, first)
                  /\ \A o \in Moments : Ahead(c, l, o) => ~ Before(first, o)
<1> DEFINE s == l.events
           t == m.events
           h == Head(s)
<1>1. /\ s \in Seq(Occurrences) /\ Len(s) \in Nat /\ 1 \in 1..Len(s) /\ l.sent \in Nat
  BY LinkParts
<1>2. h = s[1] /\ Len(t) = Len(s) - 1 /\ \A i \in 1..Len(t) : t[i] = s[i + 1]
  BY <1>1
<1>3. \A i \in 1..Len(t) : i + 1 \in 1..Len(s) /\ 1 < i + 1
  BY <1>1, <1>2
<1>4. \A i \in 1..Len(s) : /\ s[i].obs[2] \in Nat /\ s[i] \in Occurrences
                           /\ s[i].kind = "obs" => /\ s[i].obs[1] = c /\ s[i].obs[2] > 0
                                                   /\ s[i].obs[2] <= l.sent
  BY LinkParts DEF InOrder
<1>5. \A i, j \in 1..Len(s) : i < j /\ s[i].kind = "obs" /\ s[j].kind = "obs" =>
        s[i].obs[2] < s[j].obs[2]
  BY DEF InOrder
<1>6. ASSUME NEW o \in Moments, Ahead(c, l, o) PROVE Ahead(c, m, o)
  <2>1. CASE o[1] < c
    BY <2>1 DEF Ahead
  <2>2. CASE ~ o[1] < c
    <3>1. /\ o[1] = c /\ o[2] <= l.sent
          /\ \A i \in 1..Len(s) : s[i].kind = "obs" => o[2] < s[i].obs[2]
      BY <1>6, <2>2 DEF Ahead
    <3> HIDE DEF s, t
    <3>2. \A i \in 1..Len(t) : t[i].kind = "obs" => o[2] < t[i].obs[2]
      BY <1>2, <1>3, <3>1
    <3> QED BY <3>1, <3>2 DEF Ahead, t
  <2> QED BY <2>1, <2>2
<1> HIDE DEF s, t, h
<1>7. InOrder(c, m)
  <2>1. \A i \in 1..Len(t) : t[i].kind = "obs" =>
          t[i].obs[1] = c /\ t[i].obs[2] > 0 /\ t[i].obs[2] <= l.sent
    BY <1>2, <1>3, <1>4
  <2>2. ASSUME NEW i \in 1..Len(t), NEW j \in 1..Len(t), i < j,
               t[i].kind = "obs", t[j].kind = "obs"
        PROVE  t[i].obs[2] < t[j].obs[2]
    <3>1. i + 1 < j + 1 /\ i + 1 \in 1..Len(s) /\ j + 1 \in 1..Len(s)
      BY <1>1, <1>2, <1>3, <2>2
    <3>2. t[i] = s[i + 1] /\ t[j] = s[j + 1]
      BY <1>2
    <3> QED BY <1>5, <2>2, <3>1, <3>2
  <2> QED BY <2>1, <2>2 DEF InOrder, t
<1>8. ASSUME h.kind = "obs"
      PROVE  /\ h.obs \in Moments /\ h.obs # None /\ h.obs[1] = c /\ Ahead(c, m, h.obs)
             /\ \A o \in Moments : Ahead(c, l, o) => ~ Before(h.obs, o)
  <2>1. /\ h \in Occurrences /\ h.obs[1] = c /\ h.obs[2] > 0 /\ h.obs[2] <= l.sent
        /\ h.obs[2] \in Nat
    BY <1>1, <1>2, <1>4, <1>8
  <2>2. h.obs \in Moments /\ h.obs # None
    BY <2>1 DEF Occurrences, None
  <2>3. ASSUME NEW i \in 1..Len(t), t[i].kind = "obs" PROVE h.obs[2] < t[i].obs[2]
    <3>1. i + 1 \in 1..Len(s) /\ 1 < i + 1 /\ t[i] = s[i + 1]
      BY <1>2, <1>3
    <3> QED BY <1>1, <1>2, <1>5, <1>8, <2>3, <3>1
  <2>4. Ahead(c, m, h.obs)
    BY <2>1, <2>3 DEF Ahead, t
  <2>5. ASSUME NEW o \in Moments, Ahead(c, l, o) PROVE ~ Before(h.obs, o)
    <3>1. o[1] \in Nat /\ o[2] \in Nat
      BY DEF Moments
    <3>2. o[1] < c \/ (o[1] = c /\ o[2] < h.obs[2])
      BY <1>1, <1>2, <1>8, <2>5 DEF Ahead, s
    <3> QED BY <2>1, <3>1, <3>2 DEF Before
  <2> QED BY <2>1, <2>2, <2>4, <2>5
<1> QED BY <1>1, <1>2, <1>4, <1>6, <1>7, <1>8 DEF s, h

\* The channels after a step are as good as before.
Kept ==
  /\ links' \in Seq(Links) /\ Len(links') = Len(links)
  /\ \A d \in 1..Len(links) :
       /\ InOrder(d, links'[d])
       /\ \A o \in Moments : Ahead(d, links[d], o) => Ahead(d, links'[d], o)

LEMMA ChannelKept ==
  ASSUME MovesInv, NEW c \in 1..Len(links), NEW m \in Links, links' = [links EXCEPT ![c] = m],
         InOrder(c, m), \A o \in Moments : Ahead(c, links[c], o) => Ahead(c, m, o)
  PROVE  Kept
<1>1. links \in Seq(Links) /\ \A d \in 1..Len(links) : InOrder(d, links[d])
  BY DEF MovesInv
<1>2. /\ links' \in Seq(Links) /\ Len(links') = Len(links) /\ links'[c] = m
      /\ \A d \in 1..Len(links) : d # c => links'[d] = links[d]
  BY <1>1
<1> QED BY <1>1, <1>2 DEF Kept

\* What the observer holds is as new as its connection at most.
LEMMA SnapBehind == MovesInv => snap[1] \in Nat /\ snap[2] \in Nat /\ snap[1] <= rx /\ rx \in Nat
<1> SUFFICES ASSUME MovesInv PROVE snap[1] \in Nat /\ snap[2] \in Nat /\ snap[1] <= rx /\ rx \in Nat
  OBVIOUS
<1>1. links \in Seq(Links) /\ rx \in 0..Len(links) /\ snap \in Moments
  BY DEF MovesInv
<1>2. rx \in Nat /\ snap[1] \in Nat /\ snap[2] \in Nat
  BY <1>1 DEF Moments
<1>3. CASE rx = 0
  BY <1>2, <1>3 DEF MovesInv, None
<1>4. CASE rx # 0
  BY <1>2, <1>4 DEF MovesInv, Ahead
<1> QED BY <1>2, <1>3, <1>4

LEMMA AdapterKeeps == MovesInv /\ Adapter => MovesInv'
<1> SUFFICES ASSUME MovesInv, Adapter PROVE MovesInv'
  OBVIOUS
<1>1. links \in Seq(Links) /\ Len(links) \in Nat
  BY DEF MovesInv
<1>2. UNCHANGED loopVars
  BY DEF Adapter, Greet, SendObservation, ReportError, HangUp, GoUpOrDown
<1>3. Kept
  <2>1. CASE GoUpOrDown
    BY <2>1 DEF GoUpOrDown, Kept, MovesInv
  <2>2. ASSUME NEW c \in 1..Len(links),
               Greet(c) \/ SendObservation(c) \/ ReportError(c) \/ HangUp(c)
        PROVE  Kept
    <3> DEFINE l == links[c]
    <3>1. l \in Links /\ InOrder(c, l) /\ c \in Nat
      BY <1>1 DEF MovesInv
    <3>2. l.sent \in Nat /\ l.events \in Seq(Occurrences) /\ <<0, 0>> \in Moments
          /\ <<c, l.sent + 1>> \in Moments /\ l.sent + 1 \in Nat
      BY <3>1, LinkParts DEF Moments
    <3>3. PICK m \in Links, e \in Occurrences :
            /\ links' = [links EXCEPT ![c] = m] /\ m.events = Append(l.events, e)
            /\ \/ m.sent = l.sent /\ e.kind # "obs"
               \/ m.sent = l.sent + 1 /\ e.obs = <<c, l.sent + 1>>
      <4>1. \A kind \in {"welcome", "obs", "error", "closed"}, o \in Moments :
              /\ Event(kind, o) \in Occurrences /\ Event(kind, o).kind = kind
              /\ Event(kind, o).obs = o
        BY DEF Event, Occurrences
      <4>2. \A e \in Occurrences : Append(l.events, e) \in Seq(Occurrences)
        BY <3>2
      <4>3. l = [open |-> l.open, greeted |-> l.greeted, sent |-> l.sent, events |-> l.events]
            /\ l.open \in BOOLEAN /\ l.greeted \in BOOLEAN
        BY <3>1 DEF Links
      <4>4. None \in Moments
        BY <3>2 DEF None
      <4>5. CASE Greet(c)
        <5> DEFINE e == Event("welcome", None)
                   m == [l EXCEPT !.greeted = TRUE, !.events = Append(@, e)]
        <5>1. e \in Occurrences /\ e.kind # "obs"
          BY <4>1, <4>4
        <5> HIDE DEF e
        <5>2. m \in Links /\ m.events = Append(l.events, e) /\ m.sent = l.sent
          BY <3>1, <4>2, <4>3, <5>1 DEF Links
        <5>3. links' = [links EXCEPT ![c] = m]
          BY <1>1, <4>5 DEF Greet, e
        <5> QED BY <5>1, <5>2, <5>3
      <4>6. CASE SendObservation(c)
        <5> DEFINE e == Event("obs", <<c, l.sent + 1>>)
                   m == [l EXCEPT !.sent = @ + 1, !.events = Append(@, e)]
        <5>1. e \in Occurrences /\ e.obs = <<c, l.sent + 1>>
          BY <3>2, <4>1
        <5> HIDE DEF e
        <5>2. m \in Links /\ m.events = Append(l.events, e) /\ m.sent = l.sent + 1
          BY <3>1, <3>2, <4>2, <4>3, <5>1 DEF Links
        <5>3. links' = [links EXCEPT ![c] = m]
          BY <1>1, <4>6 DEF SendObservation, e
        <5> QED BY <5>1, <5>2, <5>3
      <4>7. CASE ReportError(c)
        <5> DEFINE e == Event("error", None)
                   m == [l EXCEPT !.events = Append(@, e)]
        <5>1. e \in Occurrences /\ e.kind # "obs"
          BY <4>1, <4>4
        <5> HIDE DEF e
        <5>2. m \in Links /\ m.events = Append(l.events, e) /\ m.sent = l.sent
          BY <3>1, <4>2, <4>3, <5>1 DEF Links
        <5>3. links' = [links EXCEPT ![c] = m]
          BY <1>1, <4>7 DEF ReportError, e
        <5> QED BY <5>1, <5>2, <5>3
      <4>8. CASE HangUp(c)
        <5> DEFINE e == Event("closed", None)
                   m == [l EXCEPT !.open = FALSE, !.events = Append(@, e)]
        <5>1. e \in Occurrences /\ e.kind # "obs"
          BY <4>1, <4>4
        <5> HIDE DEF e
        <5>2. m \in Links /\ m.events = Append(l.events, e) /\ m.sent = l.sent
          BY <3>1, <4>2, <4>3, <5>1 DEF Links
        <5>3. links' = [links EXCEPT ![c] = m]
          BY <1>1, <4>8 DEF HangUp, e
        <5> QED BY <5>1, <5>2, <5>3
      <4> QED BY <2>2, <4>5, <4>6, <4>7, <4>8
    <3> HIDE DEF l
    <3>4. InOrder(c, m) /\ \A o \in Moments : Ahead(c, l, o) => Ahead(c, m, o)
      BY <3>1, <3>3, MoreInOrder
    <3> QED BY <3>3, <3>4, ChannelKept DEF l
  <2> QED BY <2>1, <2>2 DEF Adapter
<1>4. Len(links) \in 1..Len(links) \/ Len(links) = 0
  BY <1>1
<1> QED BY <1>1, <1>2, <1>3, <1>4 DEF loopVars, Kept, MovesInv

\* An event read from a channel.
LEMMA TakeKept ==
  ASSUME MovesInv, NEW c \in 1..Len(links), links[c].events # <<>>, Take(c)
  PROVE  /\ Kept /\ Head(links[c].events) \in Occurrences
         /\ LET first == Head(links[c].events).obs
            IN  Head(links[c].events).kind = "obs" =>
                  /\ first \in Moments /\ first # None /\ first[1] = c
                  /\ Ahead(c, links'[c], first)
                  /\ \A o \in Moments : Ahead(c, links[c], o) => ~ Before(first, o)
<1> DEFINE l == links[c]
           m == [l EXCEPT !.events = Tail(@)]
<1>1. links \in Seq(Links) /\ l \in Links /\ InOrder(c, l) /\ c \in Nat
  BY DEF MovesInv
<1>2. m \in Links /\ m.events = Tail(l.events) /\ m.sent = l.sent
  <2>1. l.events \in Seq(Occurrences) /\ l.events # <<>>
    BY <1>1, LinkParts
  <2>2. Tail(l.events) \in Seq(Occurrences)
    BY <2>1
  <2> QED BY <1>1, <2>2 DEF Links
<1>3. links' = [links EXCEPT ![c] = m] /\ links'[c] = m
  <2>1. links' = [links EXCEPT ![c] = m]
    BY <1>1 DEF Take
  <2> HIDE DEF m
  <2> QED BY <1>1, <2>1
<1> HIDE DEF m, l
<1>4. /\ InOrder(c, m) /\ Head(l.events) \in Occurrences
      /\ \A o \in Moments : Ahead(c, l, o) => Ahead(c, m, o)
  BY <1>1, <1>2, RestInOrder DEF l
<1>5. Kept
  BY <1>2, <1>3, <1>4, ChannelKept DEF l
<1> QED BY <1>1, <1>2, <1>3, <1>4, <1>5, RestInOrder DEF l

\* The observer's own steps.
LEMMA AwaitKeeps == MovesInv /\ AwaitWelcome => MovesInv'
<1> SUFFICES ASSUME MovesInv, AwaitWelcome PROVE MovesInv'
  OBVIOUS
<1> DEFINE c == Len(links)
           e == Head(links[c].events)
           now == [welcome |-> got.welcome \/ e.kind = "welcome",
                   obs     |-> IF e.kind = "obs" THEN e.obs ELSE got.obs]
<1>1. /\ stage = "greet" /\ links[c].events # <<>> /\ Take(c) /\ drawn' = drawn
      /\ \/ /\ stage' \in {"connect", "exit"} /\ rx' = rx /\ snap' = snap
         \/ /\ stage' = "loop" /\ rx' = c /\ snap' = now.obs /\ now.obs # None
         \/ /\ stage' = stage /\ rx' = rx /\ snap' = snap /\ got' = now
  BY DEF AwaitWelcome, Fresh, AttemptFailed, Accepted
<1>2. /\ links \in Seq(Links) /\ c \in Nat /\ rx < c /\ rx \in 0..c /\ got.obs \in Moments
      /\ got.obs # None => got.obs[1] = c /\ Ahead(c, links[c], got.obs)
  BY <1>1 DEF MovesInv
<1>3. c \in 1..Len(links)
  BY <1>2
<1>4. /\ Kept /\ e \in Occurrences
      /\ e.kind = "obs" => e.obs \in Moments /\ e.obs # None /\ e.obs[1] = c /\ Ahead(c, links'[c], e.obs)
  BY <1>1, <1>3, TakeKept
<1>5. /\ now.obs \in Moments
      /\ now.obs # None => now.obs[1] = c /\ Ahead(c, links'[c], now.obs)
  <2>1. now.obs = IF e.kind = "obs" THEN e.obs ELSE got.obs
    OBVIOUS
  <2> HIDE DEF now, e
  <2> QED BY <1>2, <1>3, <1>4, <2>1 DEF Kept
<1>6. snap \in Moments /\ snap[1] \in Nat /\ snap[1] <= rx /\ rx \in Nat
  BY SnapBehind DEF MovesInv
<1> HIDE DEF now, e
<1>7. /\ links' \in Seq(Links) /\ Len(links') = c /\ \A d \in 1..c : InOrder(d, links'[d])
      /\ rx # 0 => Ahead(rx, links'[rx], snap)
  <2>1. rx # 0 => rx \in 1..c /\ Ahead(rx, links[rx], snap)
    BY <1>2, <1>6 DEF MovesInv
  <2> QED BY <1>4, <1>6, <2>1 DEF Kept
<1>8. /\ rx = 0 => snap = None
      /\ drawn # <<>> => drawn[2] \in Moments /\ ~ Before(snap, drawn[2])
  BY DEF MovesInv
<1> HIDE DEF c
<1>9. CASE stage' \in {"connect", "exit"} /\ rx' = rx /\ snap' = snap
  BY <1>1, <1>2, <1>6, <1>7, <1>8, <1>9 DEF MovesInv
<1>10. CASE stage' = "loop" /\ rx' = c /\ snap' = now.obs /\ now.obs # None
  <2>1. ~ Before(snap', snap)
    BY <1>2, <1>5, <1>6, <1>10 DEF Before
  <2>2. drawn # <<>> => drawn[2] \in Moments /\ ~ Before(snap', drawn[2])
    BY <1>5, <1>6, <1>8, <1>10, <2>1, BeforeOrder
  <2>3. c # 0 /\ c \in 0..Len(links')
    BY <1>2, <1>6, <1>7
  <2> QED BY <1>1, <1>5, <1>7, <1>10, <2>2, <2>3 DEF MovesInv
<1>11. CASE stage' = stage /\ rx' = rx /\ snap' = snap /\ got' = now
  BY <1>1, <1>2, <1>5, <1>6, <1>7, <1>8, <1>11 DEF MovesInv
<1> QED BY <1>1, <1>9, <1>10, <1>11

LEMMA TimeoutKeeps == MovesInv /\ WelcomeTimeout => MovesInv'
<1> SUFFICES ASSUME MovesInv, WelcomeTimeout PROVE MovesInv'
  OBVIOUS
<1> DEFINE c == Len(links)
<1>1. /\ stage = "greet" /\ links' = links /\ drawn' = drawn
      /\ \/ /\ stage' \in {"connect", "exit"} /\ rx' = rx /\ snap' = snap
         \/ /\ stage' = "loop" /\ rx' = c /\ snap' = IF got.obs = None THEN snap ELSE got.obs
  BY DEF WelcomeTimeout, Fresh, AttemptFailed, Accepted
<1>2. /\ links \in Seq(Links) /\ c \in Nat /\ rx < c /\ rx \in 0..c /\ got.obs \in Moments
      /\ got.obs # None => got.obs[1] = c /\ Ahead(c, links[c], got.obs)
  BY <1>1 DEF MovesInv
<1>3. snap \in Moments /\ snap[1] \in Nat /\ snap[1] <= rx /\ rx \in Nat
  BY SnapBehind DEF MovesInv
<1>4. drawn # <<>> => drawn[2] \in Moments /\ ~ Before(snap, drawn[2])
  BY DEF MovesInv
<1>5. CASE stage' \in {"connect", "exit"} /\ rx' = rx /\ snap' = snap
  BY <1>1, <1>5 DEF MovesInv
<1>6. CASE stage' = "loop" /\ rx' = c /\ snap' = IF got.obs = None THEN snap ELSE got.obs
  <2>1. snap' \in Moments /\ Ahead(c, links[c], snap') /\ ~ Before(snap', snap)
    <3>1. CASE got.obs = None
      BY <1>2, <1>3, <1>6, <3>1, BeforeOrder DEF Ahead
    <3>2. CASE got.obs # None
      BY <1>2, <1>3, <1>6, <3>2 DEF Before
    <3> QED BY <3>1, <3>2
  <2>2. drawn # <<>> => ~ Before(snap', drawn[2])
    BY <1>3, <1>4, <2>1, BeforeOrder
  <2>3. c # 0 /\ c \in 0..c
    BY <1>2, <1>3
  <2> QED BY <1>1, <1>4, <1>6, <2>1, <2>2, <2>3 DEF MovesInv
<1> QED BY <1>1, <1>5, <1>6

LEMMA ReadKeeps == MovesInv /\ ReadEvent => MovesInv'
<1> SUFFICES ASSUME MovesInv, ReadEvent PROVE MovesInv'
  OBVIOUS
<1> DEFINE e == Head(links[rx].events)
<1>1. /\ stage = "loop" /\ links[rx].events # <<>> /\ Take(rx) /\ drawn' = drawn
      /\ rx' = rx /\ stage' \in {"connect", "loop"}
      /\ snap' = snap \/ (e.kind = "obs" /\ snap' = e.obs)
  BY DEF ReadEvent
<1>2. rx \in 1..Len(links) /\ Ahead(rx, links[rx], snap) /\ snap \in Moments
  BY <1>1 DEF MovesInv
<1>3. /\ Kept
      /\ e.kind = "obs" => /\ e.obs \in Moments /\ Ahead(rx, links'[rx], e.obs)
                           /\ ~ Before(e.obs, snap)
  BY <1>1, <1>2, TakeKept
<1> HIDE DEF e
<1>4. snap' \in Moments /\ Ahead(rx, links'[rx], snap') /\ ~ Before(snap', snap)
  BY <1>1, <1>2, <1>3, BeforeOrder DEF Kept
<1>5. drawn # <<>> => drawn[2] \in Moments /\ ~ Before(snap', drawn[2])
  BY <1>2, <1>4, BeforeOrder DEF MovesInv
<1> QED BY <1>1, <1>2, <1>3, <1>4, <1>5 DEF MovesInv, Kept

LEMMA ConnectKeeps == MovesInv /\ Connect => MovesInv'
<1> SUFFICES ASSUME MovesInv, Connect PROVE MovesInv'
  OBVIOUS
<1> DEFINE l == [open |-> TRUE, greeted |-> FALSE, sent |-> 0, events |-> <<>>]
<1>1. /\ stage' = "greet" /\ got' = NothingYet /\ links' = Append(links, l)
      /\ rx' = rx /\ snap' = snap /\ drawn' = drawn
  BY DEF Connect
<1>2. links \in Seq(Links) /\ rx \in 0..Len(links) /\ Len(links) \in Nat /\ l \in Links
  BY DEF MovesInv, Links
<1>3. \A d : InOrder(d, l)
  BY DEF InOrder
<1> HIDE DEF l
<1>4. /\ links' \in Seq(Links) /\ Len(links') = Len(links) + 1 /\ links'[Len(links) + 1] = l
      /\ \A d \in 1..Len(links) : links'[d] = links[d]
  BY <1>1, <1>2
<1>5. \A d \in 1..Len(links') : d \in 1..Len(links) \/ d = Len(links) + 1
  BY <1>2, <1>4
<1>6. \A d \in 1..Len(links') : InOrder(d, links'[d])
  BY <1>3, <1>4, <1>5 DEF MovesInv
<1>7. rx # 0 => Ahead(rx, links'[rx], snap)
  BY <1>2, <1>4 DEF MovesInv
<1>8. got'.obs = None /\ None \in Moments
  BY <1>1 DEF NothingYet, None, Moments
<1>9. rx < Len(links') /\ rx \in 0..Len(links')
  BY <1>2, <1>4
<1> QED BY <1>1, <1>4, <1>6, <1>7, <1>8, <1>9 DEF MovesInv

LEMMA MovesStep == MovesInv /\ [ObserveNext]_observeVars => MovesInv'
<1> SUFFICES ASSUME MovesInv, [ObserveNext]_observeVars PROVE MovesInv'
  OBVIOUS
<1>1. CASE Adapter
  BY <1>1, AdapterKeeps
<1>2. CASE Refused
  BY <1>2 DEF Refused, AttemptFailed, MovesInv
<1>3. CASE Connect
  BY <1>3, ConnectKeeps
<1>4. CASE AwaitWelcome
  BY <1>4, AwaitKeeps
<1>5. CASE WelcomeTimeout
  BY <1>5, TimeoutKeeps
<1>6. CASE ReadEvent
  BY <1>6, ReadKeeps
<1>7. CASE DrawNewest
  <2>1. /\ UNCHANGED <<links, rx, got, latest, snap>> /\ stage = "loop" /\ stage' = "poll"
        /\ drawn' = drawn \/ drawn' = <<latest, snap>>
    BY <1>7 DEF DrawNewest
  <2>2. snap \in Moments /\ ~ Before(snap, snap)
    BY BeforeOrder DEF MovesInv
  <2>3. drawn' # <<>> => drawn'[2] \in Moments /\ ~ Before(snap, drawn'[2])
    BY <2>1, <2>2 DEF MovesInv
  <2> QED BY <2>1, <2>3 DEF MovesInv
<1>8. CASE PollKeys
  BY <1>8 DEF PollKeys, MovesInv
<1>9. CASE UNCHANGED observeVars
  BY <1>9 DEF observeVars, MovesInv
<1> QED BY <1>1, <1>2, <1>3, <1>4, <1>5, <1>6, <1>7, <1>8, <1>9 DEF ObserveNext, Observer

\* run_observe: the board on the screen never goes back to an earlier observation of the
\* connection nor to an earlier connection, for any number of connections, observations
\* and attempts, although threads of earlier connections may still be sending.
THEOREM AlwaysMovesOn == ObserveInit /\ [][ObserveNext]_observeVars => ShownMovesOn
<1>1. ObserveInit => MovesInv
  <2> SUFFICES ASSUME ObserveInit PROVE MovesInv
    OBVIOUS
  <2>1. links = <<>> /\ rx = 0 /\ snap = None /\ stage = "connect" /\ drawn = <<>>
    BY DEF ObserveInit
  <2>2. <<>> \in Seq(Links) /\ Len(<<>>) = 0 /\ None \in Moments
    BY DEF None, Moments
  <2> QED BY <2>1, <2>2 DEF MovesInv
<1>2. MovesInv /\ [ObserveNext]_observeVars =>
        [drawn # <<>> => ~ Before(drawn'[2], drawn[2])]_drawn
  <2> SUFFICES ASSUME MovesInv, [ObserveNext]_observeVars, drawn' # drawn, drawn # <<>>
               PROVE  ~ Before(drawn'[2], drawn[2])
    OBVIOUS
  <2>1. CASE DrawNewest
    BY <2>1 DEF DrawNewest, MovesInv
  <2>2. CASE ~ DrawNewest
    BY <2>2 DEF ObserveNext, Observer, Adapter, Greet, SendObservation, ReportError, HangUp,
                GoUpOrDown, loopVars, Refused, Connect, AwaitWelcome, WelcomeTimeout,
                AttemptFailed, Accepted, ReadEvent, PollKeys, observeVars
  <2> QED BY <2>1, <2>2
<1> QED BY <1>1, <1>2, MovesStep, PTL DEF ShownMovesOn
-----------------------------------------------------------------------------
(* The screen is fresh. *)

\* The throttle remembers the fingerprint of what was drawn last.
FreshInv ==
  /\ DOMAIN throttle = {"rendered", "since", "mark"} /\ throttle.since \in Int
  /\ throttle.rendered => throttle.mark = <<Mark[shown[1]], shown[2]>>
  /\ ScreenIsFresh

\* should_render: what is on the screen is the present view, or a static one with the
\* same fingerprint and younger than the interval, for all views, sizes and intervals.
THEOREM ScreenAlwaysFresh == ScreenSpec => []ScreenIsFresh
<1>1. ScreenInit => FreshInv
  BY DEF ScreenInit, FreshInv, ScreenIsFresh
<1>2. FreshInv /\ [ScreenNext]_screenVars => FreshInv'
  <2> SUFFICES ASSUME FreshInv, [ScreenNext]_screenVars PROVE FreshInv'
    OBVIOUS
  <2>1. CASE ReadSize
    BY <2>1 DEF ReadSize, FreshInv, ScreenIsFresh
  <2>2. CASE Draw
    <3>1. throttle' = [rendered |-> TRUE, since |-> 0, mark |-> <<Mark[view], seen>>]
      BY <2>2 DEF Draw, Noted, Fingerprint
    <3>2. shown' = <<view, seen>> /\ view' = view /\ seen' = seen
      BY <2>2 DEF Draw
    <3> QED BY <3>1, <3>2 DEF FreshInv, ScreenIsFresh
  <2>3. CASE SkipDraw
    <3>1. /\ throttle.rendered /\ view \in StaticViews /\ <<Mark[view], seen>> = throttle.mark
          /\ ~ throttle.since >= Interval
      BY <2>3 DEF SkipDraw, ShouldRender, Fingerprint
    <3>2. Mark[shown[1]] = Mark[view] /\ shown[2] = seen /\ throttle.since < Interval
      BY <3>1, ScreenAssumption DEF FreshInv
    <3>3. UNCHANGED <<throttle, shown, view, seen>>
      BY <2>3 DEF SkipDraw
    <3> QED BY <3>1, <3>2, <3>3 DEF FreshInv, ScreenIsFresh
  <2>4. CASE Poll
    <3>1. PICK dt \in Passes : throttle' = [throttle EXCEPT !.since = Lower(@ + dt, Interval)]
      BY <2>4 DEF Poll
    <3>2. dt \in Int /\ Interval \in Int
      BY ScreenAssumption
    <3>3. Lower(throttle.since + dt, Interval) \in Int
      BY <3>2 DEF Lower, FreshInv
    <3>4. pass' = "size" /\ shown' = shown
      BY <2>4 DEF Poll
    <3> QED BY <3>1, <3>3, <3>4 DEF FreshInv, ScreenIsFresh
  <2>5. CASE ResizeTerminal
    BY <2>5 DEF ResizeTerminal, FreshInv, ScreenIsFresh
  <2>6. CASE UNCHANGED screenVars
    BY <2>6 DEF screenVars, FreshInv, ScreenIsFresh
  <2> QED BY <2>1, <2>2, <2>3, <2>4, <2>5, <2>6 DEF ScreenNext
<1>3. FreshInv => ScreenIsFresh
  BY DEF FreshInv
<1> QED BY <1>1, <1>2, <1>3, PTL DEF ScreenSpec

-----------------------------------------------------------------------------
(* The tape.  Lists, whatever they hold. *)

List(s) == s \in Seq(Range(s))

LEMMA ListParts ==
  ASSUME NEW s, List(s)
  PROVE  /\ Len(s) \in Nat /\ DOMAIN s = 1 .. Len(s)
         /\ s = [i \in 1 .. Len(s) |-> s[i]]
  BY LenProperties DEF List

LEMMA ListMade ==
  ASSUME NEW S, NEW s \in Seq(S)
  PROVE  List(s) /\ \A i \in 1..Len(s) : s[i] \in S
<1>1. /\ Len(s) \in Nat /\ s \in [1..Len(s) -> S] /\ DOMAIN s = 1..Len(s)
  BY LenProperties
<1>2. s \in [1..Len(s) -> Range(s)]
  BY <1>1 DEF Range
<1>3. s \in Seq(Range(s))
  BY <1>1, <1>2, SeqDef
<1> QED BY <1>1, <1>3 DEF List

LEMMA FunctionIsList ==
  ASSUME NEW s, NEW n \in Nat, DOMAIN s = 1..n, s = [i \in 1..n |-> s[i]]
  PROVE  List(s) /\ Len(s) = n
<1>1. s \in [1..n -> Range(s)]
  BY DEF Range
<1>2. s \in Seq(Range(s))
  BY <1>1, SeqDef
<1>3. Len(s) \in Nat /\ 1..Len(s) = 1..n
  BY <1>2, LenProperties
<1>4. \A k, m \in Nat : 1..k = 1..m => k = m
  <2> SUFFICES ASSUME NEW k \in Nat, NEW m \in Nat, 1..k = 1..m PROVE k = m
    OBVIOUS
  <2>1. k \in 1..k \/ k = 0
    OBVIOUS
  <2>2. m \in 1..m \/ m = 0
    OBVIOUS
  <2> QED BY <2>1, <2>2
<1> QED BY <1>2, <1>3, <1>4 DEF List

\* Lists that agree are the same.
LEMMA SameList ==
  ASSUME NEW s, List(s), NEW t, List(t), Len(s) = Len(t), \A i \in 1..Len(s) : s[i] = t[i]
  PROVE  s = t
  BY ListParts

LEMMA ListAppend ==
  ASSUME NEW s, List(s), NEW x
  PROVE  /\ List(Append(s, x)) /\ Len(Append(s, x)) = Len(s) + 1
         /\ \A i \in 1..Len(s) : Append(s, x)[i] = s[i]
         /\ Append(s, x)[Len(s) + 1] = x
<1> DEFINE S == Range(s) \cup {x}
<1>1. s \in Seq(S) /\ x \in S
  BY SeqMonotonic DEF List
<1> HIDE DEF S
<1>2. /\ Append(s, x) \in Seq(S) /\ Len(Append(s, x)) = Len(s) + 1
      /\ \A i \in 1..Len(s) : Append(s, x)[i] = s[i]
      /\ Append(s, x)[Len(s) + 1] = x
  BY <1>1, AppendProperties
<1>3. List(Append(s, x))
  BY <1>2, ListMade
<1> QED BY <1>2, <1>3

LEMMA ListConcat ==
  ASSUME NEW s, List(s), NEW t, List(t)
  PROVE  /\ List(s \o t) /\ Len(s \o t) = Len(s) + Len(t)
         /\ \A i \in 1..Len(s) : (s \o t)[i] = s[i]
         /\ \A i \in 1..Len(t) : (s \o t)[Len(s) + i] = t[i]
<1> DEFINE S == Range(s) \cup Range(t)
<1>1. s \in Seq(S) /\ t \in Seq(S)
  BY SeqMonotonic DEF List
<1> HIDE DEF S
<1>2. /\ s \o t \in Seq(S) /\ Len(s \o t) = Len(s) + Len(t)
      /\ \A i \in 1 .. Len(s) + Len(t) :
           (s \o t)[i] = IF i <= Len(s) THEN s[i] ELSE t[i - Len(s)]
  BY <1>1, ConcatProperties
<1>3. Len(s) \in Nat /\ Len(t) \in Nat
  BY ListParts
<1>4. \A i \in 1..Len(s) : (s \o t)[i] = s[i]
  BY <1>2, <1>3
<1>5. \A i \in 1..Len(t) : (s \o t)[Len(s) + i] = t[i]
  <2> SUFFICES ASSUME NEW i \in 1..Len(t) PROVE (s \o t)[Len(s) + i] = t[i]
    OBVIOUS
  <2>1. Len(s) + i \in 1 .. Len(s) + Len(t) /\ ~ Len(s) + i <= Len(s) /\ Len(s) + i - Len(s) = i
    BY <1>3
  <2> QED BY <1>2, <2>1
<1> QED BY <1>2, <1>4, <1>5, ListMade

LEMMA ListFront ==
  ASSUME NEW s, List(s), NEW k \in 0..Len(s)
  PROVE  /\ List(SubSeq(s, 1, k)) /\ Len(SubSeq(s, 1, k)) = k
         /\ \A i \in 1..k : SubSeq(s, 1, k)[i] = s[i]
<1>1. Len(s) \in Nat /\ k \in Int /\ k >= 0 /\ k <= Len(s)
  BY ListParts
<1>2. \A i \in 1..k : s[i] \in Range(s)
  BY <1>1, ListParts DEF Range
<1>3. /\ SubSeq(s, 1, k) \in Seq(Range(s))
      /\ Len(SubSeq(s, 1, k)) = IF 1 <= k THEN k - 1 + 1 ELSE 0
      /\ \A i \in 1..k - 1 + 1 : SubSeq(s, 1, k)[i] = s[1 + i - 1]
  BY <1>1, <1>2, SubSeqProperties
<1>4. \A i \in 1..k : i \in 1..k - 1 + 1 /\ 1 + i - 1 = i
  BY <1>1
<1>5. List(SubSeq(s, 1, k))
  BY <1>3, ListMade
<1>6. Len(SubSeq(s, 1, k)) = k
  BY <1>1, <1>3
<1> QED BY <1>3, <1>4, <1>5, <1>6

\* A list that is not empty ends in something.
LEMMA ListLast ==
  ASSUME NEW s, List(s), Len(s) # 0
  PROVE  s = Append(SubSeq(s, 1, Len(s) - 1), s[Len(s)])
<1> DEFINE f == SubSeq(s, 1, Len(s) - 1)
           t == Append(f, s[Len(s)])
<1>1. Len(s) \in Nat /\ Len(s) - 1 \in 0..Len(s)
  BY ListParts
<1>2. List(f) /\ Len(f) = Len(s) - 1 /\ \A i \in 1..Len(s) - 1 : f[i] = s[i]
  BY <1>1, ListFront
<1> HIDE DEF f
<1>3. /\ List(t) /\ Len(t) = Len(s) /\ t[Len(s)] = s[Len(s)]
      /\ \A i \in 1..Len(s) - 1 : t[i] = s[i]
  BY <1>1, <1>2, ListAppend
<1> HIDE DEF t
<1>4. \A i \in 1..Len(s) : s[i] = t[i]
  BY <1>1, <1>3
<1>5. s = t
  BY <1>3, <1>4, SameList
<1> QED BY <1>5 DEF t, f

LEMMA EmptyList ==
  /\ List(<<>>) /\ Len(<<>>) = 0
  /\ \A s : List(s) /\ Len(s) = 0 => s = <<>>
<1>1. <<>> \in Seq({}) /\ Len(<<>>) = 0
  BY EmptySeq
<1>2. List(<<>>)
  BY <1>1, ListMade
<1> QED BY <1>1, <1>2, SameList

-----------------------------------------------------------------------------
(* The tape.  The states a decoder and a session go through exist, and     *)
(* depend only on what has been read of the list.                          *)

Reading(f, d, s, n) ==
  f = [i \in 0..n |-> IF i = 0 THEN d ELSE ReadLine(f[i - 1], s[i])]

LEMMA ReadingExists ==
  ASSUME NEW d, NEW s, NEW n \in Nat
  PROVE  \E f : Reading(f, d, s, n)
<1> DEFINE Bad == {k \in Nat : ~ \E f : Reading(f, d, s, k)}
<1> SUFFICES ASSUME Bad # {} PROVE FALSE
  OBVIOUS
<1>1. PICK k \in Bad : \A j \in Bad : k <= j
  BY LeastDistance
<1>2. k # 0
  <2> DEFINE f == [i \in 0..0 |-> d]
  <2>1. Reading(f, d, s, 0)
    BY DEF Reading
  <2> QED BY <2>1
<1>3. k \in Nat /\ k > 0 /\ k - 1 \in Nat
  BY <1>1, <1>2
<1>4. PICK e : Reading(e, d, s, k - 1)
  BY <1>1, <1>3
<1> DEFINE f == [i \in 0..k |-> IF i < k THEN e[i] ELSE ReadLine(e[k - 1], s[k])]
<1>5. \A i \in 0..k : f[i] = IF i = 0 THEN d ELSE ReadLine(f[i - 1], s[i])
  <2> SUFFICES ASSUME NEW i \in 0..k
               PROVE  f[i] = IF i = 0 THEN d ELSE ReadLine(f[i - 1], s[i])
    OBVIOUS
  <2>1. \A j \in 0..k - 1 : e[j] = IF j = 0 THEN d ELSE ReadLine(e[j - 1], s[j])
    BY <1>4 DEF Reading
  <2>2. CASE i = k
    <3>1. k - 1 \in 0..k /\ k - 1 < k /\ k \in 0..k /\ ~ k < k
      BY <1>3
    <3>2. f[k - 1] = e[k - 1] /\ f[k] = ReadLine(e[k - 1], s[k])
      BY <3>1
    <3> QED BY <1>2, <2>2, <3>2
  <2>3. CASE i # k /\ i # 0
    <3>1. f[i] = e[i] /\ f[i - 1] = e[i - 1] /\ i \in 0..k - 1
      BY <1>3, <2>3
    <3> QED BY <2>1, <2>3, <3>1
  <2>4. CASE i # k /\ i = 0
    <3>1. f[0] = e[0] /\ 0 \in 0..k - 1
      BY <1>3
    <3> QED BY <2>1, <2>4, <3>1
  <2> QED BY <2>2, <2>3, <2>4
<1>6. Reading(f, d, s, k)
  <2>1. f = [i \in 0..k |-> f[i]]
    OBVIOUS
  <2> HIDE DEF f
  <2>2. f = [i \in 0..k |-> IF i = 0 THEN d ELSE ReadLine(f[i - 1], s[i])]
    BY <1>5, <2>1
  <2> QED BY <2>2 DEF Reading
<1> QED BY <1>1, <1>6

LEMMA ReadingAgrees ==
  ASSUME NEW d, NEW s, NEW t, NEW m \in Nat, NEW n \in Nat, m <= n,
         \A i \in 1..m : s[i] = t[i],
         NEW e, Reading(e, d, s, m), NEW f, Reading(f, d, t, n)
  PROVE  \A i \in 0..m : e[i] = f[i]
<1> DEFINE Bad == {i \in 0..m : e[i] # f[i]}
<1> SUFFICES ASSUME Bad # {} PROVE FALSE
  OBVIOUS
<1>1. PICK k \in Bad : \A j \in Bad : k <= j
  <2>1. Bad \subseteq Nat
    OBVIOUS
  <2> HIDE DEF Bad
  <2> QED BY <2>1, LeastDistance
<1>2. /\ \A i \in 0..m : e[i] = IF i = 0 THEN d ELSE ReadLine(e[i - 1], s[i])
      /\ \A i \in 0..n : f[i] = IF i = 0 THEN d ELSE ReadLine(f[i - 1], t[i])
  BY DEF Reading
<1>3. k \in 0..m /\ k \in 0..n /\ e[k] # f[k]
  BY <1>1
<1>4. k # 0
  BY <1>2, <1>3
<1>5. k - 1 \in 0..m /\ k \in 1..m /\ ~ k <= k - 1
  BY <1>3, <1>4
<1>6. e[k - 1] = f[k - 1]
  BY <1>1, <1>5
<1> QED BY <1>2, <1>3, <1>4, <1>5, <1>6

LEMMA ReadOnIs ==
  ASSUME NEW d, NEW s, Len(s) \in Nat
  PROVE  \E f : Reading(f, d, s, Len(s)) /\ ReadOn(d, s) = f[Len(s)]
<1> DEFINE after == CHOOSE f : Reading(f, d, s, Len(s))
<1>1. Reading(after, d, s, Len(s))
  BY ReadingExists
<1>2. ReadOn(d, s) = after[Len(s)]
  BY DEF ReadOn, Reading
<1> QED BY <1>1, <1>2

Played(f, seed, s, n) ==
  f = [i \in 0..n |-> IF i = 0 THEN Start[seed] ELSE After[<<f[i - 1], s[i]>>]]

LEMMA PlayedExists ==
  ASSUME NEW seed, NEW s, NEW n \in Nat
  PROVE  \E f : Played(f, seed, s, n)
<1> DEFINE Bad == {k \in Nat : ~ \E f : Played(f, seed, s, k)}
<1> SUFFICES ASSUME Bad # {} PROVE FALSE
  OBVIOUS
<1>1. PICK k \in Bad : \A j \in Bad : k <= j
  BY LeastDistance
<1>2. k # 0
  <2> DEFINE f == [i \in 0..0 |-> Start[seed]]
  <2>1. Played(f, seed, s, 0)
    BY DEF Played
  <2> QED BY <2>1
<1>3. k \in Nat /\ k > 0 /\ k - 1 \in Nat
  BY <1>1, <1>2
<1>4. PICK e : Played(e, seed, s, k - 1)
  BY <1>1, <1>3
<1> DEFINE f == [i \in 0..k |-> IF i < k THEN e[i] ELSE After[<<e[k - 1], s[k]>>]]
<1>5. \A i \in 0..k : f[i] = IF i = 0 THEN Start[seed] ELSE After[<<f[i - 1], s[i]>>]
  <2> SUFFICES ASSUME NEW i \in 0..k
               PROVE  f[i] = IF i = 0 THEN Start[seed] ELSE After[<<f[i - 1], s[i]>>]
    OBVIOUS
  <2>1. \A j \in 0..k - 1 : e[j] = IF j = 0 THEN Start[seed] ELSE After[<<e[j - 1], s[j]>>]
    BY <1>4 DEF Played
  <2>2. CASE i = k
    <3>1. k - 1 \in 0..k /\ k - 1 < k /\ k \in 0..k /\ ~ k < k
      BY <1>3
    <3>2. f[k - 1] = e[k - 1] /\ f[k] = After[<<e[k - 1], s[k]>>]
      BY <3>1
    <3> QED BY <1>2, <2>2, <3>2
  <2>3. CASE i # k /\ i # 0
    <3>1. f[i] = e[i] /\ f[i - 1] = e[i - 1] /\ i \in 0..k - 1
      BY <1>3, <2>3
    <3> QED BY <2>1, <2>3, <3>1
  <2>4. CASE i # k /\ i = 0
    <3>1. f[0] = e[0] /\ 0 \in 0..k - 1
      BY <1>3
    <3> QED BY <2>1, <2>4, <3>1
  <2> QED BY <2>2, <2>3, <2>4
<1>6. Played(f, seed, s, k)
  <2>1. f = [i \in 0..k |-> f[i]]
    OBVIOUS
  <2> HIDE DEF f
  <2>2. f = [i \in 0..k |-> IF i = 0 THEN Start[seed] ELSE After[<<f[i - 1], s[i]>>]]
    BY <1>5, <2>1
  <2> QED BY <2>2 DEF Played
<1> QED BY <1>1, <1>6

LEMMA PlayedAgrees ==
  ASSUME NEW seed, NEW s, NEW t, NEW m \in Nat, NEW n \in Nat, m <= n,
         \A i \in 1..m : s[i] = t[i],
         NEW e, Played(e, seed, s, m), NEW f, Played(f, seed, t, n)
  PROVE  \A i \in 0..m : e[i] = f[i]
<1> DEFINE Bad == {i \in 0..m : e[i] # f[i]}
<1> SUFFICES ASSUME Bad # {} PROVE FALSE
  OBVIOUS
<1>1. PICK k \in Bad : \A j \in Bad : k <= j
  <2>1. Bad \subseteq Nat
    OBVIOUS
  <2> HIDE DEF Bad
  <2> QED BY <2>1, LeastDistance
<1>2. /\ \A i \in 0..m : e[i] = IF i = 0 THEN Start[seed] ELSE After[<<e[i - 1], s[i]>>]
      /\ \A i \in 0..n : f[i] = IF i = 0 THEN Start[seed] ELSE After[<<f[i - 1], t[i]>>]
  BY DEF Played
<1>3. k \in 0..m /\ k \in 0..n /\ e[k] # f[k]
  BY <1>1
<1>4. k # 0
  BY <1>2, <1>3
<1>5. k - 1 \in 0..m /\ k \in 1..m /\ ~ k <= k - 1
  BY <1>3, <1>4
<1>6. e[k - 1] = f[k - 1]
  BY <1>1, <1>5
<1> QED BY <1>2, <1>3, <1>4, <1>5, <1>6

LEMMA SessionsIs ==
  ASSUME NEW seed, NEW s, Len(s) \in Nat
  PROVE  Played(Sessions(seed, s), seed, s, Len(s))
<1> DEFINE state == CHOOSE f : Played(f, seed, s, Len(s))
<1>1. Played(state, seed, s, Len(s))
  BY PlayedExists
<1>2. Sessions(seed, s) = state
  BY DEF Sessions, Played
<1> QED BY <1>1, <1>2

-----------------------------------------------------------------------------
(* Reading on. *)

LEMMA ReadNothing ==
  ASSUME NEW d
  PROVE  ReadOn(d, <<>>) = d
<1>1. Len(<<>>) = 0
  BY EmptyList
<1>2. PICK f : Reading(f, d, <<>>, 0) /\ ReadOn(d, <<>>) = f[0]
  BY <1>1, ReadOnIs
<1> QED BY <1>2 DEF Reading

LEMMA ReadOneMore ==
  ASSUME NEW d, NEW s, List(s), NEW line
  PROVE  ReadOn(d, Append(s, line)) = ReadLine(ReadOn(d, s), line)
<1> DEFINE t == Append(s, line)
           n == Len(s)
<1>1. n \in Nat /\ Len(t) = n + 1 /\ t[n + 1] = line /\ \A i \in 1..n : s[i] = t[i]
  BY ListParts, ListAppend
<1> HIDE DEF t, n
<1>2. PICK e : Reading(e, d, s, n) /\ ReadOn(d, s) = e[n]
  BY <1>1, ReadOnIs DEF n
<1>3. PICK f : Reading(f, d, t, n + 1) /\ ReadOn(d, t) = f[n + 1]
  BY <1>1, ReadOnIs
<1>4. n + 1 \in Nat /\ n <= n + 1 /\ n + 1 # 0 /\ n + 1 - 1 = n /\ n + 1 \in 0..n + 1 /\ n \in 0..n
  BY <1>1
<1>5. e[n] = f[n]
  <2>1. \A i \in 0..n : e[i] = f[i]
    BY <1>1, <1>2, <1>3, <1>4, ReadingAgrees
  <2> QED BY <1>4, <2>1
<1>6. f[n + 1] = ReadLine(f[n], t[n + 1])
  BY <1>3, <1>4 DEF Reading
<1> QED BY <1>1, <1>2, <1>3, <1>5, <1>6 DEF t

\* Two parts of a file are read one after the other.
LEMMA ReadParts ==
  ASSUME NEW d, NEW s, List(s), NEW t, List(t)
  PROVE  ReadOn(d, s \o t) = ReadOn(ReadOn(d, s), t)
<1> DEFINE n == Len(t)
           Upto(k) == SubSeq(t, 1, k)
           ReadsSoFar(k) == ReadOn(d, s \o Upto(k)) = ReadOn(ReadOn(d, s), Upto(k))
           Bad == {k \in 0..n : ~ ReadsSoFar(k)}
<1>1. n \in Nat
  BY ListParts
<1>2. Bad = {}
  <2> SUFFICES ASSUME Bad # {} PROVE FALSE
    OBVIOUS
  <2>1. PICK k \in Bad : \A j \in Bad : k <= j
    <3>1. Bad \subseteq Nat
      BY <1>1
    <3> HIDE DEF Bad
    <3> QED BY <3>1, LeastDistance
  <2>2. k \in 0..n /\ ~ ReadsSoFar(k) /\ \A j \in 0..n : ~ ReadsSoFar(j) => k <= j
    BY <2>1
  <2>3. CASE k = 0
    <3>1. Upto(k) = <<>>
      BY <2>3, ListFront, EmptyList, <1>1
    <3>2. s \o <<>> = s
      BY ConcatEmptySeq DEF List
    <3> QED BY <2>2, <3>1, <3>2, ReadNothing
  <2>4. CASE k # 0
    <3>1. k \in Nat /\ k - 1 \in 0..n /\ ~ k <= k - 1 /\ k \in 0..Len(t) /\ k - 1 \in 0..Len(t)
          /\ k - 1 \in 0..k
      BY <1>1, <2>2, <2>4
    <3>2. /\ List(Upto(k)) /\ Len(Upto(k)) = k /\ \A i \in 1..k : Upto(k)[i] = t[i]
          /\ List(Upto(k - 1)) /\ Len(Upto(k - 1)) = k - 1
          /\ \A i \in 1..k - 1 : Upto(k - 1)[i] = t[i]
      BY <3>1, ListFront
    <3>3. ReadsSoFar(k - 1)
      BY <2>2, <3>1
    <3> HIDE DEF Upto, n
    <3> DEFINE f == Upto(k)
               g == Upto(k - 1)
    <3>4. f = Append(g, t[k])
      <4>1. /\ List(Append(g, t[k])) /\ Len(Append(g, t[k])) = k - 1 + 1
            /\ \A i \in 1..k - 1 : Append(g, t[k])[i] = g[i]
            /\ Append(g, t[k])[k - 1 + 1] = t[k]
        BY <3>2, ListAppend
      <4>2. \A i \in 1..k : f[i] = Append(g, t[k])[i]
        BY <3>1, <3>2, <4>1
      <4>3. /\ List(f) /\ List(Append(g, t[k])) /\ Len(f) = Len(Append(g, t[k]))
            /\ \A i \in 1..Len(f) : f[i] = Append(g, t[k])[i]
        BY <3>1, <3>2, <4>1, <4>2
      <4> HIDE DEF f, g
      <4> QED BY <4>3, SameList
    <3>5. s \o f = Append(s \o g, t[k])
      <4> DEFINE S == Range(s) \cup Range(g) \cup {t[k]}
      <4>1. s \in Seq(S) /\ g \in Seq(S) /\ t[k] \in S
        BY <3>2, SeqMonotonic DEF List
      <4> HIDE DEF S, g
      <4>2. s \o Append(g, t[k]) = Append(s \o g, t[k])
        BY <4>1
      <4> QED BY <3>4, <4>2
    <3>6. List(s \o g)
      BY <3>2, ListConcat
    <3>7. ReadOn(d, s \o f) = ReadLine(ReadOn(d, s \o g), t[k])
      BY <3>5, <3>6, ReadOneMore
    <3>8. ReadOn(ReadOn(d, s), f) = ReadLine(ReadOn(ReadOn(d, s), g), t[k])
      BY <3>2, <3>4, ReadOneMore
    <3> QED BY <2>2, <3>3, <3>7, <3>8
  <2> QED BY <2>3, <2>4
<1>3. ReadsSoFar(n)
  BY <1>1, <1>2
<1>4. SubSeq(t, 1, Len(t)) = t
  BY SubSeqFull DEF List
<1> QED BY <1>3, <1>4

\* What was read stays read: records are added, never changed.
Grows(r, t) == List(t) /\ IsPrefix(r, t)

LEMMA PrefixIs ==
  ASSUME NEW r, List(r), NEW t, List(t)
  PROVE  IsPrefix(r, t) <=> Len(r) <= Len(t) /\ \A i \in 1..Len(r) : r[i] = t[i]
<1>1. Len(r) \in Nat /\ Len(t) \in Nat /\ SubSeq(r, 1, Len(r)) = r
  BY ListParts, SubSeqFull DEF List
<1>2. CASE Len(r) <= Len(t)
  <2>1. Len(r) \in 0..Len(t)
    BY <1>1, <1>2
  <2>2. /\ List(SubSeq(t, 1, Len(r))) /\ Len(SubSeq(t, 1, Len(r))) = Len(r)
        /\ \A i \in 1..Len(r) : SubSeq(t, 1, Len(r))[i] = t[i]
    BY <2>1, ListFront
  <2>3. r = SubSeq(t, 1, Len(r)) <=> \A i \in 1..Len(r) : r[i] = t[i]
    <3> DEFINE u == SubSeq(t, 1, Len(r))
    <3> HIDE DEF u
    <3>1. List(u) /\ Len(u) = Len(r) /\ \A i \in 1..Len(r) : u[i] = t[i]
      BY <2>2 DEF u
    <3>2. (\A i \in 1..Len(r) : r[i] = t[i]) => r = u
      BY <3>1, SameList
    <3>3. r = u => \A i \in 1..Len(r) : r[i] = t[i]
      BY <3>1
    <3> QED BY <3>2, <3>3 DEF u
  <2> QED BY <1>1, <1>2, <2>3 DEF IsPrefix
<1>3. CASE ~ Len(r) <= Len(t)
  BY <1>3 DEF IsPrefix
<1> QED BY <1>2, <1>3

LEMMA GrowsOn ==
  ASSUME NEW r, List(r)
  PROVE  /\ Grows(r, r)
         /\ \A x : Grows(r, Append(r, x))
         /\ \A s, t : Grows(r, s) /\ Grows(s, t) => Grows(r, t)
<1>1. Grows(r, r)
  BY PrefixIs, ListParts DEF Grows
<1>2. ASSUME NEW x PROVE Grows(r, Append(r, x))
  <2> DEFINE t == Append(r, x)
  <2>1. Len(r) <= Len(r) + 1
    BY ListParts
  <2>2. List(t) /\ Len(t) = Len(r) + 1 /\ \A i \in 1..Len(r) : t[i] = r[i]
    BY ListAppend
  <2> HIDE DEF t
  <2>3. Len(r) <= Len(t) /\ \A i \in 1..Len(r) : r[i] = t[i]
    BY <2>1, <2>2
  <2>4. IsPrefix(r, t)
    BY <2>2, <2>3, PrefixIs
  <2> QED BY <2>2, <2>4 DEF Grows, t
<1>3. ASSUME NEW s, NEW t, Grows(r, s), Grows(s, t) PROVE Grows(r, t)
  <2>1. List(s) /\ List(t) /\ Len(r) \in Nat /\ Len(s) \in Nat /\ Len(t) \in Nat
    BY <1>3, ListParts DEF Grows
  <2>2. /\ Len(r) <= Len(s) /\ \A i \in 1..Len(r) : r[i] = s[i]
        /\ Len(s) <= Len(t) /\ \A i \in 1..Len(s) : s[i] = t[i]
    BY <1>3, <2>1, PrefixIs DEF Grows
  <2>3. Len(r) <= Len(t) /\ \A i \in 1..Len(r) : r[i] = t[i]
    BY <2>1, <2>2
  <2> QED BY <2>1, <2>3, PrefixIs DEF Grows
<1> QED BY <1>1, <1>2, <1>3

LEMMA LineGrows ==
  ASSUME NEW d, List(d.records), NEW line
  PROVE  Grows(d.records, ReadLine(d, line).records)
<1>1. \/ ReadLine(d, line).records = d.records
      \/ ReadLine(d, line).records = Append(d.records, d.record)
  BY DEF ReadLine, Between, Inside
<1> QED BY <1>1, GrowsOn

LEMMA ReadGrows ==
  ASSUME NEW d, List(d.records), NEW s, List(s)
  PROVE  Grows(d.records, ReadOn(d, s).records)
<1> DEFINE n == Len(s)
<1>1. n \in Nat
  BY ListParts
<1>2. PICK f : Reading(f, d, s, n) /\ ReadOn(d, s) = f[n]
  BY <1>1, ReadOnIs
<1>3. \A i \in 0..n : f[i] = IF i = 0 THEN d ELSE ReadLine(f[i - 1], s[i])
  BY <1>2 DEF Reading
<1> DEFINE Bad == {i \in 0..n : ~ Grows(d.records, f[i].records)}
<1> HIDE DEF n
<1>4. Bad = {}
  <2> SUFFICES ASSUME Bad # {} PROVE FALSE
    OBVIOUS
  <2>1. PICK k \in Bad : \A j \in Bad : k <= j
    <3>1. Bad \subseteq Nat
      BY <1>1
    <3> HIDE DEF Bad
    <3> QED BY <3>1, LeastDistance
  <2>2. k \in 0..n /\ ~ Grows(d.records, f[k].records)
    BY <2>1
  <2>3. k # 0
    BY <1>3, <2>2, GrowsOn
  <2>4. k - 1 \in 0..n /\ ~ k <= k - 1
    BY <1>1, <2>2, <2>3
  <2>5. Grows(d.records, f[k - 1].records)
    BY <2>1, <2>4
  <2>6. f[k] = ReadLine(f[k - 1], s[k])
    BY <1>3, <2>2, <2>3
  <2>7. Grows(f[k - 1].records, f[k].records)
    BY <2>5, <2>6, LineGrows DEF Grows
  <2> QED BY <2>2, <2>5, <2>7, GrowsOn
<1>5. Grows(d.records, f[n].records)
  BY <1>1, <1>4
<1> QED BY <1>2, <1>5

-----------------------------------------------------------------------------
(* The tape.  The lines of a record, read back. *)

Entry(s, h, remote, local) ==
  [step |-> s, hash |-> h, input |-> [remote |-> remote, local |-> local]]

RemoteLines(s) == [i \in DOMAIN s |-> [tag |-> "R", command |-> s[i]]]
LocalLines(s)  == [i \in DOMAIN s |-> [tag |-> "L", action  |-> s[i]]]

LEMMA LinesAreLists ==
  ASSUME NEW s, List(s)
  PROVE  /\ List(RemoteLines(s)) /\ Len(RemoteLines(s)) = Len(s)
         /\ List(LocalLines(s)) /\ Len(LocalLines(s)) = Len(s)
<1>1. Len(s) \in Nat /\ DOMAIN s = 1..Len(s)
  BY ListParts
<1> DEFINE r == RemoteLines(s)
           l == LocalLines(s)
<1>2. DOMAIN r = 1..Len(s) /\ r = [i \in 1..Len(s) |-> r[i]]
  BY <1>1 DEF RemoteLines
<1>3. DOMAIN l = 1..Len(s) /\ l = [i \in 1..Len(s) |-> l[i]]
  BY <1>1 DEF LocalLines
<1> HIDE DEF r, l
<1>4. List(r) /\ Len(r) = Len(s)
  BY <1>1, <1>2, FunctionIsList
<1>5. List(l) /\ Len(l) = Len(s)
  BY <1>1, <1>3, FunctionIsList
<1> QED BY <1>4, <1>5 DEF r, l

LEMMA FrontGrows ==
  ASSUME NEW s, List(s), NEW k \in 1..Len(s)
  PROVE  SubSeq(s, 1, k) = Append(SubSeq(s, 1, k - 1), s[k])
<1> DEFINE f == SubSeq(s, 1, k)
           g == SubSeq(s, 1, k - 1)
           u == Append(g, s[k])
<1>1. k \in Nat /\ k \in 0..Len(s) /\ k - 1 \in 0..Len(s) /\ k - 1 + 1 = k
  BY ListParts
<1>2. /\ List(f) /\ Len(f) = k /\ \A i \in 1..k : f[i] = s[i]
      /\ List(g) /\ Len(g) = k - 1 /\ \A i \in 1..k - 1 : g[i] = s[i]
  BY <1>1, ListFront
<1> HIDE DEF f, g
<1>3. /\ List(u) /\ Len(u) = k - 1 + 1 /\ u[k - 1 + 1] = s[k]
      /\ \A i \in 1..k - 1 : u[i] = g[i]
  BY <1>2, ListAppend
<1> HIDE DEF u
<1>4. Len(f) = Len(u) /\ \A i \in 1..Len(f) : f[i] = u[i]
  BY <1>1, <1>2, <1>3
<1>5. f = u
  BY <1>2, <1>3, <1>4, SameList
<1> QED BY <1>5 DEF f, g, u

LEMMA RemoteLine ==
  ASSUME NEW rs, NEW n, NEW h, NEW x, NEW y, NEW c
  PROVE  ReadLine(Inside(rs, Entry(n, h, x, y)), [tag |-> "R", command |-> c])
           = Inside(rs, Entry(n, h, Append(x, c), y))
  BY DEF ReadLine, Inside, Entry

LEMMA LocalLine ==
  ASSUME NEW rs, NEW n, NEW h, NEW x, NEW y, NEW a
  PROVE  ReadLine(Inside(rs, Entry(n, h, x, y)), [tag |-> "L", action |-> a])
           = Inside(rs, Entry(n, h, x, Append(y, a)))
  BY DEF ReadLine, Inside, Entry

LEMMA ReadAs ==
  ASSUME NEW d, NEW s, Len(s) \in Nat, NEW want, want[0] = d,
         \A i \in 1..Len(s) : want[i] = ReadLine(want[i - 1], s[i])
  PROVE  ReadOn(d, s) = want[Len(s)]
<1> DEFINE n == Len(s)
           e == [i \in 0..n |-> want[i]]
<1>1. n \in Nat /\ n \in 0..n /\ n <= n
  OBVIOUS
<1> HIDE DEF n
<1>2. \A i \in 0..n : e[i] = IF i = 0 THEN d ELSE ReadLine(e[i - 1], s[i])
  <2> SUFFICES ASSUME NEW i \in 0..n, i # 0 PROVE e[i] = ReadLine(e[i - 1], s[i])
    OBVIOUS
  <2>1. i \in 1..n /\ i - 1 \in 0..n
    BY <1>1
  <2> QED BY <2>1 DEF n
<1>3. e = [i \in 0..n |-> e[i]] /\ e[n] = want[n]
  BY <1>1
<1> HIDE DEF e
<1>4. Reading(e, d, s, n)
  BY <1>2, <1>3 DEF Reading
<1>5. PICK f : Reading(f, d, s, n) /\ ReadOn(d, s) = f[n]
  BY <1>1, ReadOnIs DEF n
<1>6. \A i \in 0..n : e[i] = f[i]
  <2>1. \A i \in 1..n : s[i] = s[i]
    OBVIOUS
  <2> QED BY ONLY <1>1, <1>4, <1>5, <2>1, ReadingAgrees
<1> QED BY <1>1, <1>3, <1>5, <1>6 DEF n

LEMMA ReadRemote ==
  ASSUME NEW rs, NEW n, NEW h, NEW s, List(s)
  PROVE  ReadOn(Inside(rs, Entry(n, h, <<>>, <<>>)), RemoteLines(s))
           = Inside(rs, Entry(n, h, s, <<>>))
<1> DEFINE m == Len(s)
           ls == RemoteLines(s)
           Upto(k) == SubSeq(s, 1, k)
           want == [k \in 0..m |-> Inside(rs, Entry(n, h, Upto(k), <<>>))]
<1>1. /\ m \in Nat /\ Len(ls) = m
      /\ \A i \in 1..m : ls[i] = [tag |-> "R", command |-> s[i]]
  BY ListParts, LinesAreLists DEF RemoteLines
<1>2. \A k \in 1..m : Upto(k) = Append(Upto(k - 1), s[k])
  BY FrontGrows
<1>3. Upto(0) = <<>> /\ Upto(m) = s
  BY <1>1, SubSeqEmpty, SubSeqFull DEF List
<1> HIDE DEF m, ls, Upto
<1>4. want[0] = Inside(rs, Entry(n, h, <<>>, <<>>)) /\ want[m] = Inside(rs, Entry(n, h, s, <<>>))
  BY <1>1, <1>3
<1>5. ASSUME NEW i \in 1..m PROVE want[i] = ReadLine(want[i - 1], ls[i])
  <2>1. i - 1 \in 0..m /\ i \in 0..m
    BY <1>1
  <2>2. want[i] = Inside(rs, Entry(n, h, Upto(i), <<>>))
        /\ want[i - 1] = Inside(rs, Entry(n, h, Upto(i - 1), <<>>))
    BY <2>1
  <2>3. ls[i] = [tag |-> "R", command |-> s[i]] /\ Upto(i) = Append(Upto(i - 1), s[i])
    BY <1>1, <1>2
  <2> HIDE DEF want
  <2> QED BY <2>2, <2>3, RemoteLine
<1> HIDE DEF want
<1>6. ReadOn(Inside(rs, Entry(n, h, <<>>, <<>>)), ls) = want[m]
  BY <1>1, <1>4, <1>5, ReadAs
<1> QED BY <1>4, <1>6 DEF ls

LEMMA ReadLocal ==
  ASSUME NEW rs, NEW n, NEW h, NEW x, NEW s, List(s)
  PROVE  ReadOn(Inside(rs, Entry(n, h, x, <<>>)), LocalLines(s))
           = Inside(rs, Entry(n, h, x, s))
<1> DEFINE m == Len(s)
           ls == LocalLines(s)
           Upto(k) == SubSeq(s, 1, k)
           want == [k \in 0..m |-> Inside(rs, Entry(n, h, x, Upto(k)))]
<1>1. /\ m \in Nat /\ Len(ls) = m
      /\ \A i \in 1..m : ls[i] = [tag |-> "L", action |-> s[i]]
  BY ListParts, LinesAreLists DEF LocalLines
<1>2. \A k \in 1..m : Upto(k) = Append(Upto(k - 1), s[k])
  BY FrontGrows
<1>3. Upto(0) = <<>> /\ Upto(m) = s
  BY <1>1, SubSeqEmpty, SubSeqFull DEF List
<1> HIDE DEF m, ls, Upto
<1>4. want[0] = Inside(rs, Entry(n, h, x, <<>>)) /\ want[m] = Inside(rs, Entry(n, h, x, s))
  BY <1>1, <1>3
<1>5. ASSUME NEW i \in 1..m PROVE want[i] = ReadLine(want[i - 1], ls[i])
  <2>1. i - 1 \in 0..m /\ i \in 0..m
    BY <1>1
  <2>2. want[i] = Inside(rs, Entry(n, h, x, Upto(i)))
        /\ want[i - 1] = Inside(rs, Entry(n, h, x, Upto(i - 1)))
    BY <2>1
  <2>3. ls[i] = [tag |-> "L", action |-> s[i]] /\ Upto(i) = Append(Upto(i - 1), s[i])
    BY <1>1, <1>2
  <2> HIDE DEF want
  <2> QED BY <2>2, <2>3, LocalLine
<1> HIDE DEF want
<1>6. ReadOn(Inside(rs, Entry(n, h, x, <<>>)), ls) = want[m]
  BY <1>1, <1>4, <1>5, ReadAs
<1> QED BY <1>4, <1>6 DEF ls

-----------------------------------------------------------------------------
(* The tape.  A record, and all of them, read back as they were written. *)

\* Records as Record and EditRecord make them: their commands come in lists.
Proper(r) ==
  /\ r = Entry(r.step, r.hash, r.input.remote, r.input.local)
  /\ List(r.input.remote) /\ List(r.input.local)

LEMMA OneLine ==
  ASSUME NEW line
  PROVE  /\ List(<<line>>)
         /\ \A d : ReadOn(d, <<line>>) = ReadLine(d, line)
<1>1. <<line>> = Append(<<>>, line)
  OBVIOUS
<1>2. List(Append(<<>>, line))
  BY EmptyList, ListAppend
<1>3. ASSUME NEW d PROVE ReadOn(d, Append(<<>>, line)) = ReadLine(d, line)
  <2>1. List(<<>>)
    BY EmptyList
  <2>2. ReadOn(d, Append(<<>>, line)) = ReadLine(ReadOn(d, <<>>), line)
    BY ONLY <2>1, ReadOneMore
  <2> QED BY <2>2, ReadNothing
<1> QED BY <1>1, <1>2, <1>3

LEMMA ReadRecord ==
  ASSUME NEW rs, NEW r, Proper(r)
  PROVE  List(LinesOf(r)) /\ ReadOn(Between(rs), LinesOf(r)) = Between(Append(rs, r))
<1> DEFINE x == r.input.remote
           y == r.input.local
           first == [tag |-> "S", step |-> r.step, hash |-> r.hash]
           end   == [tag |-> "E"]
           a == <<first>>
           b == a \o RemoteLines(x)
           c == b \o LocalLines(y)
<1>1. List(RemoteLines(x)) /\ List(LocalLines(y))
  BY LinesAreLists DEF Proper
<1>2. List(a) /\ List(<<end>>)
  BY OneLine
<1>3. LinesOf(r) = c \o <<end>>
  BY DEF LinesOf, RemoteLines, LocalLines
<1>4. ReadOn(Between(rs), a) = Inside(rs, Entry(r.step, r.hash, <<>>, <<>>))
  <2>1. ReadLine(Between(rs), first) = Inside(rs, Entry(r.step, r.hash, <<>>, <<>>))
    BY DEF ReadLine, Between, Inside, Entry
  <2> QED BY <2>1, OneLine
<1> HIDE DEF a
<1>5. List(b) /\ ReadOn(Between(rs), b) = Inside(rs, Entry(r.step, r.hash, x, <<>>))
  BY <1>1, <1>2, <1>4, ListConcat, ReadParts, ReadRemote DEF Proper
<1> HIDE DEF b
<1>6. List(c) /\ ReadOn(Between(rs), c) = Inside(rs, Entry(r.step, r.hash, x, y))
  BY <1>1, <1>5, ListConcat, ReadParts, ReadLocal DEF Proper
<1> HIDE DEF c
<1>7. ReadOn(Between(rs), c \o <<end>>) = ReadLine(Inside(rs, r), end)
  <2>1. Inside(rs, Entry(r.step, r.hash, x, y)) = Inside(rs, r)
    BY DEF Proper
  <2> QED BY <1>2, <1>6, <2>1, OneLine, ReadParts
<1>8. ReadLine(Inside(rs, r), end) = Between(Append(rs, r))
  BY DEF ReadLine, Inside
<1>9. List(c \o <<end>>)
  BY <1>2, <1>6, ListConcat
<1> QED BY <1>3, <1>7, <1>8, <1>9

Flattening(f, s, n) == f = [i \in 1..n |-> IF i = 1 THEN s[i] ELSE f[i - 1] \o s[i]]

LEMMA FlatteningExists ==
  ASSUME NEW s, NEW n \in Nat
  PROVE  \E f : Flattening(f, s, n)
<1> DEFINE Bad == {k \in Nat : ~ \E f : Flattening(f, s, k)}
<1> SUFFICES ASSUME Bad # {} PROVE FALSE
  OBVIOUS
<1>1. PICK k \in Bad : \A j \in Bad : k <= j
  BY LeastDistance
<1>2. k # 0
  <2> DEFINE f == [i \in 1..0 |-> s]
  <2>1. Flattening(f, s, 0)
    BY DEF Flattening
  <2> QED BY <2>1
<1>3. k \in Nat /\ k > 0 /\ k - 1 \in Nat
  BY <1>1, <1>2
<1>4. PICK e : Flattening(e, s, k - 1)
  BY <1>1, <1>3
<1> DEFINE f == [i \in 1..k |-> IF i < k THEN e[i]
                               ELSE IF k = 1 THEN s[k] ELSE e[k - 1] \o s[k]]
<1>5. \A i \in 1..k : f[i] = IF i = 1 THEN s[i] ELSE f[i - 1] \o s[i]
  <2> SUFFICES ASSUME NEW i \in 1..k
               PROVE  f[i] = IF i = 1 THEN s[i] ELSE f[i - 1] \o s[i]
    OBVIOUS
  <2>1. \A j \in 1..k - 1 : e[j] = IF j = 1 THEN s[j] ELSE e[j - 1] \o s[j]
    BY <1>4 DEF Flattening
  <2>2. CASE i = k /\ k = 1
    BY <2>2
  <2>3. CASE i = k /\ k # 1
    <3>1. k - 1 \in 1..k /\ k - 1 < k /\ k \in 1..k /\ ~ k < k
      BY <1>3, <2>3
    <3>2. f[k - 1] = e[k - 1] /\ f[k] = e[k - 1] \o s[k]
      BY <2>3, <3>1
    <3> QED BY <2>3, <3>2
  <2>4. CASE i # k /\ i # 1
    <3>1. f[i] = e[i] /\ f[i - 1] = e[i - 1] /\ i \in 1..k - 1
      BY <1>3, <2>4
    <3> QED BY <2>1, <2>4, <3>1
  <2>5. CASE i # k /\ i = 1
    <3>1. f[1] = e[1] /\ 1 \in 1..k - 1
      BY <1>3, <2>5
    <3> QED BY <2>1, <2>5, <3>1
  <2> QED BY <2>2, <2>3, <2>4, <2>5
<1>6. Flattening(f, s, k)
  <2>1. f = [i \in 1..k |-> f[i]]
    OBVIOUS
  <2> HIDE DEF f
  <2>2. f = [i \in 1..k |-> IF i = 1 THEN s[i] ELSE f[i - 1] \o s[i]]
    BY <1>5, <2>1
  <2> QED BY <2>2 DEF Flattening
<1> QED BY <1>1, <1>6

LEMMA FlattenIs ==
  ASSUME NEW s, Len(s) \in Nat, Len(s) # 0
  PROVE  \E f : Flattening(f, s, Len(s)) /\ FlattenSeq(s) = f[Len(s)]
<1> DEFINE flatten == CHOOSE f : Flattening(f, s, Len(s))
<1>1. Flattening(flatten, s, Len(s))
  BY FlatteningExists
<1>2. FlattenSeq(s) = flatten[Len(s)]
  BY DEF FlattenSeq, Flattening
<1> QED BY <1>1, <1>2

AllLines(records) == FlattenSeq([i \in DOMAIN records |-> LinesOf(records[i])])

LEMMA ReadRecords ==
  ASSUME NEW records, List(records), \A i \in 1..Len(records) : Proper(records[i])
  PROVE  /\ List(AllLines(records))
         /\ ReadOn(Between(<<>>), AllLines(records)) = Between(records)
<1> DEFINE n == Len(records)
           seqs == [i \in DOMAIN records |-> LinesOf(records[i])]
           Upto(k) == SubSeq(records, 1, k)
<1>1. n \in Nat /\ DOMAIN records = 1..n
  BY ListParts
<1>2. List(seqs) /\ Len(seqs) = n /\ \A i \in 1..n : seqs[i] = LinesOf(records[i])
  <2>1. DOMAIN seqs = 1..n /\ seqs = [i \in 1..n |-> seqs[i]]
    BY <1>1
  <2>2. \A i \in 1..n : seqs[i] = LinesOf(records[i])
    BY <1>1
  <2> HIDE DEF seqs, n
  <2> QED BY <1>1, <2>1, <2>2, FunctionIsList
<1>3. \A k \in 1..n : Upto(k) = Append(Upto(k - 1), records[k])
  BY FrontGrows
<1>4. Upto(0) = <<>> /\ Upto(n) = records
  BY <1>1, SubSeqEmpty, SubSeqFull DEF List
<1>5. AllLines(records) = FlattenSeq(seqs)
  BY DEF AllLines
<1>6. \A i \in 1..n : Proper(records[i])
  OBVIOUS
<1> HIDE DEF seqs, n, Upto
<1>7. CASE n = 0
  <2>1. seqs = <<>> /\ records = <<>>
    BY <1>2, <1>7, EmptyList DEF n
  <2>2. FlattenSeq(seqs) = <<>>
    BY <1>2, <1>7, <2>1 DEF FlattenSeq
  <2> QED BY <1>5, <2>1, <2>2, EmptyList, ReadNothing
<1>8. CASE n # 0
  <2>1. PICK f : Flattening(f, seqs, n) /\ FlattenSeq(seqs) = f[n]
    BY <1>1, <1>2, <1>8, FlattenIs
  <2>2. \A i \in 1..n : f[i] = IF i = 1 THEN seqs[i] ELSE f[i - 1] \o seqs[i]
    BY <2>1 DEF Flattening
  <2> DEFINE ReadsSoFar(k) == List(f[k]) /\ ReadOn(Between(<<>>), f[k]) = Between(Upto(k))
             Bad == {k \in 1..n : ~ ReadsSoFar(k)}
  <2> HIDE DEF ReadsSoFar
  <2>3. Bad = {}
    <3> SUFFICES ASSUME Bad # {} PROVE FALSE
      OBVIOUS
    <3>1. PICK k \in Bad : \A j \in Bad : k <= j
      <4>1. Bad \subseteq Nat
        BY <1>1
      <4> HIDE DEF Bad
      <4> QED BY <4>1, LeastDistance
    <3>2. k \in 1..n /\ ~ ReadsSoFar(k)
      BY <3>1
    <3>3. k # 1
      <4>1. ASSUME k = 1 PROVE ReadsSoFar(k)
        <5>1. f[1] = LinesOf(records[1]) /\ 1 - 1 = 0 /\ 1 \in 1..n
          BY <1>2, <2>2, <3>2, <4>1
        <5>2. Upto(1) = Append(<<>>, records[1])
          BY <1>3, <1>4, <5>1
        <5> QED BY <1>6, <4>1, <5>1, <5>2, ReadRecord DEF ReadsSoFar
      <4> QED BY <3>2, <4>1
    <3>4. k - 1 \in 1..n /\ ~ k <= k - 1
      BY <1>1, <3>2, <3>3
    <3>5. ReadsSoFar(k - 1)
      BY <3>1, <3>4
    <3>6. f[k] = f[k - 1] \o LinesOf(records[k]) /\ Proper(records[k])
      BY <1>2, <1>6, <2>2, <3>2, <3>3
    <3> DEFINE g == f[k - 1]
               l == LinesOf(records[k])
    <3>7. /\ List(l)
          /\ ReadOn(Between(Upto(k - 1)), l) = Between(Append(Upto(k - 1), records[k]))
      BY <3>6, ReadRecord
    <3>8. List(g) /\ ReadOn(Between(<<>>), g) = Between(Upto(k - 1))
      BY <3>5 DEF ReadsSoFar
    <3>9. f[k] = g \o l /\ Upto(k) = Append(Upto(k - 1), records[k])
      BY <1>3, <3>2, <3>6
    <3> HIDE DEF g, l
    <3>10. List(g \o l) /\ ReadOn(Between(<<>>), g \o l) = Between(Upto(k))
      BY <3>7, <3>8, <3>9, ListConcat, ReadParts
    <3> QED BY <3>2, <3>9, <3>10 DEF ReadsSoFar
  <2>4. n \in 1..n
    BY <1>1, <1>8
  <2>5. ReadsSoFar(n)
    BY <2>3, <2>4
  <2> QED BY <1>4, <1>5, <2>1, <2>5 DEF ReadsSoFar
<1> QED BY <1>7, <1>8

-----------------------------------------------------------------------------
(* The tape, encoded, cut and decoded. *)

TapeOf(seed, records) == [seed |-> seed, records |-> records]

Header(seed) == [tag |-> "TTR2", seed |-> seed]

ProperTape(t) == List(t.records) /\ \A i \in 1..Len(t.records) : Proper(t.records[i])

\* u is s followed by t.
Joined(u, s, t) ==
  /\ List(u) /\ Len(u) = Len(s) + Len(t)
  /\ \A i \in 1..Len(s) : u[i] = s[i]
  /\ \A i \in 1..Len(t) : u[Len(s) + i] = t[i]

LEMMA Joins ==
  ASSUME NEW s, List(s), NEW t, List(t)
  PROVE  Joined(s \o t, s, t)
  BY ListConcat DEF Joined

LEMMA TailOf ==
  ASSUME NEW x, NEW s, List(s)
  PROVE  /\ List(<<x>> \o s) /\ Len(<<x>> \o s) = Len(s) + 1
         /\ (<<x>> \o s)[1] = x /\ <<x>> \o s # <<>>
         /\ Tail(<<x>> \o s) = s
<1> DEFINE u == <<x>> \o s
           a == <<x>>
<1>1. List(a) /\ Len(a) = 1 /\ a[1] = x
  BY OneLine
<1>2. Len(s) \in Nat
  BY ListParts
<1>3. /\ List(u) /\ Len(u) = 1 + Len(s) /\ \A i \in 1..1 : u[i] = a[i]
      /\ \A i \in 1..Len(s) : u[1 + i] = s[i]
  <2>1. u = a \o s
    OBVIOUS
  <2> HIDE DEF a, u
  <2>2. Joined(u, a, s)
    BY <1>1, <2>1, Joins
  <2> QED BY <1>1, <2>2 DEF Joined
<1> HIDE DEF u, a
<1>4. u # <<>>
  BY <1>2, <1>3, EmptyList
<1>5. /\ Tail(u) \in Seq(Range(u)) /\ Len(Tail(u)) = Len(u) - 1
      /\ \A i \in 1..Len(Tail(u)) : Tail(u)[i] = u[i + 1]
  BY <1>3, <1>4, HeadTailProperties DEF List
<1>6. List(Tail(u)) /\ Len(Tail(u)) = Len(s)
  <2>1. List(Tail(u))
    BY ONLY <1>5, ListMade
  <2> QED BY <1>2, <1>3, <1>5, <2>1
<1>7. \A i \in 1..Len(Tail(u)) : Tail(u)[i] = s[i]
  BY <1>2, <1>3, <1>5, <1>6
<1>8. Tail(u) = s
  BY <1>6, <1>7, SameList
<1> QED BY <1>1, <1>2, <1>3, <1>4, <1>8 DEF u, a

LEMMA EncodeIs ==
  ASSUME NEW t, ProperTape(t)
  PROVE  /\ Encode(t) = <<Header(t.seed)>> \o AllLines(t.records)
         /\ List(AllLines(t.records)) /\ List(Encode(t))
         /\ ReadOn(Between(<<>>), AllLines(t.records)) = Between(t.records)
<1>1. Encode(t) = <<Header(t.seed)>> \o AllLines(t.records)
  BY DEF Encode, Header, AllLines
<1>2. /\ List(AllLines(t.records))
      /\ ReadOn(Between(<<>>), AllLines(t.records)) = Between(t.records)
  BY ReadRecords DEF ProperTape
<1> QED BY <1>1, <1>2, TailOf

\* What the lines after a header decode to.
LEMMA DecodeIs ==
  ASSUME NEW seed, NEW s, List(s)
  PROVE  LET d == ReadOn(Between(<<>>), s)
         IN Decode(<<Header(seed)>> \o s)
              = IF d.at # "between" THEN Rejected ELSE TapeOf(seed, d.records)
<1> DEFINE u == <<Header(seed)>> \o s
<1>1. u # <<>> /\ u[1] = Header(seed) /\ Tail(u) = s
  BY TailOf
<1>2. Body(u) = ReadOn(Between(<<>>), s)
  BY <1>1 DEF Body
<1> HIDE DEF u
<1>3. u[1].tag = "TTR2" /\ u[1].seed = seed
  BY <1>1 DEF Header
<1>4. Decode(u) = IF Body(u).at # "between" THEN Rejected ELSE TapeOf(seed, Body(u).records)
  BY <1>1, <1>3 DEF Decode, TapeOf
<1> QED BY <1>2, <1>4 DEF u

\* decode reads back what encode wrote.
LEMMA RoundTrip ==
  ASSUME NEW t, ProperTape(t)
  PROVE  Decode(Encode(t)) = TapeOf(t.seed, t.records)
<1>1. Between(t.records).at = "between" /\ Between(t.records).records = t.records
  BY DEF Between
<1>2. /\ Encode(t) = <<Header(t.seed)>> \o AllLines(t.records)
      /\ List(AllLines(t.records))
      /\ ReadOn(Between(<<>>), AllLines(t.records)) = Between(t.records)
  BY EncodeIs
<1> DEFINE a == AllLines(t.records)
           d == ReadOn(Between(<<>>), a)
<1>3. Decode(<<Header(t.seed)>> \o a)
        = IF d.at # "between" THEN Rejected ELSE TapeOf(t.seed, d.records)
  BY <1>2, DecodeIs
<1> QED BY <1>1, <1>2, <1>3

\* The beginning of a tape reads as a beginning of its records, or as no tape.
LEMMA CutReads ==
  ASSUME NEW t, ProperTape(t), NEW k \in 0..Len(Encode(t)),
         NEW l, l = SubSeq(Encode(t), 1, k), Decode(l) # Rejected
  PROVE  Decode(l).seed = t.seed /\ IsPrefix(Decode(l).records, t.records)
<1> DEFINE u == Encode(t)
           a == AllLines(t.records)
<1>1. /\ u = <<Header(t.seed)>> \o a /\ List(a) /\ List(u)
      /\ ReadOn(Between(<<>>), a) = Between(t.records)
  BY EncodeIs
<1> HIDE DEF u, a
<1>2. /\ Len(u) = Len(a) + 1 /\ Len(a) \in Nat /\ Len(u) \in Nat
      /\ u[1] = Header(t.seed) /\ \A i \in 1..Len(a) : u[i + 1] = a[i]
  <2>1. Len(a) \in Nat
    BY <1>1, ListParts
  <2> DEFINE h == <<Header(t.seed)>>
  <2>2. List(h) /\ Len(h) = 1 /\ h[1] = Header(t.seed)
    BY OneLine
  <2>3. u = h \o a
    BY <1>1
  <2> HIDE DEF h
  <2>4. /\ Len(u) = 1 + Len(a) /\ \A i \in 1..1 : u[i] = h[i]
        /\ \A i \in 1..Len(a) : u[1 + i] = a[i]
    BY <1>1, <2>2, <2>3, ListConcat
  <2> QED BY <2>1, <2>2, <2>4
<1>3. k \in 0..Len(u) /\ l = SubSeq(u, 1, k)
  BY DEF u
<1>4. List(l) /\ Len(l) = k /\ \A i \in 1..k : l[i] = u[i]
  BY <1>1, <1>3, ListFront
<1>5. k # 0
  <2>1. k = 0 => l = <<>>
    BY <1>4, EmptyList
  <2>2. l = <<>> => Decode(l) = Rejected
    BY DEF Decode
  <2> QED BY <2>1, <2>2
<1>6. k \in Nat /\ k - 1 \in 0..Len(a) /\ k - 1 \in Nat /\ 1 + (k - 1) = k
  BY <1>2, <1>3, <1>5
<1> DEFINE front == SubSeq(a, 1, k - 1)
           rest  == SubSeq(a, k, Len(a))
<1>7. List(front) /\ Len(front) = k - 1 /\ \A i \in 1..k - 1 : front[i] = a[i]
  BY <1>1, <1>6, ListFront
<1>8. List(rest) /\ a = front \o rest
  <2>1. a \in Seq(Range(a)) /\ k \in 1..Len(a) + 1
    BY <1>1, <1>2, <1>3, <1>5 DEF List
  <2>2. rest \in Seq(Range(a)) /\ Len(rest) = Len(a) - k + 1
        /\ \A i \in 1..Len(rest) : rest[i] = a[k + i - 1]
    <3>1. k \in 1..Len(a) + 1 /\ Len(a) \in k - 1..Len(a)
      BY <1>2, <1>6, <2>1
    <3>2. ASSUME NEW i \in 1..Len(a) - k + 1
          PROVE  k + i - 1 \in 1..Len(a)
      BY <1>2, <2>1
    <3>3. Len(a) - k + 1 \in Nat
      BY <1>2, <2>1
    <3>4. rest = [i \in 1..Len(a) - k + 1 |-> a[k + i - 1]]
      BY <1>2, <1>6, SMTT(30)
    <3> HIDE DEF rest
    <3>5. rest \in [1..Len(a) - k + 1 -> Range(a)]
      <4>1. DOMAIN a = 1..Len(a)
        BY <1>1, ListParts
      <4> QED BY <3>2, <3>4, <4>1 DEF Range
    <3>6. rest \in Seq(Range(a))
      BY <3>3, <3>5, SeqDef
    <3> QED BY <3>3, <3>4, <3>5, <3>6, LenProperties
  <2> HIDE DEF rest, front
  <2>3. List(rest)
    BY <2>2, ListMade
  <2>4. /\ List(front \o rest) /\ Len(front \o rest) = k - 1 + Len(rest)
        /\ \A i \in 1..k - 1 : (front \o rest)[i] = front[i]
        /\ \A i \in 1..Len(rest) : (front \o rest)[k - 1 + i] = rest[i]
    <3>1. Joined(front \o rest, front, rest)
      BY <1>7, <2>3, Joins
    <3> QED BY <1>7, <3>1 DEF Joined
  <2>5. Len(front \o rest) = Len(a)
    BY <1>2, <1>6, <2>2, <2>4
  <2>6. ASSUME NEW i \in 1..Len(a) PROVE a[i] = (front \o rest)[i]
    <3>1. CASE i \in 1..k - 1
      BY <1>7, <2>4, <3>1
    <3>2. CASE i \notin 1..k - 1
      <4>1. i - k + 1 \in 1..Len(rest) /\ k - 1 + (i - k + 1) = i /\ k + (i - k + 1) - 1 = i
        BY <1>2, <1>6, <2>1, <2>2, <3>2
      <4>2. rest[i - k + 1] = a[i] /\ (front \o rest)[i] = rest[i - k + 1]
        BY <2>2, <2>4, <4>1
      <4> QED BY <4>2
    <3> QED BY <3>1, <3>2
  <2> QED BY <1>1, <2>3, <2>4, <2>5, <2>6, SameList
<1> HIDE DEF front, rest
<1>9. l = <<Header(t.seed)>> \o front
  <2> DEFINE h == <<Header(t.seed)>>
             v == h \o front
  <2>1. List(h) /\ Len(h) = 1 /\ h[1] = Header(t.seed)
    BY OneLine
  <2> HIDE DEF h
  <2>2. /\ List(v) /\ Len(v) = 1 + (k - 1) /\ \A i \in 1..1 : v[i] = h[i]
        /\ \A i \in 1..k - 1 : v[1 + i] = front[i]
    <3>1. Joined(v, h, front)
      BY <1>7, <2>1, Joins
    <3> QED BY <1>7, <2>1, <3>1 DEF Joined
  <2> HIDE DEF v
  <2>3. ASSUME NEW i \in 1..k PROVE l[i] = v[i]
    <3>1. CASE i = 1
      BY <1>2, <1>4, <2>1, <2>2, <3>1
    <3>2. CASE i # 1
      <4>1. i - 1 \in 1..k - 1 /\ 1 + (i - 1) = i /\ i - 1 + 1 = i /\ i - 1 \in 1..Len(a)
        BY <1>6, <3>2
      <4>2. l[i] = u[i] /\ u[i] = a[i - 1] /\ front[i - 1] = a[i - 1] /\ v[i] = front[i - 1]
        <5>1. u[i - 1 + 1] = a[i - 1] /\ v[1 + (i - 1)] = front[i - 1]
          BY <1>2, <2>2, <4>1
        <5> QED BY <1>4, <1>7, <4>1, <5>1
      <4> QED BY <4>2
    <3> QED BY <3>1, <3>2
  <2>4. l = v
    BY <1>4, <1>6, <2>2, <2>3, SameList
  <2> QED BY <2>4 DEF v, h
<1> DEFINE d == ReadOn(Between(<<>>), front)
<1>10. Grows(<<>>, d.records)
  <2>1. Between(<<>>).records = <<>> /\ List(<<>>)
    BY EmptyList DEF Between
  <2> QED BY <1>7, <2>1, ReadGrows
<1>11. Grows(d.records, t.records)
  <2>1. ReadOn(Between(<<>>), a) = ReadOn(d, rest)
    BY <1>7, <1>8, ReadParts
  <2>2. List(d.records)
    BY <1>10 DEF Grows
  <2> HIDE DEF d
  <2>3. Grows(d.records, ReadOn(d, rest).records)
    BY <1>8, <2>2, ReadGrows
  <2>4. Between(t.records).records = t.records
    BY DEF Between
  <2> QED BY <1>1, <2>1, <2>3, <2>4
<1>12. Decode(l) = TapeOf(t.seed, d.records)
  BY <1>7, <1>9, DecodeIs
<1> QED BY <1>11, <1>12 DEF Grows, TapeOf

-----------------------------------------------------------------------------
(* The tape, verified. *)

IsTape(t) == t = TapeOf(t.seed, t.records) /\ List(t.records)

\* The first k records.
Beginning(t, k) == [t EXCEPT !.records = SubSeq(@, 1, k)]

LEMMA InputsAreList ==
  ASSUME NEW t, List(t.records)
  PROVE  /\ List(InputsOf(t)) /\ Len(InputsOf(t)) = Len(t.records)
         /\ \A i \in 1..Len(t.records) : InputsOf(t)[i] = t.records[i].input
<1> DEFINE f == InputsOf(t)
           n == Len(t.records)
<1>1. n \in Nat /\ DOMAIN t.records = 1..n
  BY ListParts
<1>2. DOMAIN f = 1..n /\ f = [i \in 1..n |-> f[i]]
      /\ \A i \in 1..n : f[i] = t.records[i].input
  BY <1>1 DEF InputsOf
<1> HIDE DEF f, n
<1>3. List(f) /\ Len(f) = n
  BY <1>1, <1>2, FunctionIsList
<1> QED BY <1>2, <1>3 DEF f, n

\* A beginning of a tape replays as the tape does.
LEMMA BeginningReplays ==
  ASSUME NEW t, IsTape(t), NEW k \in 0..Len(t.records),
         NEW b, b = Beginning(t, k)
  PROVE  /\ IsTape(b) /\ b.seed = t.seed /\ Len(b.records) = k
         /\ \A i \in 1..k : b.records[i] = t.records[i]
         /\ \A i \in 0..k : Sessions(b.seed, InputsOf(b))[i] = Sessions(t.seed, InputsOf(t))[i]
<1>1. b = TapeOf(t.seed, SubSeq(t.records, 1, k))
  BY DEF IsTape, TapeOf, Beginning
<1>2. b.seed = t.seed /\ b.records = SubSeq(t.records, 1, k)
  BY <1>1 DEF TapeOf
<1>3. List(t.records)
  BY DEF IsTape
<1>4. /\ List(b.records) /\ Len(b.records) = k
      /\ \A i \in 1..k : b.records[i] = t.records[i]
  BY <1>2, <1>3, ListFront
<1>5. IsTape(b)
  BY <1>1, <1>2, <1>4 DEF IsTape
<1> DEFINE n == Len(t.records)
           x == InputsOf(b)
           y == InputsOf(t)
           e == Sessions(t.seed, x)
           f == Sessions(t.seed, y)
<1>6. k \in Nat /\ n \in Nat /\ k <= n
  BY <1>3, ListParts
<1>7. /\ Len(x) = k /\ Len(y) = n
      /\ \A i \in 1..k : x[i] = b.records[i].input
      /\ \A i \in 1..n : y[i] = t.records[i].input
  BY <1>3, <1>4, InputsAreList
<1>8. \A i \in 1..k : x[i] = y[i]
  BY <1>4, <1>6, <1>7
<1> HIDE DEF n, x, y
<1>9. Played(e, t.seed, x, k) /\ Played(f, t.seed, y, n)
  BY <1>6, <1>7, SessionsIs
<1> HIDE DEF e, f
<1>10. \A i \in 0..k : e[i] = f[i]
  <2>1. k \in Nat /\ n \in Nat /\ k <= n
    BY <1>6
  <2>2. Played(e, t.seed, x, k) /\ Played(f, t.seed, y, n)
    BY <1>9
  <2> DEFINE seed == t.seed
  <2> HIDE DEF seed
  <2>3. Played(e, seed, x, k) /\ Played(f, seed, y, n)
    BY <2>2 DEF seed
  <2> QED BY ONLY <1>8, <2>1, <2>3, PlayedAgrees
<1>11. \A i \in 0..k : Sessions(b.seed, InputsOf(b))[i] = Sessions(t.seed, InputsOf(t))[i]
  BY <1>2, <1>10 DEF e, f, x, y
<1> QED BY <1>2, <1>4, <1>5, <1>11

LEMMA BeginningMismatches ==
  ASSUME NEW t, IsTape(t), NEW k \in 0..Len(t.records),
         NEW b, b = Beginning(t, k)
  PROVE  /\ Mismatches(b) = {i \in 1..k : i \in Mismatches(t)}
         /\ \A i \in 1..k : TransitionHash(b.seed, InputsOf(b), i)
                              = TransitionHash(t.seed, InputsOf(t), i)
<1>1. /\ IsTape(b) /\ b.seed = t.seed /\ Len(b.records) = k
      /\ \A i \in 1..k : b.records[i] = t.records[i]
      /\ \A i \in 0..k : Sessions(b.seed, InputsOf(b))[i] = Sessions(t.seed, InputsOf(t))[i]
  BY BeginningReplays
<1>2. /\ DOMAIN b.records = 1..k /\ DOMAIN t.records = 1..Len(t.records)
      /\ Len(t.records) \in Nat
  BY <1>1, ListParts DEF IsTape
<1>3. 1..k \subseteq 0..k /\ 1..k \subseteq 1..Len(t.records)
  BY <1>2
<1>4. \A i \in 1..k : TransitionHash(b.seed, InputsOf(b), i)
                        = TransitionHash(t.seed, InputsOf(t), i)
  BY <1>1, <1>3 DEF TransitionHash
<1> QED BY <1>1, <1>2, <1>3, <1>4 DEF Mismatches

\* What replay_and_verify says of a failed tape, it says of its minimal failing prefix.
LEMMA FailureReproduced ==
  ASSUME NEW t, IsTape(t), NEW v, v = Verify(t), ~ v.ok
  PROVE  /\ Verify(Beginning(t, v.step - 1)).ok
         /\ Verify(Beginning(t, v.step)) = v
         /\ Len(Beginning(t, v.step).records) = v.step
<1> DEFINE bad == Mismatches(t)
           k == Least(bad)
           n == Len(t.records)
           a == Beginning(t, k - 1)
           b == Beginning(t, k)
<1>1. n \in Nat /\ DOMAIN t.records = 1..n
  BY ListParts DEF IsTape
<1>2. bad # {}
  BY DEF Verify
<1>3. v = [ok |-> FALSE, step |-> k, expected |-> t.records[k].hash,
           actual |-> TransitionHash(t.seed, InputsOf(t), k)]
  BY <1>2 DEF Verify
<1>4. bad \subseteq Nat
  BY <1>1 DEF Mismatches
<1>5. k \in bad /\ \A j \in bad : k <= j
  <2> HIDE DEF bad
  <2>1. \E i \in bad : \A j \in bad : i <= j
    BY <1>2, <1>4, LeastDistance
  <2> QED BY <2>1 DEF Least
<1>6. k \in 1..n
  BY <1>1, <1>5 DEF Mismatches
<1>7. v.step = k
  BY <1>3
<1> HIDE DEF bad, k, n
<1>8. k - 1 \in 0..n /\ k \in 0..n /\ k \in 1..k /\ k \in Nat
  BY <1>1, <1>6
<1>9. Verify(a).ok
  <2>1. Mismatches(a) = {i \in 1..k - 1 : i \in bad}
    BY <1>8, BeginningMismatches DEF n, bad
  <2>2. \A i \in bad : i \notin 1..k - 1
    BY <1>4, <1>5, <1>8
  <2>3. Mismatches(a) = {}
    BY <2>1, <2>2
  <2> HIDE DEF a
  <2> QED BY <2>3 DEF Verify
<1>10. /\ Mismatches(b) = {i \in 1..k : i \in bad}
       /\ \A i \in 1..k : TransitionHash(b.seed, InputsOf(b), i)
                            = TransitionHash(t.seed, InputsOf(t), i)
  BY <1>8, BeginningMismatches DEF n, bad
<1>11. Len(b.records) = k /\ b.records[k] = t.records[k]
  BY <1>8, BeginningReplays DEF n
<1> HIDE DEF b
<1>12. Least(Mismatches(b)) = k
  <2>1. k \in Mismatches(b) /\ \A j \in Mismatches(b) : k <= j /\ j <= k /\ j \in Nat
    BY <1>4, <1>5, <1>8, <1>10
  <2>2. \A i \in Mismatches(b) : (\A j \in Mismatches(b) : i <= j) <=> i = k
    BY <1>8, <2>1
  <2> QED BY <2>1, <2>2 DEF Least
<1>13. Verify(b) = v
  <2>1. Mismatches(b) # {}
    BY <1>5, <1>8, <1>10
  <2>2. Verify(b) = [ok |-> FALSE, step |-> k, expected |-> b.records[k].hash,
                     actual |-> TransitionHash(b.seed, InputsOf(b), k)]
    BY <1>12, <2>1 DEF Verify
  <2> QED BY <1>3, <1>8, <1>10, <1>11, <2>2
<1> QED BY <1>7, <1>9, <1>11, <1>13 DEF a, b

LEMMA RecordParts ==
  ASSUME NEW seed, NEW inputs, List(inputs),
         NEW t, t = Record(seed, inputs)
  PROVE  /\ t.seed = seed /\ InputsOf(t) = inputs
         /\ List(t.records) /\ Len(t.records) = Len(inputs)
         /\ \A i \in 1..Len(inputs) :
              t.records[i] = [step |-> i - 1, input |-> inputs[i],
                              hash |-> TransitionHash(seed, inputs, i)]
         /\ t.final = Sessions(seed, inputs)[Len(inputs)]
<1> DEFINE n == Len(inputs)
           r == t.records
<1>1. n \in Nat /\ DOMAIN inputs = 1..n /\ inputs = [i \in 1..n |-> inputs[i]]
  BY ListParts
<1>2. /\ t.seed = seed /\ t.final = Sessions(seed, inputs)[n]
      /\ r = [i \in DOMAIN inputs |-> [step  |-> i - 1, input |-> inputs[i],
                                       hash  |-> TransitionHash(seed, inputs, i)]]
  BY DEF Record
<1>3. /\ DOMAIN r = 1..n /\ r = [i \in 1..n |-> r[i]]
      /\ \A i \in 1..n : r[i] = [step |-> i - 1, input |-> inputs[i],
                                 hash |-> TransitionHash(seed, inputs, i)]
  BY <1>1, <1>2
<1>4. InputsOf(t) = inputs
  <2>1. ASSUME NEW i \in 1..n PROVE r[i].input = inputs[i]
    <3>1. r[i] = [step |-> i - 1, input |-> inputs[i],
                  hash |-> TransitionHash(seed, inputs, i)]
      BY <1>3
    <3> HIDE DEF r
    <3> QED BY <3>1
  <2>2. InputsOf(t) = [i \in 1..n |-> r[i].input]
    BY <1>3 DEF InputsOf
  <2> HIDE DEF r, n
  <2> QED BY <1>1, <2>1, <2>2
<1> HIDE DEF r, n
<1>5. List(r) /\ Len(r) = n
  BY <1>1, <1>3, FunctionIsList
<1> QED BY <1>2, <1>3, <1>4, <1>5 DEF r, n

\* A recording verifies, and ends where it ended.
LEMMA RecordingVerifies ==
  ASSUME NEW seed, NEW inputs, List(inputs),
         NEW t, t = Record(seed, inputs)
  PROVE  Verify(TapeOf(t.seed, t.records)) = [ok |-> TRUE, session |-> t.final]
<1> DEFINE u == TapeOf(t.seed, t.records)
<1>1. u.seed = t.seed /\ u.records = t.records
  BY DEF TapeOf
<1>2. /\ t.seed = seed /\ InputsOf(t) = inputs
      /\ List(t.records) /\ Len(t.records) = Len(inputs)
      /\ \A i \in 1..Len(inputs) :
           t.records[i] = [step |-> i - 1, input |-> inputs[i],
                           hash |-> TransitionHash(seed, inputs, i)]
      /\ t.final = Sessions(seed, inputs)[Len(inputs)]
  BY RecordParts
<1>3. InputsOf(u) = inputs
  BY <1>1, <1>2 DEF InputsOf
<1> HIDE DEF u
<1>4. DOMAIN u.records = 1..Len(inputs)
  BY <1>1, <1>2, ListParts
<1>5. ASSUME NEW i \in 1..Len(inputs)
      PROVE  u.records[i].hash = TransitionHash(seed, inputs, i)
  <2>1. t.records[i] = [step |-> i - 1, input |-> inputs[i],
                        hash |-> TransitionHash(seed, inputs, i)]
    BY <1>2
  <2> QED BY <1>1, <2>1
<1>6. Mismatches(u) = {}
  BY <1>1, <1>2, <1>3, <1>4, <1>5 DEF Mismatches
<1>7. Verify(u) = [ok |-> TRUE, session |-> Sessions(seed, inputs)[Len(inputs)]]
  BY <1>1, <1>2, <1>3, <1>6 DEF Verify
<1> QED BY <1>2, <1>7 DEF u

-----------------------------------------------------------------------------
(* The life of a tape. *)

\* The tape holds what a session did with lists of inputs.
Recorded(t) ==
  /\ t = Record(t.seed, InputsOf(t))
  /\ List(InputsOf(t))
  /\ \A i \in 1..Len(InputsOf(t)) : InputsOf(t)[i] \in Inputs

\* What storage holds, by what happened to it.
Stored ==
  /\ List(file)
  /\ work = "record" => damage = "none"
  /\ work # "record" /\ damage = "none" => file = Encode(tape)
  /\ damage = "cut" => \/ \E n \in 0..Len(Encode(tape)) : file = SubSeq(Encode(tape), 1, n)
                       \/ file = <<Header(file[1].seed)>>

ReplayInv ==
  /\ work \in {"record", "store", "verify", "done"}
  /\ Recorded(tape)
  /\ Stored
  /\ work \in {"verify", "done"} => loaded = Decode(file)
  /\ work = "done" => verdict = Verify(loaded)

LEMMA InputIsProper ==
  ASSUME NEW input \in Inputs, NEW s, NEW h
  PROVE  Proper([step |-> s, input |-> input, hash |-> h])
<1>1. input.remote \in Remotes /\ input.local \in Locals
      /\ input = [remote |-> input.remote, local |-> input.local]
  BY DEF Inputs
<1>2. List(input.remote) /\ List(input.local)
  BY <1>1, ReplayAssumption DEF List
<1> QED BY <1>1, <1>2 DEF Proper, Entry

LEMMA RecordedIsProper ==
  ASSUME NEW t, Recorded(t)
  PROVE  /\ ProperTape(t)
         /\ t = [seed |-> t.seed, records |-> t.records, final |-> t.final]
<1> DEFINE inputs == InputsOf(t)
<1>1. List(inputs) /\ t = Record(t.seed, inputs) /\ \A i \in 1..Len(inputs) : inputs[i] \in Inputs
  BY DEF Recorded
<1> HIDE DEF inputs
<1>2. /\ List(t.records) /\ Len(t.records) = Len(inputs)
      /\ \A i \in 1..Len(inputs) :
           t.records[i] = [step |-> i - 1, input |-> inputs[i],
                           hash |-> TransitionHash(t.seed, inputs, i)]
  BY <1>1, RecordParts
<1>3. ASSUME NEW i \in 1..Len(t.records) PROVE Proper(t.records[i])
  BY <1>1, <1>2, InputIsProper
<1>4. t = [seed |-> t.seed, records |-> t.records, final |-> t.final]
  BY <1>1 DEF Record
<1> QED BY <1>2, <1>3, <1>4 DEF ProperTape

LEMMA EditedIsProper ==
  ASSUME NEW t, Recorded(t), NEW i \in DOMAIN t.records, NEW input \in Inputs, NEW h,
         NEW r, r = [t.records[i] EXCEPT !.input = input, !.hash = h]
  PROVE  ProperTape([t EXCEPT !.records[i] = r])
<1> DEFINE u == [t EXCEPT !.records[i] = r]
           n == Len(t.records)
<1>1. /\ ProperTape(t)
      /\ t = [seed |-> t.seed, records |-> t.records, final |-> t.final]
  BY RecordedIsProper
<1>2. n \in Nat /\ DOMAIN t.records = 1..n /\ \A j \in 1..n : Proper(t.records[j])
  BY <1>1, ListParts DEF ProperTape
<1>3. u.records = [t.records EXCEPT ![i] = r]
  BY <1>1
<1>4. DOMAIN u.records = 1..n /\ u.records = [j \in 1..n |-> u.records[j]]
      /\ \A j \in 1..n : u.records[j] = IF j = i THEN r ELSE t.records[j]
  BY <1>2, <1>3
<1> DEFINE s == t.records[i].step
<1>5. Proper(r)
  <2>1. t.records[i] = Entry(s, t.records[i].hash, t.records[i].input.remote, t.records[i].input.local)
    BY <1>2 DEF Proper
  <2>2. r = [step |-> s, input |-> input, hash |-> h]
    BY <2>1 DEF Entry
  <2> HIDE DEF s
  <2>3. Proper([step |-> s, input |-> input, hash |-> h])
    BY InputIsProper
  <2> QED BY <2>2, <2>3
<1> HIDE DEF u, n
<1>6. List(u.records) /\ Len(u.records) = n
  BY <1>2, <1>4, FunctionIsList
<1> QED BY <1>2, <1>4, <1>5, <1>6 DEF ProperTape, u

LEMMA NewRecordIsRecorded ==
  ASSUME NEW t, Recorded(t), NEW input \in Inputs
  PROVE  Recorded(Record(t.seed, Append(InputsOf(t), input)))
<1> DEFINE x == InputsOf(t)
           y == Append(x, input)
           u == Record(t.seed, y)
<1>1. List(x) /\ \A i \in 1..Len(x) : x[i] \in Inputs
  BY DEF Recorded
<1>2. Len(x) \in Nat
  BY <1>1, ListParts
<1> HIDE DEF x
<1>3. /\ List(y) /\ Len(y) = Len(x) + 1
      /\ \A i \in 1..Len(x) : y[i] = x[i]
      /\ y[Len(x) + 1] = input
  BY <1>1, ListAppend
<1>4. \A i \in 1..Len(y) : y[i] \in Inputs
  BY <1>1, <1>2, <1>3
<1> HIDE DEF y
<1>5. u.seed = t.seed /\ InputsOf(u) = y
  BY <1>3, RecordParts
<1>6. Recorded(u)
  BY <1>3, <1>4, <1>5 DEF Recorded
<1> QED BY <1>6 DEF u, x, y

LEMMA DecodedIsTape ==
  ASSUME NEW l, List(l)
  PROVE  IsTape(Decode(l))
<1> DEFINE d == Body(l)
<1>1. IsTape(Rejected)
  BY EmptyList DEF Rejected, IsTape, TapeOf
<1>2. CASE l # <<>>
  <2>1. List(Tail(l))
    <3>1. Tail(l) \in Seq(Range(l))
      BY <1>2 DEF List
    <3> QED BY <3>1, ListMade
  <2>2. Between(<<>>).records = <<>> /\ List(<<>>)
    BY EmptyList DEF Between
  <2>3. Grows(<<>>, d.records)
    BY <2>1, <2>2, ReadGrows DEF Body
  <2>4. Decode(l) = Rejected \/ Decode(l) = TapeOf(l[1].seed, d.records)
    BY DEF Decode, TapeOf
  <2> HIDE DEF d
  <2>5. IsTape(TapeOf(l[1].seed, d.records))
    BY <2>3 DEF Grows, IsTape, TapeOf
  <2> QED BY <1>1, <2>4, <2>5
<1>3. CASE l = <<>>
  BY <1>1, <1>3 DEF Decode
<1> QED BY <1>2, <1>3

LEMMA ReplayInvInit == ReplayInit => ReplayInv
<1> SUFFICES ASSUME ReplayInit PROVE ReplayInv
  OBVIOUS
<1>1. PICK seed \in Seeds : tape = Record(seed, <<>>)
  BY DEF ReplayInit
<1>2. tape.seed = seed /\ InputsOf(tape) = <<>>
  BY <1>1, EmptyList, RecordParts
<1>3. Recorded(tape)
  BY <1>1, <1>2, EmptyList DEF Recorded
<1>4. Stored
  BY EmptyList DEF ReplayInit, Stored
<1> QED BY <1>3, <1>4 DEF ReplayInit, ReplayInv

LEMMA CutStored ==
  ASSUME NEW t, ProperTape(t), NEW n \in 0..Len(Encode(t)) - 1
  PROVE  List(SubSeq(Encode(t), 1, n)) /\ n \in 0..Len(Encode(t))
<1> DEFINE u == Encode(t)
<1>1. List(u) /\ Len(u) \in Nat
  BY EncodeIs, ListParts
<1> HIDE DEF u
<1>2. n \in 0..Len(u)
  BY <1>1 DEF u
<1> QED BY <1>1, <1>2, ListFront DEF u

LEMMA ReplayInvNext == ReplayInv /\ [ReplayNext]_replayVars => ReplayInv'
<1> SUFFICES ASSUME ReplayInv, [ReplayNext]_replayVars PROVE ReplayInv'
  OBVIOUS
<1>1. /\ work \in {"record", "store", "verify", "done"}
      /\ Recorded(tape) /\ Stored
      /\ work \in {"verify", "done"} => loaded = Decode(file)
      /\ work = "done" => verdict = Verify(loaded)
  BY DEF ReplayInv
<1>2. ProperTape(tape)
  BY <1>1, RecordedIsProper
<1>3. CASE RecordStep
  <2>1. PICK input \in Inputs : tape' = Record(tape.seed, Append(InputsOf(tape), input))
    BY <1>3 DEF RecordStep
  <2>2. Recorded(tape')
    BY <1>1, <2>1, NewRecordIsRecorded
  <2>3. work = "record" /\ UNCHANGED <<work, file, damage, loaded, verdict>>
    BY <1>3 DEF RecordStep
  <2>4. Stored'
    BY <1>1, <2>3 DEF Stored
  <2> QED BY <1>1, <2>2, <2>3, <2>4 DEF ReplayInv
<1>4. CASE WriteTape
  <2>1. /\ work = "record" /\ work' = "store" /\ file' = Encode(tape)
        /\ UNCHANGED <<tape, damage, loaded, verdict>>
    BY <1>4 DEF WriteTape
  <2>2. List(file')
    BY <1>2, <2>1, EncodeIs
  <2>3. Stored'
    BY <1>1, <2>1, <2>2 DEF Stored
  <2> QED BY <1>1, <2>1, <2>3 DEF ReplayInv
<1>5. CASE CutFile
  <2>1. PICK n \in 0..Len(file) - 1 : Damage("cut", SubSeq(file, 1, n))
    BY <1>5 DEF CutFile
  <2>2. /\ work = "store" /\ damage = "none" /\ damage' = "cut"
        /\ file' = SubSeq(file, 1, n) /\ UNCHANGED <<work, tape, loaded, verdict>>
    BY <2>1 DEF Damage
  <2>3. file = Encode(tape)
    BY <1>1, <2>2 DEF Stored
  <2>4. List(file') /\ n \in 0..Len(Encode(tape))
    BY <1>2, <2>2, <2>3, CutStored
  <2>5. Stored'
    BY <2>2, <2>3, <2>4 DEF Stored
  <2> QED BY <1>1, <2>2, <2>5 DEF ReplayInv
<1>6. CASE CutHeader
  <2>1. PICK seed \in CutSeed[tape.seed] : Damage("cut", <<[tag |-> "TTR2", seed |-> seed]>>)
    BY <1>6 DEF CutHeader
  <2>2. /\ work = "store" /\ damage = "none" /\ damage' = "cut"
        /\ file' = <<Header(seed)>> /\ UNCHANGED <<work, tape, loaded, verdict>>
    BY <2>1 DEF Damage, Header
  <2>3. List(file') /\ file'[1] = Header(seed)
    BY <2>2, OneLine
  <2>4. file' = <<Header(file'[1].seed)>>
    BY <2>2, <2>3 DEF Header
  <2>5. Stored'
    BY <2>2, <2>3, <2>4 DEF Stored
  <2> QED BY <1>1, <2>2, <2>5 DEF ReplayInv
<1>7. CASE EditRecord
  <2>1. PICK i \in DOMAIN tape.records, input \in Inputs, d \in {Digest[s] : s \in DOMAIN Digest} :
          LET r == [tape.records[i] EXCEPT !.input = input, !.hash = <<i, d>>]
          IN Damage("edit", Encode([tape EXCEPT !.records[i] = r]))
    BY <1>7 DEF EditRecord
  <2> DEFINE r == [tape.records[i] EXCEPT !.input = input, !.hash = <<i, d>>]
             u == [tape EXCEPT !.records[i] = r]
  <2>2. /\ work = "store" /\ damage = "none" /\ damage' = "edit"
        /\ file' = Encode(u) /\ UNCHANGED <<work, tape, loaded, verdict>>
    BY <2>1 DEF Damage
  <2>3. ProperTape(u)
    BY <1>1, EditedIsProper
  <2> HIDE DEF u
  <2>4. List(file')
    BY <2>2, <2>3, EncodeIs
  <2>5. Stored'
    BY <2>2, <2>4 DEF Stored
  <2> QED BY <1>1, <2>2, <2>5 DEF ReplayInv
<1>8. CASE ReadTape
  <2>1. /\ work = "store" /\ work' = "verify" /\ loaded' = Decode(file)
        /\ UNCHANGED <<tape, file, damage, verdict>>
    BY <1>8 DEF ReadTape
  <2>2. Stored'
    BY <1>1, <2>1 DEF Stored
  <2> QED BY <1>1, <2>1, <2>2 DEF ReplayInv
<1>9. CASE VerifyTape
  <2>1. /\ work = "verify" /\ work' = "done" /\ verdict' = Verify(loaded)
        /\ UNCHANGED <<tape, file, damage, loaded>>
    BY <1>9 DEF VerifyTape
  <2>2. Stored'
    BY <1>1, <2>1 DEF Stored
  <2> QED BY <1>1, <2>1, <2>2 DEF ReplayInv
<1>10. CASE UNCHANGED replayVars
  <2>1. UNCHANGED <<work, tape, file, damage, loaded, verdict>>
    BY <1>10 DEF replayVars
  <2>2. Stored'
    BY <1>1, <2>1 DEF Stored
  <2> QED BY <1>1, <2>1, <2>2 DEF ReplayInv
<1> QED BY <1>3, <1>4, <1>5, <1>6, <1>7, <1>8, <1>9, <1>10 DEF ReplayNext

LEMMA ReplayStates == ReplayInit /\ [][ReplayNext]_replayVars => []ReplayInv
<1> QED BY ReplayInvInit, ReplayInvNext, PTL

\* A tape stored whole is read as it was recorded, and verifies.
THEOREM WholeAlwaysVerifies ==
  ReplayInit /\ [][ReplayNext]_replayVars => []WholeTapeVerifies
<1>1. ReplayInv => WholeTapeVerifies
  <2> SUFFICES ASSUME ReplayInv, work = "done", damage = "none"
               PROVE  /\ loaded.seed = tape.seed /\ loaded.records = tape.records
                      /\ verdict = [ok |-> TRUE, session |-> tape.final]
    BY DEF WholeTapeVerifies
  <2>1. /\ Recorded(tape) /\ file = Encode(tape) /\ loaded = Decode(file)
        /\ verdict = Verify(loaded)
    BY DEF ReplayInv, Stored
  <2>2. loaded = TapeOf(tape.seed, tape.records)
    BY <2>1, RecordedIsProper, RoundTrip
  <2>3. Verify(TapeOf(tape.seed, tape.records)) = [ok |-> TRUE, session |-> tape.final]
    BY <2>1, RecordingVerifies DEF Recorded
  <2> QED BY <2>1, <2>2, <2>3 DEF TapeOf
<1> QED BY <1>1, ReplayStates, PTL

\* A tape cut short is rejected or a beginning of the one recorded.
THEOREM CutAlwaysPrefix ==
  ReplayInit /\ [][ReplayNext]_replayVars => []CutTapeIsPrefix
<1>1. ReplayInv => CutTapeIsPrefix
  <2> SUFFICES ASSUME ReplayInv, work # "store", damage = "cut", loaded # Rejected
               PROVE  /\ IsPrefix(loaded.records, tape.records)
                      /\ loaded.records # <<>> => loaded.seed = tape.seed
    BY DEF CutTapeIsPrefix
  <2>1. work # "record"
    BY DEF ReplayInv, Stored
  <2>2. loaded = Decode(file) /\ ProperTape(tape)
    BY <2>1, RecordedIsProper DEF ReplayInv
  <2>3. \/ \E n \in 0..Len(Encode(tape)) : file = SubSeq(Encode(tape), 1, n)
        \/ file = <<Header(file[1].seed)>>
    BY DEF ReplayInv, Stored
  <2>4. CASE \E n \in 0..Len(Encode(tape)) : file = SubSeq(Encode(tape), 1, n)
    <3>1. PICK n \in 0..Len(Encode(tape)) : file = SubSeq(Encode(tape), 1, n)
      BY <2>4
    <3>2. Decode(file).seed = tape.seed /\ IsPrefix(Decode(file).records, tape.records)
      BY <2>2, <3>1, CutReads
    <3> QED BY <2>2, <3>2
  <2>5. CASE file = <<Header(file[1].seed)>>
    <3> DEFINE seed == file[1].seed
    <3> HIDE DEF seed
    <3>1. file = <<Header(seed)>> \o <<>>
      BY <2>5 DEF seed
    <3>2. ReadOn(Between(<<>>), <<>>) = Between(<<>>)
      BY ReadNothing
    <3>3. Decode(<<Header(seed)>> \o <<>>) = TapeOf(seed, <<>>)
      <4>1. Between(<<>>).at = "between" /\ Between(<<>>).records = <<>>
        BY DEF Between
      <4> QED BY <3>2, <4>1, EmptyList, DecodeIs
    <3>4. loaded.records = <<>>
      BY <2>2, <3>1, <3>3 DEF TapeOf
    <3>5. IsPrefix(<<>>, tape.records)
      <4>1. List(tape.records) /\ Len(tape.records) \in Nat
        BY <2>2, ListParts DEF ProperTape
      <4> QED BY <4>1, EmptyList, PrefixIs
    <3> QED BY <3>4, <3>5
  <2> QED BY <2>3, <2>4, <2>5
<1> QED BY <1>1, ReplayStates, PTL

\* What fails to verify fails at the same record, in the same way, in its minimal prefix.
THEOREM MismatchAlwaysReproduced ==
  ReplayInit /\ [][ReplayNext]_replayVars => []MismatchReproduced
<1>1. ReplayInv => MismatchReproduced
  <2> SUFFICES ASSUME ReplayInv, work = "done", ~ verdict.ok
               PROVE  /\ Verify([loaded EXCEPT !.records = SubSeq(@, 1, verdict.step - 1)]).ok
                      /\ Verify(MinimalFailurePrefix(loaded, verdict.step)) = verdict
                      /\ Len(MinimalFailurePrefix(loaded, verdict.step).records) = verdict.step
    BY DEF MismatchReproduced
  <2>1. List(file) /\ loaded = Decode(file) /\ verdict = Verify(loaded)
    BY DEF ReplayInv, Stored
  <2>2. IsTape(loaded)
    BY <2>1, DecodedIsTape
  <2>3. /\ Verify(Beginning(loaded, verdict.step - 1)).ok
        /\ Verify(Beginning(loaded, verdict.step)) = verdict
        /\ Len(Beginning(loaded, verdict.step).records) = verdict.step
    BY <2>1, <2>2, FailureReproduced
  <2> QED BY <2>3 DEF Beginning, MinimalFailurePrefix
<1> QED BY <1>1, ReplayStates, PTL
-----------------------------------------------------------------------------
(* The screen.  Cells and their positions. *)

Grid(s) == (0 .. s[1] - 1) \X (0 .. s[2] - 1)

LEMMA DivideParts ==
  ASSUME NEW w \in Nat \ {0}, NEW k \in Nat
  PROVE  /\ k \div w \in Nat /\ k % w \in 0..w - 1
         /\ k = w * (k \div w) + (k % w)
  BY SMTT(60)

LEMMA ProductGrows ==
  ASSUME NEW w \in Nat, NEW a \in Int, NEW b \in Int, a < b
  PROVE  w * a + w <= w * b
<1>1. PICK c \in Nat : b = a + 1 + c
  <2>1. b - a - 1 \in Nat /\ b = a + 1 + (b - a - 1)
    OBVIOUS
  <2> QED BY <2>1
<1>2. w * b = w * a + w + w * c
  BY <1>1, SMTT(30)
<1>3. w * c \in Nat
  BY SMTT(30)
<1> QED BY <1>2, <1>3

\* Quotient and remainder are unique.
LEMMA DivideUnique ==
  ASSUME NEW w \in Nat \ {0}, NEW q \in Int, NEW r \in 0..w - 1,
         NEW p \in Int, NEW s \in 0..w - 1, w * q + r = w * p + s
  PROVE  q = p /\ r = s
<1>1. w * q \in Int /\ w * p \in Int
  OBVIOUS
<1>2. ~ q < p
  <2> SUFFICES ASSUME q < p PROVE FALSE
    OBVIOUS
  <2>1. w * q + w <= w * p
    BY ProductGrows
  <2> QED BY <1>1, <2>1
<1>3. ~ p < q
  <2> SUFFICES ASSUME p < q PROVE FALSE
    OBVIOUS
  <2>1. w * p + w <= w * q
    BY ProductGrows
  <2> QED BY <1>1, <2>1
<1>4. q = p
  BY <1>2, <1>3
<1> QED BY <1>1, <1>4

LEMMA PosInGrid ==
  ASSUME NEW s \in (Nat \ {0}) \X (Nat \ {0}), NEW i \in 1 .. s[1] * s[2]
  PROVE  /\ Pos(i, s[1]) \in Grid(s)
         /\ i - 1 = s[1] * Pos(i, s[1])[2] + Pos(i, s[1])[1]
<1> DEFINE w == s[1]
           h == s[2]
           q == (i - 1) \div w
           r == (i - 1) % w
<1>1. w \in Nat \ {0} /\ h \in Nat \ {0} /\ i - 1 \in Nat
  OBVIOUS
<1> HIDE DEF w, h
<1>2. q \in Nat /\ r \in 0..w - 1 /\ i - 1 = w * q + r
  BY <1>1, DivideParts
<1>3. i - 1 < w * h
  <2>1. w * h \in Int
    BY <1>1
  <2> QED BY <2>1 DEF w, h
<1>4. q < h
  <2> SUFFICES ASSUME ~ q < h PROVE FALSE
    OBVIOUS
  <2>1. w * q \in Int /\ w * h \in Int
    BY <1>1, <1>2
  <2>2. CASE q = h
    BY <1>2, <1>3, <2>1, <2>2
  <2>3. CASE h < q
    <3>1. w * h + w <= w * q
      BY <1>1, <1>2, <2>3, ProductGrows
    <3> QED BY <1>1, <1>2, <1>3, <2>1, <3>1
  <2> QED BY <1>1, <1>2, <2>2, <2>3
<1>5. Pos(i, w) = <<r, q>>
  BY DEF Pos
<1>6. q \in 0..h - 1
  BY <1>1, <1>2, <1>4
<1> HIDE DEF q, r
<1> QED BY <1>2, <1>5, <1>6 DEF Grid, w, h

\* Different cells are at different positions.
LEMMA PosDiffer ==
  ASSUME NEW s \in (Nat \ {0}) \X (Nat \ {0}),
         NEW i \in 1 .. s[1] * s[2], NEW j \in 1 .. s[1] * s[2], i # j
  PROVE  Pos(i, s[1]) # Pos(j, s[1])
<1> DEFINE p == Pos(i, s[1])
           q == Pos(j, s[1])
<1>1. i - 1 = s[1] * p[2] + p[1] /\ j - 1 = s[1] * q[2] + q[1]
  BY PosInGrid
<1>2. i - 1 # j - 1
  OBVIOUS
<1> HIDE DEF p, q
<1>3. p # q
  BY <1>1, <1>2
<1> QED BY <1>3 DEF p, q

\* The next cell is one to the right, or the first of the row below.
LEMMA PosNext ==
  ASSUME NEW s \in (Nat \ {0}) \X (Nat \ {0}),
         NEW i \in 2 .. s[1] * s[2]
  PROVE  Pos(i, s[1]) = IF Pos(i, s[1])[1] = 0
                        THEN <<0, Pos(i - 1, s[1])[2] + 1>>
                        ELSE <<Pos(i - 1, s[1])[1] + 1, Pos(i - 1, s[1])[2]>>
<1> DEFINE w == s[1]
           a == Pos(i, w)
           b == Pos(i - 1, w)
<1>1. w \in Nat \ {0} /\ s[1] * s[2] \in Int
  OBVIOUS
<1>2. i \in 1 .. s[1] * s[2] /\ i - 1 \in 1 .. s[1] * s[2] /\ i - 1 - 1 = i - 2 /\ i \in Int
  BY <1>1
<1>3. a \in Grid(s) /\ i - 1 = w * a[2] + a[1]
  BY <1>2, PosInGrid
<1>4. b \in Grid(s) /\ i - 2 = w * b[2] + b[1]
  BY <1>2, PosInGrid
<1> HIDE DEF a, b
<1>5. /\ a = <<a[1], a[2]>> /\ a[1] \in 0..w - 1 /\ a[2] \in Nat
      /\ b = <<b[1], b[2]>> /\ b[1] \in 0..w - 1 /\ b[2] \in Nat
  BY <1>3, <1>4 DEF Grid
<1> HIDE DEF w
<1> DEFINE x == w * a[2]
           y == w * b[2]
<1>6. x \in Int /\ y \in Int /\ i - 1 = x + a[1] /\ i - 2 = y + b[1]
  BY <1>1, <1>3, <1>4, <1>5
<1>7. CASE a[1] = 0
  <2>1. w * (b[2] + 1) = y + w
    BY <1>1, <1>5, SMTT(30)
  <2> HIDE DEF x, y
  <2>2. CASE b[1] = w - 1
    <3>1. x + 0 = w * (b[2] + 1) + 0
      BY <1>1, <1>2, <1>5, <1>6, <1>7, <2>1, <2>2
    <3>2. 0 \in 0..w - 1 /\ a[2] \in Int /\ b[2] + 1 \in Int
      BY <1>1, <1>5
    <3>3. a[2] = b[2] + 1
      BY <1>1, <3>1, <3>2, DivideUnique DEF x
    <3> QED BY <1>5, <1>7, <3>3 DEF a, b, w
  <2>3. CASE b[1] # w - 1
    <3>1. x = y + b[1] + 1 /\ b[1] + 1 \in 1..w - 1
      BY <1>1, <1>2, <1>5, <1>6, <1>7, <2>3
    <3>2. CASE a[2] = b[2]
      BY <1>5, <1>6, <3>1, <3>2 DEF x, y
    <3>3. CASE a[2] < b[2]
      <4>1. x + w <= y
        BY <1>1, <1>5, <3>3, ProductGrows DEF x, y
      <4> QED BY <1>1, <1>5, <1>6, <3>1, <4>1
    <3>4. CASE b[2] < a[2]
      <4>1. y + w <= x
        BY <1>1, <1>5, <3>4, ProductGrows DEF x, y
      <4> QED BY <1>1, <1>5, <1>6, <3>1, <4>1
    <3> QED BY <1>5, <3>2, <3>3, <3>4
  <2> QED BY <2>2, <2>3
<1>8. CASE a[1] # 0
  <2> HIDE DEF x, y
  <2>1. x + (a[1] - 1) = y + b[1]
    BY <1>1, <1>2, <1>5, <1>6
  <2>2. a[1] - 1 \in 0..w - 1 /\ a[2] \in Int /\ b[2] \in Int
    BY <1>1, <1>5, <1>8
  <2>3. a[2] = b[2] /\ a[1] - 1 = b[1]
    BY <1>1, <1>5, <2>1, <2>2, DivideUnique DEF x, y
  <2>4. a[1] = b[1] + 1
    BY <1>5, <2>3
  <2> QED BY <1>5, <1>8, <2>3, <2>4 DEF a, b, w
<1> QED BY <1>7, <1>8
-----------------------------------------------------------------------------
(* The screen.  Commands, one after another. *)

Executing(f, d, s, n) ==
  f = [i \in 0..n |-> IF i = 0 THEN d ELSE Execute(f[i - 1], s[i])]

LEMMA ExecutingExists ==
  ASSUME NEW d, NEW s, NEW n \in Nat
  PROVE  \E f : Executing(f, d, s, n)
<1> DEFINE Bad == {k \in Nat : ~ \E f : Executing(f, d, s, k)}
<1> SUFFICES ASSUME Bad # {} PROVE FALSE
  OBVIOUS
<1>1. PICK k \in Bad : \A j \in Bad : k <= j
  BY LeastDistance
<1>2. k # 0
  <2> DEFINE f == [i \in 0..0 |-> d]
  <2>1. Executing(f, d, s, 0)
    BY DEF Executing
  <2> QED BY <2>1
<1>3. k \in Nat /\ k > 0 /\ k - 1 \in Nat
  BY <1>1, <1>2
<1>4. PICK e : Executing(e, d, s, k - 1)
  BY <1>1, <1>3
<1> DEFINE f == [i \in 0..k |-> IF i < k THEN e[i] ELSE Execute(e[k - 1], s[k])]
<1>5. \A i \in 0..k : f[i] = IF i = 0 THEN d ELSE Execute(f[i - 1], s[i])
  <2> SUFFICES ASSUME NEW i \in 0..k
               PROVE  f[i] = IF i = 0 THEN d ELSE Execute(f[i - 1], s[i])
    OBVIOUS
  <2>1. \A j \in 0..k - 1 : e[j] = IF j = 0 THEN d ELSE Execute(e[j - 1], s[j])
    BY <1>4 DEF Executing
  <2>2. CASE i = k
    <3>1. k - 1 \in 0..k /\ k - 1 < k /\ k \in 0..k /\ ~ k < k
      BY <1>3
    <3>2. f[k - 1] = e[k - 1] /\ f[k] = Execute(e[k - 1], s[k])
      BY <3>1
    <3> QED BY <1>2, <2>2, <3>2
  <2>3. CASE i # k /\ i # 0
    <3>1. f[i] = e[i] /\ f[i - 1] = e[i - 1] /\ i \in 0..k - 1
      BY <1>3, <2>3
    <3> QED BY <2>1, <2>3, <3>1
  <2>4. CASE i # k /\ i = 0
    <3>1. f[0] = e[0] /\ 0 \in 0..k - 1
      BY <1>3
    <3> QED BY <2>1, <2>4, <3>1
  <2> QED BY <2>2, <2>3, <2>4
<1>6. Executing(f, d, s, k)
  <2>1. f = [i \in 0..k |-> f[i]]
    OBVIOUS
  <2> HIDE DEF f
  <2>2. f = [i \in 0..k |-> IF i = 0 THEN d ELSE Execute(f[i - 1], s[i])]
    BY <1>5, <2>1
  <2> QED BY <2>2 DEF Executing
<1> QED BY <1>1, <1>6

LEMMA ExecutingAgrees ==
  ASSUME NEW d, NEW s, NEW t, NEW m \in Nat, NEW n \in Nat, m <= n,
         \A i \in 1..m : s[i] = t[i],
         NEW e, Executing(e, d, s, m), NEW f, Executing(f, d, t, n)
  PROVE  \A i \in 0..m : e[i] = f[i]
<1> DEFINE Bad == {i \in 0..m : e[i] # f[i]}
<1> SUFFICES ASSUME Bad # {} PROVE FALSE
  OBVIOUS
<1>1. PICK k \in Bad : \A j \in Bad : k <= j
  <2>1. Bad \subseteq Nat
    OBVIOUS
  <2> HIDE DEF Bad
  <2> QED BY <2>1, LeastDistance
<1>2. /\ \A i \in 0..m : e[i] = IF i = 0 THEN d ELSE Execute(e[i - 1], s[i])
      /\ \A i \in 0..n : f[i] = IF i = 0 THEN d ELSE Execute(f[i - 1], t[i])
  BY DEF Executing
<1>3. k \in 0..m /\ k \in 0..n /\ e[k] # f[k]
  BY <1>1
<1>4. k # 0
  BY <1>2, <1>3
<1>5. k - 1 \in 0..m /\ k \in 1..m /\ ~ k <= k - 1
  BY <1>3, <1>4
<1>6. e[k - 1] = f[k - 1]
  BY <1>1, <1>5
<1> QED BY <1>2, <1>3, <1>4, <1>5, <1>6

LEMMA ExecutedIs ==
  ASSUME NEW d, NEW s, Len(s) \in Nat
  PROVE  \E f : Executing(f, d, s, Len(s)) /\ Executed(d, s) = f[Len(s)]
<1> DEFINE after == CHOOSE f : Executing(f, d, s, Len(s))
<1>1. Executing(after, d, s, Len(s))
  BY ExecutingExists
<1>2. Executed(d, s) = after[Len(s)]
  BY DEF Executed, Executing
<1> QED BY <1>1, <1>2

LEMMA ExecuteNothing ==
  ASSUME NEW d
  PROVE  Executed(d, <<>>) = d
<1>1. Len(<<>>) = 0
  BY EmptyList
<1>2. PICK f : Executing(f, d, <<>>, 0) /\ Executed(d, <<>>) = f[0]
  BY <1>1, ExecutedIs
<1> QED BY <1>2 DEF Executing

LEMMA ExecuteOneMore ==
  ASSUME NEW d, NEW s, List(s), NEW command
  PROVE  Executed(d, Append(s, command)) = Execute(Executed(d, s), command)
<1> DEFINE t == Append(s, command)
           n == Len(s)
<1>1. n \in Nat /\ Len(t) = n + 1 /\ t[n + 1] = command /\ \A i \in 1..n : s[i] = t[i]
  BY ListParts, ListAppend
<1> HIDE DEF t, n
<1>2. PICK e : Executing(e, d, s, n) /\ Executed(d, s) = e[n]
  BY <1>1, ExecutedIs DEF n
<1>3. PICK f : Executing(f, d, t, n + 1) /\ Executed(d, t) = f[n + 1]
  BY <1>1, ExecutedIs
<1>4. n + 1 \in Nat /\ n <= n + 1 /\ n + 1 # 0 /\ n + 1 - 1 = n /\ n + 1 \in 0..n + 1 /\ n \in 0..n
  BY <1>1
<1>5. e[n] = f[n]
  <2>1. \A i \in 0..n : e[i] = f[i]
    BY <1>1, <1>2, <1>3, <1>4, ExecutingAgrees
  <2> QED BY <1>4, <2>1
<1>6. f[n + 1] = Execute(f[n], t[n + 1])
  BY <1>3, <1>4 DEF Executing
<1> QED BY <1>1, <1>2, <1>3, <1>5, <1>6 DEF t

\* A list of commands in two parts is executed one part after the other.
LEMMA ExecuteParts ==
  ASSUME NEW d, NEW s, List(s), NEW t, List(t)
  PROVE  Executed(d, s \o t) = Executed(Executed(d, s), t)
<1> DEFINE n == Len(t)
           Upto(k) == SubSeq(t, 1, k)
           RunsSoFar(k) == Executed(d, s \o Upto(k)) = Executed(Executed(d, s), Upto(k))
           Bad == {k \in 0..n : ~ RunsSoFar(k)}
<1>1. n \in Nat
  BY ListParts
<1>2. Bad = {}
  <2> SUFFICES ASSUME Bad # {} PROVE FALSE
    OBVIOUS
  <2>1. PICK k \in Bad : \A j \in Bad : k <= j
    <3>1. Bad \subseteq Nat
      BY <1>1
    <3> HIDE DEF Bad
    <3> QED BY <3>1, LeastDistance
  <2>2. k \in 0..n /\ ~ RunsSoFar(k) /\ \A j \in 0..n : ~ RunsSoFar(j) => k <= j
    BY <2>1
  <2>3. CASE k = 0
    <3>1. Upto(k) = <<>>
      BY <2>3, ListFront, EmptyList, <1>1
    <3>2. s \o <<>> = s
      BY ConcatEmptySeq DEF List
    <3> QED BY <2>2, <3>1, <3>2, ExecuteNothing
  <2>4. CASE k # 0
    <3>1. k \in Nat /\ k - 1 \in 0..n /\ ~ k <= k - 1 /\ k \in 0..Len(t) /\ k - 1 \in 0..Len(t)
          /\ k - 1 \in 0..k
      BY <1>1, <2>2, <2>4
    <3>2. /\ List(Upto(k)) /\ Len(Upto(k)) = k /\ \A i \in 1..k : Upto(k)[i] = t[i]
          /\ List(Upto(k - 1)) /\ Len(Upto(k - 1)) = k - 1
          /\ \A i \in 1..k - 1 : Upto(k - 1)[i] = t[i]
      BY <3>1, ListFront
    <3>3. RunsSoFar(k - 1)
      BY <2>2, <3>1
    <3> HIDE DEF Upto, n
    <3> DEFINE f == Upto(k)
               g == Upto(k - 1)
    <3>4. f = Append(g, t[k])
      <4>1. /\ List(Append(g, t[k])) /\ Len(Append(g, t[k])) = k - 1 + 1
            /\ \A i \in 1..k - 1 : Append(g, t[k])[i] = g[i]
            /\ Append(g, t[k])[k - 1 + 1] = t[k]
        BY <3>2, ListAppend
      <4>2. \A i \in 1..k : f[i] = Append(g, t[k])[i]
        BY <3>1, <3>2, <4>1
      <4>3. /\ List(f) /\ List(Append(g, t[k])) /\ Len(f) = Len(Append(g, t[k]))
            /\ \A i \in 1..Len(f) : f[i] = Append(g, t[k])[i]
        BY <3>1, <3>2, <4>1, <4>2
      <4> HIDE DEF f, g
      <4> QED BY <4>3, SameList
    <3>5. s \o f = Append(s \o g, t[k])
      <4> DEFINE S == Range(s) \cup Range(g) \cup {t[k]}
      <4>1. s \in Seq(S) /\ g \in Seq(S) /\ t[k] \in S
        BY <3>2, SeqMonotonic DEF List
      <4> HIDE DEF S, g
      <4>2. s \o Append(g, t[k]) = Append(s \o g, t[k])
        BY <4>1
      <4> QED BY <3>4, <4>2
    <3>6. List(s \o g)
      BY <3>2, ListConcat
    <3>7. Executed(d, s \o f) = Execute(Executed(d, s \o g), t[k])
      BY <3>5, <3>6, ExecuteOneMore
    <3>8. Executed(Executed(d, s), f) = Execute(Executed(Executed(d, s), g), t[k])
      BY <3>2, <3>4, ExecuteOneMore
    <3> QED BY <2>2, <3>3, <3>7, <3>8
  <2> QED BY <2>3, <2>4
<1>3. RunsSoFar(n)
  BY <1>1, <1>2
<1>4. SubSeq(t, 1, Len(t)) = t
  BY SubSeqFull DEF List
<1> QED BY <1>3, <1>4
-----------------------------------------------------------------------------
(* The screen.  What single commands do. *)

Whole(t) == t = [cells |-> t.cells, at |-> t.at, pen |-> t.pen]

LEMMA ExecuteWhole ==
  ASSUME NEW t, Whole(t), NEW c
  PROVE  Whole(Execute(t, c))
<1> DEFINE u == Execute(t, c)
           edge == <<size[1] - 1, size[2] - 1>>
<1> SUFFICES Whole(u)
  OBVIOUS
<1>1. t = [cells |-> t.cells, at |-> t.at, pen |-> t.pen]
  BY DEF Whole
<1>2. CASE c.op \in {"clear", "move"}
  <2>1. CASE c.op = "clear"
    <3>1. u = [t EXCEPT !.cells = Spaces(size, t.pen)]
      BY <2>1 DEF Execute
    <3> HIDE DEF u
    <3> QED BY <1>1, <3>1 DEF Whole
  <2>2. CASE c.op = "move"
    <3>1. u = [t EXCEPT !.at = <<Lower(c.arg[1], edge[1]), Lower(c.arg[2], edge[2])>>]
      BY <2>2 DEF Execute
    <3> HIDE DEF u
    <3> QED BY <1>1, <3>1 DEF Whole
  <2> QED BY <1>2, <2>1, <2>2
<1>3. CASE c.op \in {"fg", "bg", "bold", "dim", "reset", "resetcolor"}
  <2>1. PICK pen : u = [t EXCEPT !.pen = pen]
    <3>1. CASE c.op = "fg"
      <4>1. u = [t EXCEPT !.pen.fg = c.arg]
        BY <3>1 DEF Execute
      <4>2. u = [t EXCEPT !.pen = [t.pen EXCEPT !.fg = c.arg]]
        BY <4>1
      <4> QED BY <4>2
    <3>2. CASE c.op = "bg"
      <4>1. u = [t EXCEPT !.pen.bg = c.arg]
        BY <3>2 DEF Execute
      <4>2. u = [t EXCEPT !.pen = [t.pen EXCEPT !.bg = c.arg]]
        BY <4>1
      <4> QED BY <4>2
    <3>3. CASE c.op = "bold"
      <4>1. u = [t EXCEPT !.pen.bold = TRUE]
        BY <3>3 DEF Execute
      <4>2. u = [t EXCEPT !.pen = [t.pen EXCEPT !.bold = TRUE]]
        BY <4>1
      <4> QED BY <4>2
    <3>4. CASE c.op = "dim"
      <4>1. u = [t EXCEPT !.pen.dim = TRUE]
        BY <3>4 DEF Execute
      <4>2. u = [t EXCEPT !.pen = [t.pen EXCEPT !.dim = TRUE]]
        BY <4>1
      <4> QED BY <4>2
    <3>5. CASE c.op = "reset"
      <4>1. u = [t EXCEPT !.pen = PlainPen]
        BY <3>5 DEF Execute
      <4> QED BY <4>1
    <3>6. CASE c.op = "resetcolor"
      <4>1. u = [t EXCEPT !.pen.fg = "default", !.pen.bg = "default"]
        BY <3>6 DEF Execute
      <4>2. u = [t EXCEPT !.pen = [t.pen EXCEPT !.fg = "default", !.bg = "default"]]
        BY <1>1, <4>1
      <4> QED BY <4>2
    <3> QED BY <1>3, <3>1, <3>2, <3>3, <3>4, <3>5, <3>6
  <2> HIDE DEF u
  <2> QED BY <1>1, <2>1 DEF Whole
<1>4. CASE c.op = "print"
  <2>1. u = [t EXCEPT !.cells[t.at] = [ch |-> c.arg, style |-> t.pen],
                      !.at[1] = Lower(t.at[1] + 1, edge[1])]
    BY <1>4 DEF Execute
  <2> HIDE DEF u
  <2> QED BY <1>1, <2>1 DEF Whole
<1>5. CASE c.op \notin {"clear", "move", "fg", "bg", "bold", "dim", "reset", "resetcolor", "print"}
  <2>1. CASE c.op = "newline" /\ t.at[2] < edge[2]
    <3>1. u = [t EXCEPT !.at = <<0, t.at[2] + 1>>]
      BY <2>1 DEF Execute
    <3> HIDE DEF u
    <3> QED BY <1>1, <3>1 DEF Whole
  <2>2. CASE ~ (c.op = "newline" /\ t.at[2] < edge[2])
    <3>1. u = [t EXCEPT !.at = <<0, edge[2]>>,
                        !.cells = [p \in DOMAIN t.cells |->
                          IF p[2] < edge[2] THEN t.cells[<<p[1], p[2] + 1>>]
                                            ELSE Spaces(size, t.pen)[p]]]
      BY <1>5, <2>2 DEF Execute
    <3> HIDE DEF u
    <3> QED BY <1>1, <3>1 DEF Whole
  <2> QED BY <2>1, <2>2
<1> QED BY <1>2, <1>3, <1>4, <1>5

LEMMA ExecutedWhole ==
  ASSUME NEW t, Whole(t), NEW s, List(s)
  PROVE  Whole(Executed(t, s))
<1> DEFINE n == Len(s)
<1>1. n \in Nat
  BY ListParts
<1>2. PICK f : Executing(f, t, s, n) /\ Executed(t, s) = f[n]
  BY <1>1, ExecutedIs
<1>3. \A i \in 0..n : f[i] = IF i = 0 THEN t ELSE Execute(f[i - 1], s[i])
  BY <1>2 DEF Executing
<1> DEFINE Bad == {i \in 0..n : ~ Whole(f[i])}
<1> HIDE DEF n
<1>4. Bad = {}
  <2> SUFFICES ASSUME Bad # {} PROVE FALSE
    OBVIOUS
  <2>1. PICK k \in Bad : \A j \in Bad : k <= j
    <3>1. Bad \subseteq Nat
      BY <1>1
    <3> HIDE DEF Bad
    <3> QED BY <3>1, LeastDistance
  <2>2. k \in 0..n /\ ~ Whole(f[k])
    BY <2>1
  <2>3. k # 0
    BY <1>3, <2>2
  <2>4. k - 1 \in 0..n /\ ~ k <= k - 1
    BY <1>1, <2>2, <2>3
  <2>5. Whole(f[k - 1])
    BY <2>1, <2>4
  <2>6. f[k] = Execute(f[k - 1], s[k])
    BY <1>3, <2>2, <2>3
  <2> QED BY <2>2, <2>5, <2>6, ExecuteWhole
<1>5. Whole(f[n])
  BY <1>1, <1>4
<1> QED BY <1>2, <1>5 DEF n

LEMMA OneCommand ==
  ASSUME NEW t, NEW c
  PROVE  Executed(t, <<c>>) = Execute(t, c)
<1>1. <<c>> = Append(<<>>, c)
  OBVIOUS
<1>2. List(<<>>)
  BY EmptyList
<1>3. Executed(t, Append(<<>>, c)) = Execute(Executed(t, <<>>), c)
  BY ONLY <1>2, ExecuteOneMore
<1> QED BY <1>1, <1>3, ExecuteNothing

\* u is t with another pen.
Repenned(u, t, bold, dim) ==
  Whole(u) /\ u.cells = t.cells /\ u.at = t.at /\ u.pen.bold = bold /\ u.pen.dim = dim

LEMMA ApplyStyleRuns ==
  ASSUME NEW t, Whole(t), NEW style, style.bold \in BOOLEAN, style.dim \in BOOLEAN
  PROVE  /\ List(ApplyStyle(style))
         /\ Repenned(Executed(t, ApplyStyle(style)), t, style.bold, style.dim)
<1> DEFINE a == <<[op |-> "fg", arg |-> style.fg]>>
           b == <<[op |-> "bg", arg |-> style.bg]>>
           c == <<[op |-> "reset"]>>
           x == IF style.bold THEN <<[op |-> "bold"]>> ELSE <<>>
           y == IF style.dim  THEN <<[op |-> "dim"]>>  ELSE <<>>
           t1 == Execute(t, [op |-> "fg", arg |-> style.fg])
           t2 == Execute(t1, [op |-> "bg", arg |-> style.bg])
           t3 == Execute(t2, [op |-> "reset"])
           t4 == Executed(t3, x)
           t5 == Executed(t4, y)
<1>1. ApplyStyle(style) = ((((a \o b) \o c) \o x) \o y)
  BY DEF ApplyStyle
<1>2. List(a) /\ List(b) /\ List(c) /\ List(x) /\ List(y)
  BY OneLine, EmptyList
<1>3. Whole(t1) /\ t1.cells = t.cells /\ t1.at = t.at
  <2>1. t1 = [t EXCEPT !.pen.fg = style.fg]
    BY DEF Execute
  <2> QED BY <2>1 DEF Whole
<1>4. Whole(t2) /\ t2.cells = t.cells /\ t2.at = t.at
  <2>1. t2 = [t1 EXCEPT !.pen.bg = style.bg]
    BY DEF Execute
  <2> HIDE DEF t1
  <2> QED BY <1>3, <2>1 DEF Whole
<1>5. Repenned(t3, t, FALSE, FALSE)
  <2>1. t3 = [t2 EXCEPT !.pen = PlainPen]
    BY DEF Execute
  <2> HIDE DEF t2
  <2> QED BY <1>4, <2>1 DEF Repenned, Whole, PlainPen
<1>6. t3.pen = PlainPen
  <2>1. t3 = [t2 EXCEPT !.pen = PlainPen]
    BY DEF Execute
  <2> HIDE DEF t2
  <2> QED BY <1>4, <2>1 DEF Whole
<1>7. Repenned(t4, t, style.bold, FALSE) /\ t4.pen = [PlainPen EXCEPT !.bold = style.bold]
  <2>1. CASE style.bold
    <3>1. t4 = [t3 EXCEPT !.pen.bold = TRUE]
      <4> HIDE DEF t3, t4
      <4>1. Execute(t3, [op |-> "bold"]) = [t3 EXCEPT !.pen.bold = TRUE]
        BY DEF Execute
      <4>2. t4 = Executed(t3, <<[op |-> "bold"]>>)
        BY <2>1 DEF t4
      <4> QED BY <4>1, <4>2, OneCommand
    <3> HIDE DEF t3, t4
    <3> QED BY <1>5, <1>6, <2>1, <3>1 DEF Repenned, Whole, PlainPen
  <2>2. CASE ~ style.bold
    <3>1. t4 = t3
      BY <2>2, ExecuteNothing
    <3> HIDE DEF t3, t4
    <3> QED BY <1>5, <1>6, <2>2, <3>1 DEF Repenned, PlainPen
  <2> QED BY <2>1, <2>2
<1>8. Repenned(t5, t, style.bold, style.dim)
  <2>1. CASE style.dim
    <3>1. t5 = [t4 EXCEPT !.pen.dim = TRUE]
      <4> HIDE DEF t4, t5
      <4>1. Execute(t4, [op |-> "dim"]) = [t4 EXCEPT !.pen.dim = TRUE]
        BY DEF Execute
      <4>2. t5 = Executed(t4, <<[op |-> "dim"]>>)
        BY <2>1 DEF t5
      <4> QED BY <4>1, <4>2, OneCommand
    <3> HIDE DEF t4, t5
    <3> QED BY <1>7, <2>1, <3>1 DEF Repenned, Whole, PlainPen
  <2>2. CASE ~ style.dim
    <3>1. t5 = t4
      BY <2>2, ExecuteNothing
    <3> HIDE DEF t4, t5
    <3> QED BY <1>7, <2>2, <3>1 DEF Repenned
  <2> QED BY <2>1, <2>2
<1>9. Executed(t, a) = t1 /\ Executed(t1, b) = t2 /\ Executed(t2, c) = t3
  <2> HIDE DEF t1, t2, t3
  <2> QED BY OneCommand DEF t1, t2, t3
<1> HIDE DEF a, b, c, x, y, t1, t2, t3
<1>10. List(a \o b) /\ Executed(t, a \o b) = t2
  BY <1>2, <1>9, ListConcat, ExecuteParts
<1> DEFINE ab == a \o b
<1> HIDE DEF ab
<1>11. List(ab \o c) /\ Executed(t, ab \o c) = t3
  BY <1>2, <1>9, <1>10, ListConcat, ExecuteParts DEF ab
<1> DEFINE abc == ab \o c
<1> HIDE DEF abc
<1>12. List(abc \o x) /\ Executed(t, abc \o x) = t4
  BY <1>2, <1>11, ListConcat, ExecuteParts DEF abc
<1> DEFINE abcx == abc \o x
<1> HIDE DEF abcx
<1>13. List(abcx \o y) /\ Executed(t, abcx \o y) = t5
  BY <1>2, <1>12, ListConcat, ExecuteParts DEF abcx
<1> QED BY <1>1, <1>8, <1>13 DEF abcx, abc, ab

LEMMA LowerOK == \A a, b \in Int : Lower(a, b) = IF a < b THEN a ELSE b
  BY DEF Lower

\* After a character the cursor is one to the right, but in the last column.
Right(p) == <<Lower(p[1] + 1, size[1] - 1), p[2]>>

LEMMA PrintRuns ==
  ASSUME NEW t, Whole(t), NEW p \in Grid(size), t.at = p, NEW ch,
         NEW u, u = Executed(t, <<[op |-> "print", arg |-> ch]>>)
  PROVE  /\ Whole(u) /\ u.at = Right(p) /\ u.pen = t.pen
         /\ u.cells = [t.cells EXCEPT ![p] = [ch |-> ch, style |-> t.pen]]
<1>1. u = [t EXCEPT !.cells[t.at] = [ch |-> ch, style |-> t.pen],
                    !.at[1] = Lower(t.at[1] + 1, size[1] - 1)]
  <2>1. u = Execute(t, [op |-> "print", arg |-> ch])
    BY OneCommand
  <2> QED BY <2>1 DEF Execute
<1>2. p = <<p[1], p[2]>>
  BY DEF Grid
<1>3. [p EXCEPT ![1] = Lower(p[1] + 1, size[1] - 1)] = Right(p)
  BY <1>2 DEF Right
<1>4. /\ u.cells = [t.cells EXCEPT ![p] = [ch |-> ch, style |-> t.pen]]
      /\ u.at = [p EXCEPT ![1] = Lower(p[1] + 1, size[1] - 1)] /\ u.pen = t.pen /\ Whole(u)
  BY <1>1 DEF Whole
<1> QED BY <1>3, <1>4

\* u is t with the cursor at p.
Placed(u, t, p) == Whole(u) /\ u.cells = t.cells /\ u.pen = t.pen /\ u.at = p

LEMMA MoveRuns ==
  ASSUME NEW t, Whole(t), size \in (Nat \ {0}) \X (Nat \ {0}), NEW p \in Grid(size)
  PROVE  List(MoveTo(p)) /\ Placed(Executed(t, MoveTo(p)), t, p)
<1> DEFINE u == Executed(t, MoveTo(p))
<1>1. u = [t EXCEPT !.at = <<Lower(p[1], size[1] - 1), Lower(p[2], size[2] - 1)>>]
  <2>1. u = Execute(t, [op |-> "move", arg |-> p])
    BY OneCommand DEF MoveTo
  <2> HIDE DEF u
  <2> QED BY <2>1 DEF Execute
<1>2. p = <<p[1], p[2]>> /\ p[1] \in 0..size[1] - 1 /\ p[2] \in 0..size[2] - 1
  BY DEF Grid
<1>3. Lower(p[1], size[1] - 1) = p[1] /\ Lower(p[2], size[2] - 1) = p[2]
  BY <1>2 DEF Lower
<1>4. Placed(u, t, p)
  BY <1>1, <1>2, <1>3 DEF Placed, Whole
<1> QED BY <1>4, OneLine DEF MoveTo

LEMMA NewlineRuns ==
  ASSUME NEW t, Whole(t), NEW x, NEW y, t.at = <<x, y>>, y < size[2] - 1
  PROVE  Placed(Executed(t, <<[op |-> "newline"]>>), t, <<0, y + 1>>)
<1> DEFINE u == Executed(t, <<[op |-> "newline"]>>)
<1>1. u = [t EXCEPT !.at = <<0, y + 1>>]
  <2>1. u = Execute(t, [op |-> "newline"])
    BY OneCommand
  <2> HIDE DEF u
  <2> QED BY <2>1 DEF Execute
<1> HIDE DEF u
<1>2. Placed(u, t, <<0, y + 1>>)
  BY <1>1 DEF Placed, Whole
<1> QED BY <1>2 DEF u

\* The commands at the end of a frame.
LEMMA ResetRuns ==
  ASSUME NEW t, Whole(t),
         NEW s, s = <<[op |-> "resetcolor"], [op |-> "reset"]>>
  PROVE  List(s) /\ Whole(Executed(t, s)) /\ Executed(t, s).cells = t.cells
<1> DEFINE a == <<[op |-> "resetcolor"]>>
           b == <<[op |-> "reset"]>>
           u == Execute(t, [op |-> "resetcolor"])
           v == Execute(u, [op |-> "reset"])
<1>1. s = a \o b
  OBVIOUS
<1>2. List(a) /\ List(b)
  BY OneLine
<1>3. u = [t EXCEPT !.pen.fg = "default", !.pen.bg = "default"]
  BY DEF Execute
<1>4. Whole(u) /\ u.cells = t.cells
  <2> HIDE DEF u
  <2> QED BY <1>3 DEF Whole
<1>5. Whole(v) /\ v.cells = t.cells
  <2>1. v = [u EXCEPT !.pen = PlainPen]
    BY DEF Execute
  <2> HIDE DEF u, v
  <2> QED BY <1>4, <2>1 DEF Whole
<1>6. Executed(t, a) = u /\ Executed(u, b) = v
  <2> HIDE DEF u, v
  <2> QED BY OneCommand DEF u, v
<1> HIDE DEF a, b, u, v
<1>7. List(a \o b) /\ Executed(t, a \o b) = v
  BY <1>2, <1>6, ListConcat, ExecuteParts
<1> QED BY <1>1, <1>5, <1>7
-----------------------------------------------------------------------------
(* The screen.  The cells of a frame, one after another. *)

\* A frame of the size s.
FrameOf(b, s) ==
  /\ b.w = s[1] /\ b.h = s[2] /\ b.cells = [i \in 1 .. s[1] * s[2] |-> b.cells[i]]
  /\ \A i \in 1 .. s[1] * s[2] : {b.cells[i].style.bold, b.cells[i].style.dim} \subseteq BOOLEAN

ShowsCell(t, b, i) == Face(t.cells[Pos(i, size[1])]) = Face(b.cells[i])

Shows(t, b) == \A i \in 1 .. size[1] * size[2] : ShowsCell(t, b, i)

Covers(t) == Whole(t) /\ DOMAIN t.cells = Grid(size) /\ t.cells = [p \in Grid(size) |-> t.cells[p]]

\* The pen is that of the cell written last, of those up to i.
PenOf(t, b, written, i) ==
  \A k \in written :
    (k <= i /\ \A j \in written : j <= i => j <= k)
      => t.pen.bold = b.cells[k].style.bold /\ t.pen.dim = b.cells[k].style.dim

\* The cells up to i are written, and the others to write are not.
Progress(t, b, written, home, i) ==
  /\ Covers(t)
  /\ \A j \in 1 .. size[1] * size[2] : (j <= i \/ j \notin written) => ShowsCell(t, b, j)
  /\ i \in written => t.at = Right(Pos(i, size[1]))
  /\ i = 0 => t.at = home
  /\ PenOf(t, b, written, i)

\* What leads a cell moves the cursor to it.
LeadsTo(lead, written, home) ==
  \A i \in written : \A t :
    /\ Covers(t)
    /\ i - 1 \in written => t.at = Right(Pos(i - 1, size[1]))
    /\ i = 1 => t.at = home
    => List(lead[i]) /\ Placed(Executed(t, lead[i]), t, Pos(i, size[1]))

LEMMA MaxOf ==
  ASSUME NEW n \in Nat, NEW S, S \subseteq 1..n, S # {}
  PROVE  Max(S) \in S /\ \A x \in S : x <= Max(S)
<1>1. \E m \in S : \A x \in S : m >= x
  <2> DEFINE T == {n - x : x \in S}
  <2>1. T \subseteq Nat /\ T # {}
    <3>1. \A x \in S : n - x \in Nat
      <4>1. \A x \in 1..n : n - x \in Nat
        OBVIOUS
      <4> QED BY <4>1
    <3> QED BY <3>1
  <2>2. PICK d \in T : \A e \in T : d <= e
    <3> HIDE DEF T
    <3> QED BY <2>1, LeastDistance
  <2>3. PICK m \in S : d = n - m
    BY <2>2
  <2>4. \A x \in S : m >= x
    <3> SUFFICES ASSUME NEW x \in S PROVE m >= x
      OBVIOUS
    <3>1. n - x \in T
      OBVIOUS
    <3>2. n - m <= n - x /\ m \in 1..n /\ x \in 1..n
      BY <2>2, <2>3, <3>1
    <3> QED BY <3>2
  <2> QED BY <2>4
<1>2. Max(S) \in S /\ \A x \in S : Max(S) >= x
  BY <1>1 DEF Max
<1> QED BY <1>2

LEMMA CellRuns ==
  ASSUME size \in (Nat \ {0}) \X (Nat \ {0}), NEW b, FrameOf(b, size),
         NEW written, written \subseteq 1 .. size[1] * size[2],
         NEW home, NEW lead, LeadsTo(lead, written, home),
         NEW i \in written, NEW t, Progress(t, b, written, home, i - 1),
         NEW code, code = CellCode(b, written, i, lead[i])
  PROVE  List(code) /\ Progress(Executed(t, code), b, written, home, i)
<1> DEFINE n == size[1] * size[2]
           cell == b.cells[i]
           before == {j \in written : j < i}
           styled == before # {} /\ b.cells[Max(before)].style = cell.style
           s1 == lead[i]
           s2 == IF styled THEN <<>> ELSE ApplyStyle(cell.style)
           s3 == <<[op |-> "print", arg |-> cell.ch]>>
           p == Pos(i, size[1])
           t1 == Executed(t, s1)
           t2 == Executed(t1, s2)
           t3 == Executed(t2, s3)
<1>1. code = (s1 \o s2) \o s3
  BY DEF CellCode
<1>2. i \in 1..n /\ n \in Nat /\ i - 1 \in 0..n
  OBVIOUS
<1>3. p \in Grid(size)
  BY <1>2, PosInGrid
<1>4. List(s1) /\ Placed(t1, t, p)
  <2>1. /\ Covers(t)
        /\ i - 1 \in written => t.at = Right(Pos(i - 1, size[1]))
        /\ i = 1 => t.at = home
    BY <1>2 DEF Progress
  <2> QED BY <2>1 DEF LeadsTo
<1>5. List(s2) /\ Repenned(t2, t1, cell.style.bold, cell.style.dim)
  <2> HIDE DEF t1, p, n, before
  <2>1. CASE styled
    <3> DEFINE k == Max(before)
    <3>1. before \subseteq 1..n /\ before # {}
      BY <1>2, <2>1 DEF before, n
    <3>2. k \in before /\ \A j \in before : j <= k
      BY <1>2, <3>1, MaxOf
    <3> HIDE DEF k
    <3>3. k \in written /\ k <= i - 1 /\ \A j \in written : j <= i - 1 => j <= k
      BY <1>2, <3>2 DEF before
    <3>4. t.pen.bold = b.cells[k].style.bold /\ t.pen.dim = b.cells[k].style.dim
      BY <3>3 DEF Progress, PenOf
    <3>5. b.cells[k].style = cell.style
      BY <2>1 DEF k
    <3>6. s2 = <<>> /\ t2 = t1
      BY <2>1, ExecuteNothing
    <3> HIDE DEF t2, s2, cell
    <3> QED BY <1>4, <3>4, <3>5, <3>6, EmptyList DEF Repenned, Placed
  <2>2. CASE ~ styled
    <3>1. s2 = ApplyStyle(cell.style)
      BY <2>2
    <3>2. cell.style.bold \in BOOLEAN /\ cell.style.dim \in BOOLEAN
      BY <1>2 DEF FrameOf, n
    <3>3. Whole(t1)
      BY <1>4 DEF Placed
    <3> HIDE DEF s2, cell, styled
    <3> QED BY <3>1, <3>2, <3>3, ApplyStyleRuns
  <2> QED BY <2>1, <2>2
<1>6. /\ List(s3) /\ Whole(t3) /\ t3.at = Right(p) /\ t3.pen = t2.pen
      /\ t3.cells = [t.cells EXCEPT ![p] = [ch |-> cell.ch, style |-> t2.pen]]
  <2> HIDE DEF t1, t2, p, cell, s2
  <2>1. Whole(t2) /\ t2.at = p /\ t2.cells = t.cells
    BY <1>4, <1>5 DEF Repenned, Placed
  <2> QED BY <1>3, <2>1, PrintRuns, OneLine
<1>7. List(code) /\ Executed(t, code) = t3
  <2> HIDE DEF s1, s2, s3, t1, t2, t3
  <2>1. List(s1 \o s2) /\ Executed(t, s1 \o s2) = t2
    BY <1>4, <1>5, ListConcat, ExecuteParts DEF t1, t2
  <2> QED BY <1>1, <1>6, <2>1, ListConcat, ExecuteParts DEF t3
<1>8. t2.pen.bold = cell.style.bold /\ t2.pen.dim = cell.style.dim
  BY <1>5 DEF Repenned
<1>9. Covers(t)
  BY DEF Progress
<1> HIDE DEF t1, t2, t3, p, s1, s2, s3, cell, before, styled
<1>10. /\ Covers(t3) /\ t3.cells[p] = [ch |-> cell.ch, style |-> t2.pen]
       /\ \A q \in Grid(size) : q # p => t3.cells[q] = t.cells[q]
  BY <1>3, <1>6, <1>9 DEF Covers
<1>11. ASSUME NEW j \in 1..n, j <= i \/ j \notin written
       PROVE  ShowsCell(t3, b, j)
  <2>1. CASE j = i
    <3>1. Face(t3.cells[p]) = Face(cell)
      BY <1>8, <1>10 DEF Face
    <3> QED BY <2>1, <3>1 DEF ShowsCell, p, cell
  <2>2. CASE j # i
    <3>1. Pos(j, size[1]) # p /\ Pos(j, size[1]) \in Grid(size)
      BY <1>2, <2>2, PosDiffer, PosInGrid DEF p
    <3>2. j <= i - 1 \/ j \notin written
      BY <1>2, <1>11, <2>2
    <3>3. ShowsCell(t, b, j)
      BY <3>2 DEF Progress
    <3> QED BY <1>10, <3>1, <3>3 DEF ShowsCell
  <2> QED BY <2>1, <2>2
<1>12. PenOf(t3, b, written, i)
  <2> SUFFICES ASSUME NEW k \in written, k <= i, \A j \in written : j <= i => j <= k
               PROVE  t3.pen.bold = b.cells[k].style.bold /\ t3.pen.dim = b.cells[k].style.dim
    BY DEF PenOf
  <2>1. k = i
    BY <1>2
  <2> QED BY <1>6, <1>8, <2>1 DEF cell
<1>13. i # 0 /\ t3.at = Right(Pos(i, size[1]))
  BY <1>2, <1>6 DEF p
<1> QED BY <1>7, <1>10, <1>11, <1>12, <1>13 DEF Progress, n

LEMMA CellSkipped ==
  ASSUME size \in (Nat \ {0}) \X (Nat \ {0}), NEW b, NEW written, NEW home, NEW t,
         NEW i \in 1 .. size[1] * size[2], i \notin written,
         written \subseteq 1 .. size[1] * size[2],
         Progress(t, b, written, home, i - 1)
  PROVE  Progress(t, b, written, home, i)
<1>1. i \in Nat /\ i # 0 /\ \A j \in written \cup 1 .. size[1] * size[2] : j \in Nat
  OBVIOUS
<1>2. \A j \in written : j <= i <=> j <= i - 1
  BY <1>1
<1>3. \A j \in 1 .. size[1] * size[2] :
        (j <= i \/ j \notin written) => (j <= i - 1 \/ j \notin written)
  BY <1>1
<1>4. PenOf(t, b, written, i)
  BY <1>2 DEF Progress, PenOf
<1> QED BY <1>1, <1>3, <1>4 DEF Progress
-----------------------------------------------------------------------------
(* The screen.  A frame, in full and by differences. *)

LEMMA CellsRun ==
  ASSUME size \in (Nat \ {0}) \X (Nat \ {0}), NEW b, FrameOf(b, size),
         NEW written, written \subseteq 1 .. size[1] * size[2],
         NEW home, NEW lead, LeadsTo(lead, written, home),
         NEW t, Progress(t, b, written, home, 0),
         NEW code, code = EncodeCells(b, written, lead)
  PROVE  List(code) /\ Covers(Executed(t, code)) /\ Shows(Executed(t, code), b)
<1> DEFINE n == size[1] * size[2]
           part(i) == IF i \in written THEN CellCode(b, written, i, lead[i]) ELSE <<>>
           parts == [i \in DOMAIN b.cells |-> part(i)]
           end == IF written = {} THEN <<>> ELSE <<[op |-> "resetcolor"], [op |-> "reset"]>>
<1>1. n \in Nat /\ n # 0
  <2>1. \A x, y \in Nat \ {0} : x * y \in Nat /\ x * y # 0
    BY SMTT(30)
  <2> QED BY <2>1
<1>2. DOMAIN b.cells = 1..n
  BY DEF FrameOf
<1>3. code = FlattenSeq(parts) \o end
  BY DEF EncodeCells
<1> HIDE DEF n, part
<1>4. Len(parts) = n /\ \A i \in 1..n : parts[i] = part(i)
  <2>1. DOMAIN parts = 1..n /\ parts = [i \in 1..n |-> parts[i]]
    BY <1>2
  <2>2. \A i \in 1..n : parts[i] = part(i)
    BY <1>2
  <2> HIDE DEF parts
  <2> QED BY <1>1, <2>1, <2>2, FunctionIsList
<1> HIDE DEF parts, end
<1>5. PICK f : Flattening(f, parts, n) /\ FlattenSeq(parts) = f[n]
  BY <1>1, <1>4, FlattenIs
<1>6. \A i \in 1..n : f[i] = IF i = 1 THEN part(i) ELSE f[i - 1] \o part(i)
  BY <1>4, <1>5 DEF Flattening
<1> DEFINE Good(k) == List(f[k]) /\ Progress(Executed(t, f[k]), b, written, home, k)
           Bad == {k \in 1..n : ~ Good(k)}
<1>7. ASSUME NEW k \in 1..n, NEW u, Progress(u, b, written, home, k - 1)
      PROVE  List(part(k)) /\ Progress(Executed(u, part(k)), b, written, home, k)
  <2>1. CASE k \in written
    <3>1. part(k) = CellCode(b, written, k, lead[k])
      BY <2>1 DEF part
    <3> QED BY <1>7, <2>1, <3>1, CellRuns
  <2>2. CASE k \notin written
    <3>1. part(k) = <<>>
      BY <2>2 DEF part
    <3> QED BY <1>7, <2>2, <3>1, CellSkipped, EmptyList, ExecuteNothing DEF n
  <2> QED BY <2>1, <2>2
<1> HIDE DEF Good
<1>8. Bad = {}
  <2> SUFFICES ASSUME Bad # {} PROVE FALSE
    OBVIOUS
  <2>1. PICK k \in Bad : \A j \in Bad : k <= j
    <3>1. Bad \subseteq Nat
      BY <1>1
    <3> HIDE DEF Bad
    <3> QED BY <3>1, LeastDistance
  <2>2. k \in 1..n /\ ~ Good(k)
    BY <2>1
  <2>3. CASE k = 1
    <3>1. f[k] = part(k) /\ k - 1 = 0
      BY <1>6, <2>2, <2>3
    <3> QED BY <1>7, <2>2, <3>1 DEF Good
  <2>4. CASE k # 1
    <3>1. k - 1 \in 1..n /\ ~ k <= k - 1
      BY <1>1, <2>2, <2>4
    <3>2. Good(k - 1)
      BY <2>1, <3>1
    <3>3. f[k] = f[k - 1] \o part(k)
      BY <1>6, <2>2, <2>4
    <3> DEFINE g == f[k - 1]
    <3>4. List(g) /\ Progress(Executed(t, g), b, written, home, k - 1)
      BY <3>2 DEF Good
    <3> HIDE DEF g
    <3>5. /\ List(part(k))
          /\ Progress(Executed(Executed(t, g), part(k)), b, written, home, k)
      BY <1>7, <2>2, <3>4
    <3>6. List(g \o part(k)) /\ Executed(t, g \o part(k)) = Executed(Executed(t, g), part(k))
      BY <3>4, <3>5, ListConcat, ExecuteParts
    <3> QED BY <2>2, <3>3, <3>5, <3>6 DEF Good, g
  <2> QED BY <2>3, <2>4
<1> DEFINE all == FlattenSeq(parts)
           u == Executed(t, all)
<1>9. List(all) /\ Progress(u, b, written, home, n)
  <2>1. n \in 1..n
    BY <1>1
  <2>2. Good(n)
    BY <1>8, <2>1
  <2> QED BY <1>5, <2>2 DEF Good
<1>10. Covers(u) /\ Shows(u, b)
  <2>1. \A j \in 1..n : j <= n
    BY <1>1
  <2> HIDE DEF u
  <2> QED BY <1>9, <2>1 DEF Progress, Shows, n
<1> HIDE DEF all, u
<1>11. List(end) /\ Whole(Executed(u, end)) /\ Executed(u, end).cells = u.cells
  <2>1. Whole(u)
    BY <1>10 DEF Covers
  <2>2. CASE written = {}
    BY <2>1, <2>2, EmptyList, ExecuteNothing DEF end
  <2>3. CASE written # {}
    BY <2>1, <2>3, ResetRuns DEF end
  <2> QED BY <2>2, <2>3
<1>12. List(all \o end) /\ Executed(t, all \o end) = Executed(u, end)
  BY <1>9, <1>11, ListConcat, ExecuteParts DEF u
<1> DEFINE v == Executed(u, end)
<1>13. Covers(v) /\ Shows(v, b)
  <2> HIDE DEF v
  <2>1. Whole(v) /\ v.cells = u.cells
    BY <1>11 DEF v
  <2> QED BY <1>10, <2>1 DEF Covers, Shows, ShowsCell
<1> QED BY <1>3, <1>12, <1>13 DEF all

LEMMA RightIs ==
  ASSUME size \in (Nat \ {0}) \X (Nat \ {0}), NEW i \in 2 .. size[1] * size[2],
         Pos(i, size[1])[1] # 0
  PROVE  Right(Pos(i - 1, size[1])) = Pos(i, size[1])
<1> DEFINE p == Pos(i, size[1])
           q == Pos(i - 1, size[1])
<1>1. size[1] * size[2] \in Int
  OBVIOUS
<1>2. i \in 1 .. size[1] * size[2] /\ i - 1 \in 1 .. size[1] * size[2]
  BY <1>1
<1>3. p \in Grid(size) /\ q \in Grid(size)
  BY <1>2, PosInGrid
<1>4. p = <<q[1] + 1, q[2]>>
  BY PosNext
<1> HIDE DEF p, q
<1>5. p[1] = q[1] + 1 /\ p[1] \in 0 .. size[1] - 1 /\ q[1] \in 0 .. size[1] - 1
  BY <1>3, <1>4 DEF Grid
<1>6. Lower(q[1] + 1, size[1] - 1) = q[1] + 1
  BY <1>5 DEF Lower
<1>7. Right(q) = p
  BY <1>4, <1>6 DEF Right
<1> QED BY <1>7 DEF p, q

LEMMA FullRuns ==
  ASSUME size \in (Nat \ {0}) \X (Nat \ {0}), NEW b, FrameOf(b, size), NEW t, Whole(t)
  PROVE  Covers(Executed(t, EncodeFull(b))) /\ Shows(Executed(t, EncodeFull(b)), b)
<1> DEFINE n == size[1] * size[2]
           clear == <<[op |-> "clear"]>>
           t1 == Executed(t, clear)
           t2 == Executed(t1, MoveTo(<<0, 0>>))
           rowStart == [i \in DOMAIN b.cells |->
             IF i > 1 /\ Pos(i, b.w)[1] = 0 THEN <<[op |-> "newline"]>> ELSE <<>>]
           code == EncodeCells(b, DOMAIN b.cells, rowStart)
<1>1. EncodeFull(b) = (clear \o MoveTo(<<0, 0>>)) \o code
  BY DEF EncodeFull
<1>2. DOMAIN b.cells = 1..n /\ b.w = size[1] /\ n \in Nat /\ 1 \in 1..n
  <2>1. \A x, y \in Nat \ {0} : x * y \in Nat /\ 1 \in 1 .. x * y
    BY SMTT(30)
  <2> QED BY <2>1 DEF FrameOf
<1>3. Pos(1, size[1]) = <<0, 0>> /\ <<0, 0>> \in Grid(size)
  <2> DEFINE p == Pos(1, size[1])
  <2>1. p \in Grid(size) /\ 1 - 1 = size[1] * p[2] + p[1]
    BY <1>2, PosInGrid
  <2> HIDE DEF p
  <2>2. p[1] \in 0 .. size[1] - 1 /\ p[2] \in Nat /\ p = <<p[1], p[2]>>
    BY <2>1 DEF Grid
  <2>3. p[2] = 0
    <3>1. \A x, y \in Nat \ {0} : x * y \in Nat /\ x * y # 0
      BY SMTT(30)
    <3>2. CASE p[2] # 0
      <4>1. size[1] * p[2] \in Nat /\ size[1] * p[2] # 0
        BY <2>2, <3>1, <3>2
      <4> QED BY <2>1, <2>2, <4>1
    <3> QED BY <3>2
  <2>4. p[1] = 0
    BY <2>1, <2>2, <2>3
  <2> QED BY <2>1, <2>2, <2>3, <2>4 DEF p
<1>4. List(clear) /\ Covers(t1)
  <2>1. t1 = Execute(t, [op |-> "clear"])
    BY OneCommand
  <2> HIDE DEF t1
  <2>2. t1 = [t EXCEPT !.cells = Spaces(size, t.pen)]
    BY <2>1 DEF Execute
  <2>3. Whole(t1) /\ t1.cells = Spaces(size, t.pen)
    BY <2>2 DEF Whole
  <2>4. DOMAIN t1.cells = Grid(size) /\ t1.cells = [p \in Grid(size) |-> t1.cells[p]]
    BY <2>3 DEF Spaces, Grid
  <2> QED BY <2>3, <2>4, OneLine DEF Covers
<1>5. List(MoveTo(<<0, 0>>)) /\ Placed(t2, t1, <<0, 0>>)
  <2>1. Whole(t1)
    BY <1>4 DEF Covers
  <2> HIDE DEF t1
  <2> QED BY <1>3, <2>1, MoveRuns
<1>6. /\ List(clear \o MoveTo(<<0, 0>>))
      /\ Executed(t, clear \o MoveTo(<<0, 0>>)) = t2
  <2> HIDE DEF clear, t1, t2
  <2> QED BY <1>4, <1>5, ListConcat, ExecuteParts DEF t1, t2
<1> DEFINE written == 1..n
<1>7. Progress(t2, b, written, <<0, 0>>, 0)
  <2> HIDE DEF t1, t2
  <2>1. Covers(t2) /\ t2.at = <<0, 0>>
    BY <1>4, <1>5 DEF Placed, Covers
  <2>2. PenOf(t2, b, written, 0)
    <3>1. \A k \in written : ~ k <= 0
      BY <1>2
    <3> QED BY <3>1 DEF PenOf
  <2>3. \A j \in 1..n : ~ j <= 0 /\ j \in written
    BY <1>2
  <2>4. 0 \notin written
    BY <1>2
  <2> QED BY <2>1, <2>2, <2>3, <2>4 DEF Progress
<1>8. LeadsTo(rowStart, written, <<0, 0>>)
  <2> SUFFICES ASSUME NEW i \in written, NEW u, Covers(u),
                      i - 1 \in written => u.at = Right(Pos(i - 1, size[1])),
                      i = 1 => u.at = <<0, 0>>
               PROVE  List(rowStart[i]) /\ Placed(Executed(u, rowStart[i]), u, Pos(i, size[1]))
    BY DEF LeadsTo
  <2>1. Whole(u)
    BY DEF Covers
  <2>2. CASE i = 1
    <3>1. rowStart[i] = <<>>
      BY <1>2, <2>2
    <3> HIDE DEF rowStart
    <3> QED BY <1>3, <2>1, <2>2, <3>1, EmptyList, ExecuteNothing DEF Placed
  <2>3. CASE i # 1 /\ Pos(i, size[1])[1] = 0
    <3>1. i > 1 /\ i \in 2..n /\ i - 1 \in 1..n
      BY <1>2, <2>3
    <3>2. rowStart[i] = <<[op |-> "newline"]>>
      BY <1>2, <2>3, <3>1
    <3> DEFINE q == Pos(i - 1, size[1])
               p == Pos(i, size[1])
    <3>3. u.at = <<Lower(q[1] + 1, size[1] - 1), q[2]>>
      BY <3>1 DEF Right
    <3>4. p = <<0, q[2] + 1>>
      BY <2>3, <3>1, PosNext
    <3>5. p \in Grid(size) /\ q \in Grid(size)
      BY <3>1, PosInGrid
    <3> HIDE DEF p, q, rowStart
    <3>6. q[2] < size[2] - 1
      <4>1. p[2] = q[2] + 1 /\ p[2] \in 0 .. size[2] - 1 /\ q[2] \in 0 .. size[2] - 1
        BY <3>4, <3>5 DEF Grid
      <4> QED BY <4>1
    <3>7. Placed(Executed(u, <<[op |-> "newline"]>>), u, <<0, q[2] + 1>>)
      BY <2>1, <3>3, <3>6, NewlineRuns
    <3> QED BY <3>2, <3>4, <3>7, OneLine DEF p
  <2>4. CASE i # 1 /\ Pos(i, size[1])[1] # 0
    <3>1. i \in 2..n /\ i - 1 \in 1..n
      BY <1>2, <2>4
    <3>2. rowStart[i] = <<>>
      BY <1>2, <2>4
    <3>3. u.at = Pos(i, size[1])
      BY <2>4, <3>1, RightIs
    <3> HIDE DEF rowStart
    <3> QED BY <2>1, <3>2, <3>3, EmptyList, ExecuteNothing DEF Placed
  <2> QED BY <2>2, <2>3, <2>4
<1>9. List(code) /\ Covers(Executed(t2, code)) /\ Shows(Executed(t2, code), b)
  <2>1. code = EncodeCells(b, written, rowStart)
    BY <1>2
  <2> HIDE DEF rowStart, code, t2
  <2>2. written \subseteq 1 .. size[1] * size[2]
    OBVIOUS
  <2> HIDE DEF written
  <2> QED BY <1>7, <1>8, <2>1, <2>2, CellsRun
<1> HIDE DEF code, t2, clear
<1>10. Executed(t, EncodeFull(b)) = Executed(t2, code)
  BY <1>1, <1>6, <1>9, ExecuteParts
<1> QED BY <1>9, <1>10

LEMMA DiffRuns ==
  ASSUME size \in (Nat \ {0}) \X (Nat \ {0}), NEW b, FrameOf(b, size),
         NEW prev, FrameOf(prev, size), NEW t, Covers(t), Shows(t, prev)
  PROVE  Covers(Executed(t, EncodeDiff(prev, b))) /\ Shows(Executed(t, EncodeDiff(prev, b)), b)
<1> DEFINE n == size[1] * size[2]
           changed == {i \in DOMAIN b.cells : prev.cells[i] # b.cells[i]}
           runStart == [i \in DOMAIN b.cells |->
             IF i - 1 \in changed /\ Pos(i, b.w)[1] # 0 THEN <<>> ELSE MoveTo(Pos(i, b.w))]
           code == EncodeCells(b, changed, runStart)
<1>1. EncodeDiff(prev, b) = code
  BY DEF EncodeDiff
<1>2. DOMAIN b.cells = 1..n /\ b.w = size[1] /\ n \in Nat
  BY DEF FrameOf
<1>3. changed \subseteq 1..n /\ \A j \in 1..n : j \notin changed => prev.cells[j] = b.cells[j]
  BY <1>2
<1> HIDE DEF changed
<1>4. Progress(t, b, changed, t.at, 0)
  <2>1. \A k \in changed : ~ k <= 0
    BY <1>2, <1>3
  <2>2. PenOf(t, b, changed, 0)
    BY <2>1 DEF PenOf
  <2>3. 0 \notin changed
    BY <1>2, <1>3
  <2>4. ASSUME NEW j \in 1..n, j <= 0 \/ j \notin changed PROVE ShowsCell(t, b, j)
    <3>1. prev.cells[j] = b.cells[j]
      BY <1>2, <1>3, <2>4
    <3>2. ShowsCell(t, prev, j)
      BY DEF Shows
    <3> QED BY <3>1, <3>2 DEF ShowsCell
  <2> QED BY <2>2, <2>3, <2>4 DEF Progress
<1>5. LeadsTo(runStart, changed, t.at)
  <2> SUFFICES ASSUME NEW i \in changed, NEW u, Covers(u),
                      i - 1 \in changed => u.at = Right(Pos(i - 1, size[1]))
               PROVE  List(runStart[i]) /\ Placed(Executed(u, runStart[i]), u, Pos(i, size[1]))
    BY DEF LeadsTo
  <2>1. Whole(u) /\ i \in 1..n
    BY <1>3 DEF Covers
  <2>2. CASE i - 1 \in changed /\ Pos(i, size[1])[1] # 0
    <3>1. i \in 2..n
      <4>1. i - 1 \in 1..n
        BY <1>3, <2>2
      <4> QED BY <1>2, <2>1, <4>1
    <3>2. runStart[i] = <<>>
      BY <1>2, <2>1, <2>2
    <3>3. u.at = Pos(i, size[1])
      BY <2>2, <3>1, RightIs
    <3> HIDE DEF runStart
    <3> QED BY <2>1, <3>2, <3>3, EmptyList, ExecuteNothing DEF Placed
  <2>3. CASE ~ (i - 1 \in changed /\ Pos(i, size[1])[1] # 0)
    <3>1. runStart[i] = MoveTo(Pos(i, size[1]))
      BY <1>2, <2>1, <2>3
    <3>2. Pos(i, size[1]) \in Grid(size)
      BY <2>1, PosInGrid
    <3> HIDE DEF runStart
    <3> QED BY <2>1, <3>1, <3>2, MoveRuns
  <2> QED BY <2>2, <2>3
<1> HIDE DEF code, runStart
<1>6. Covers(Executed(t, code)) /\ Shows(Executed(t, code), b)
  BY <1>3, <1>4, <1>5, CellsRun DEF code
<1> QED BY <1>1, <1>6
-----------------------------------------------------------------------------
(* The screen.  What the loop, the renderer and the terminal keep. *)

LEMMA FlattenedIsList ==
  ASSUME NEW n \in Nat \ {0}, NEW s, s = [i \in 1..n |-> s[i]], \A i \in 1..n : List(s[i])
  PROVE  List(FlattenSeq(s))
<1>1. Len(s) = n
  <2>1. DOMAIN s = 1..n
    OBVIOUS
  <2> QED BY <2>1, FunctionIsList
<1>2. PICK f : Flattening(f, s, n) /\ FlattenSeq(s) = f[n]
  BY <1>1, FlattenIs
<1>3. \A i \in 1..n : f[i] = IF i = 1 THEN s[i] ELSE f[i - 1] \o s[i]
  BY <1>2 DEF Flattening
<1> DEFINE Bad == {k \in 1..n : ~ List(f[k])}
<1>4. Bad = {}
  <2> SUFFICES ASSUME Bad # {} PROVE FALSE
    OBVIOUS
  <2>1. PICK k \in Bad : \A j \in Bad : k <= j
    <3>1. Bad \subseteq Nat
      OBVIOUS
    <3> HIDE DEF Bad
    <3> QED BY <3>1, LeastDistance
  <2>2. k \in 1..n /\ ~ List(f[k])
    BY <2>1
  <2>3. k # 1
    BY <1>3, <2>2
  <2>4. k - 1 \in 1..n /\ ~ k <= k - 1
    BY <2>2, <2>3
  <2>5. List(f[k - 1])
    BY <2>1, <2>4
  <2>6. f[k] = f[k - 1] \o s[k]
    BY <1>3, <2>2, <2>3
  <2> QED BY <2>2, <2>5, <2>6, ListConcat
<1>5. n \in 1..n
  OBVIOUS
<1> QED BY <1>2, <1>4, <1>5

LEMMA CellsAreList ==
  ASSUME NEW s \in (Nat \ {0}) \X (Nat \ {0}), NEW b, FrameOf(b, s),
         NEW written, NEW lead, \A i \in 1 .. s[1] * s[2] : List(lead[i])
  PROVE  List(EncodeCells(b, written, lead))
<1> DEFINE n == s[1] * s[2]
           part(i) == IF i \in written THEN CellCode(b, written, i, lead[i]) ELSE <<>>
           parts == [i \in DOMAIN b.cells |-> part(i)]
           end == IF written = {} THEN <<>> ELSE <<[op |-> "resetcolor"], [op |-> "reset"]>>
<1>1. n \in Nat \ {0}
  <2>1. \A x, y \in Nat \ {0} : x * y \in Nat \ {0}
    BY SMTT(30)
  <2> QED BY <2>1
<1>2. DOMAIN b.cells = 1..n
  BY DEF FrameOf
<1>3. \A i \in 1..n : List(part(i))
  <2> SUFFICES ASSUME NEW i \in 1..n PROVE List(part(i))
    OBVIOUS
  <2> DEFINE style == b.cells[i].style
  <2>1. style.bold \in BOOLEAN /\ style.dim \in BOOLEAN
    BY DEF FrameOf
  <2> HIDE DEF style
  <2>2. List(ApplyStyle(style))
    <3> DEFINE t == [cells |-> <<>>, at |-> <<>>, pen |-> PlainPen]
    <3>1. Whole(t)
      BY DEF Whole
    <3> HIDE DEF t
    <3> QED BY <2>1, <3>1, ApplyStyleRuns
  <2>3. CASE i \in written
    <3> DEFINE before == {j \in written : j < i}
               x == IF before # {} /\ b.cells[Max(before)].style = style
                    THEN <<>> ELSE ApplyStyle(style)
               y == <<[op |-> "print", arg |-> b.cells[i].ch]>>
    <3>1. part(i) = lead[i] \o x \o y
      BY <2>3 DEF CellCode, style
    <3>2. List(x)
      BY <2>2, EmptyList
    <3>3. List(y) /\ List(lead[i])
      BY OneLine
    <3> HIDE DEF x, y, part
    <3>4. List(lead[i] \o x)
      BY <3>2, <3>3, ListConcat
    <3>5. List((lead[i] \o x) \o y)
      BY <3>3, <3>4, ListConcat
    <3> QED BY <3>1, <3>5
  <2>4. CASE i \notin written
    BY <2>4, EmptyList
  <2> QED BY <2>3, <2>4
<1> HIDE DEF n, part
<1>4. List(FlattenSeq(parts))
  <2>1. parts = [i \in 1..n |-> parts[i]] /\ \A i \in 1..n : List(parts[i])
    BY <1>2, <1>3
  <2> HIDE DEF parts
  <2> QED BY <1>1, <2>1, FlattenedIsList
<1>5. List(end)
  <2>1. Whole([cells |-> <<>>, at |-> <<>>, pen |-> PlainPen])
    BY DEF Whole
  <2>2. List(<<[op |-> "resetcolor"], [op |-> "reset"]>>)
    BY ONLY <2>1, ResetRuns
  <2> QED BY <2>2, EmptyList
<1>6. EncodeCells(b, written, lead) = FlattenSeq(parts) \o end
  BY DEF EncodeCells, parts, part
<1> HIDE DEF parts, end
<1> QED BY <1>4, <1>5, <1>6, ListConcat

LEMMA EncodedIsList ==
  ASSUME NEW s \in (Nat \ {0}) \X (Nat \ {0}), NEW b, FrameOf(b, s), NEW prev
  PROVE  List(EncodeFull(b)) /\ List(EncodeDiff(prev, b))
<1>1. DOMAIN b.cells = 1 .. s[1] * s[2]
  BY DEF FrameOf
<1>2. List(EncodeFull(b))
  <2> DEFINE rowStart == [i \in DOMAIN b.cells |->
               IF i > 1 /\ Pos(i, b.w)[1] = 0 THEN <<[op |-> "newline"]>> ELSE <<>>]
             clear == <<[op |-> "clear"]>>
             home == MoveTo(<<0, 0>>)
             code == EncodeCells(b, DOMAIN b.cells, rowStart)
  <2>1. \A i \in 1 .. s[1] * s[2] : List(rowStart[i])
    BY <1>1, EmptyList, OneLine
  <2>2. EncodeFull(b) = (clear \o home) \o code
    BY DEF EncodeFull
  <2> HIDE DEF rowStart
  <2>3. List(code)
    BY <2>1, CellsAreList
  <2>4. List(clear) /\ List(home)
    BY OneLine DEF MoveTo
  <2> HIDE DEF clear, home, code
  <2>5. List(clear \o home)
    BY <2>4, ListConcat
  <2> QED BY <2>2, <2>3, <2>5, ListConcat
<1>3. List(EncodeDiff(prev, b))
  <2> DEFINE changed == {i \in DOMAIN b.cells : prev.cells[i] # b.cells[i]}
             runStart == [i \in DOMAIN b.cells |->
               IF i - 1 \in changed /\ Pos(i, b.w)[1] # 0 THEN <<>> ELSE MoveTo(Pos(i, b.w))]
  <2>1. \A i \in 1 .. s[1] * s[2] : List(runStart[i])
    BY <1>1, EmptyList, OneLine DEF MoveTo
  <2>2. EncodeDiff(prev, b) = EncodeCells(b, changed, runStart)
    BY DEF EncodeDiff
  <2> HIDE DEF runStart, changed
  <2> QED BY <2>1, <2>2, CellsAreList
<1> QED BY <1>2, <1>3

\* The frame of a view, whatever the buffer it is painted into held.
ViewFrame(v, s) ==
  [w |-> s[1], h |-> s[2], cells |-> [i \in 1 .. s[1] * s[2] |->
     IF Pos(i, s[1]) \in DOMAIN Picture[v] THEN Picture[v][Pos(i, s[1])] ELSE Blank]]

LEMMA RenderedIs ==
  ASSUME NEW v, NEW s, NEW b
  PROVE  RenderInto(v, s, b) = ViewFrame(v, s)
<1> DEFINE n == s[1] * s[2]
           r == Resized(b, s)
           c == Cleared(r)
<1>1. r = [w |-> s[1], h |-> s[2], cells |-> r.cells] /\ DOMAIN r.cells = 1..n
  BY DEF Resized
<1> HIDE DEF r, n
<1>2. c = [w |-> s[1], h |-> s[2], cells |-> [i \in 1..n |-> Blank]]
  <2>1. c = [r EXCEPT !.cells = [i \in 1..n |-> Blank]]
    BY <1>1 DEF Cleared
  <2> DEFINE x == [i \in 1..n |-> Blank]
             y == r.cells
  <2>2. c = [r EXCEPT !.cells = x]
    BY <2>1
  <2>3. r = [w |-> s[1], h |-> s[2], cells |-> y]
    BY <1>1
  <2> HIDE DEF c, x, y
  <2>4. c = [w |-> s[1], h |-> s[2], cells |-> x]
    BY <2>2, <2>3
  <2> QED BY <2>4 DEF x
<1> HIDE DEF c
<1>3. c.w = s[1] /\ DOMAIN c.cells = 1..n /\ \A i \in 1..n : c.cells[i] = Blank
  BY <1>2
<1>4. Painted(v, c).cells = ViewFrame(v, s).cells
  BY <1>2, <1>3 DEF Painted, ViewFrame, n
<1>5. Painted(v, c) = [w |-> s[1], h |-> s[2], cells |-> Painted(v, c).cells]
  <2> DEFINE x == [i \in DOMAIN c.cells |-> IF Pos(i, c.w) \in DOMAIN Picture[v]
                    THEN Picture[v][Pos(i, c.w)] ELSE c.cells[i]]
  <2>1. Painted(v, c) = [c EXCEPT !.cells = x]
    BY DEF Painted
  <2> HIDE DEF x
  <2> QED BY <1>2, <2>1
<1>6. ViewFrame(v, s) = [w |-> s[1], h |-> s[2], cells |-> ViewFrame(v, s).cells]
  BY DEF ViewFrame
<1> QED BY <1>4, <1>5, <1>6 DEF RenderInto, c, r

LEMMA ViewFrameOK ==
  ASSUME NEW v \in Views, NEW s \in (Nat \ {0}) \X (Nat \ {0})
  PROVE  FrameOf(ViewFrame(v, s), s) /\ ViewFrame(v, s) # NoFrame
<1>1. FrameOf(ViewFrame(v, s), s)
  BY ScreenAssumption DEF FrameOf, ViewFrame, Blank, DefaultStyle
<1>2. ViewFrame(v, s).w # NoFrame.w
  BY DEF ViewFrame, NoFrame
<1> QED BY <1>1, <1>2

\* The renderer's frame is the view drawn last at the size the loop read; unless the
\* terminal was resized since, the screen shows it, and a pass without such a frame draws.
ViewInv ==
  /\ view \in Views /\ size \in Sizes /\ resized \in BOOLEAN /\ Whole(screen)
  /\ DOMAIN throttle = {"rendered", "since", "mark"}
  /\ pass \in {"size", "draw", "poll"}
  /\ pass # "size" => seen \in Sizes
  /\ (pass # "size" \/ last # NoFrame) => (resized <=> seen # size)
  /\ last = NoFrame => /\ pass # "poll"
                       /\ pass = "size" => ~ throttle.rendered
                       /\ pass = "draw" => ~ throttle.rendered \/ throttle.mark[2] # seen
  /\ last # NoFrame => /\ shown[1] \in Views /\ seen \in Sizes
                       /\ last = ViewFrame(shown[1], seen)
                       /\ throttle.mark[2] = seen
                       /\ ~ resized => Covers(screen) /\ Shows(screen, last)

LEMMA ViewInvInit == ScreenInit => ViewInv
<1> SUFFICES ASSUME ScreenInit PROVE ViewInv
  OBVIOUS
<1>1. Whole(screen)
  BY DEF ScreenInit, Whole
<1> QED BY <1>1 DEF ScreenInit, ViewInv

LEMMA DrawShows ==
  ASSUME ViewInv, Draw
  PROVE  /\ Whole(screen') /\ last' = ViewFrame(view, seen) /\ last' # NoFrame
         /\ ~ resized => Covers(screen)' /\ Shows(screen, last)'
<1> DEFINE frame == ViewFrame(view, seen)
           same == last # NoFrame /\ last.w = frame.w /\ last.h = frame.h
           code == IF same THEN EncodeDiff(last, frame) ELSE EncodeFull(frame)
<1>1. seen \in Sizes /\ view \in Views
  BY DEF ViewInv, Draw
<1>2. seen \in (Nat \ {0}) \X (Nat \ {0}) /\ size \in (Nat \ {0}) \X (Nat \ {0})
  BY <1>1, ScreenAssumption DEF ViewInv
<1>3. FrameOf(frame, seen) /\ frame # NoFrame
  BY <1>1, <1>2, ViewFrameOK
<1>4. last' = frame /\ screen' = Executed(screen, code)
  BY RenderedIs DEF Draw, DrawSwap
<1>5. size' = size /\ resized' = resized
  BY DEF Draw
<1>6. Whole(screen)
  BY DEF ViewInv
<1>7. last # NoFrame => same
  <2>1. last # NoFrame => last = ViewFrame(shown[1], seen)
    BY DEF ViewInv
  <2> QED BY <2>1 DEF ViewFrame
<1> HIDE DEF frame, same
<1>8. List(code)
  BY <1>2, <1>3, EncodedIsList
<1>9. Whole(screen')
  <2> HIDE DEF code
  <2> QED BY <1>4, <1>6, <1>8, ExecutedWhole
<1>10. ASSUME ~ resized
       PROVE  Covers(screen') /\ Shows(screen', frame)
  <2>1. seen = size
    BY <1>10 DEF ViewInv, Draw
  <2>2. CASE same
    <3>1. last # NoFrame
      BY <2>2 DEF same
    <3>2. /\ shown[1] \in Views /\ last = ViewFrame(shown[1], seen)
          /\ Covers(screen) /\ Shows(screen, last)
      BY <1>10, <3>1 DEF ViewInv
    <3>3. FrameOf(last, size)
      BY <1>2, <2>1, <3>2, ViewFrameOK
    <3>4. screen' = Executed(screen, EncodeDiff(last, frame))
      BY <1>4, <2>2
    <3> QED BY <1>2, <1>3, <2>1, <3>2, <3>3, <3>4, DiffRuns
  <2>3. CASE ~ same
    <3>1. screen' = Executed(screen, EncodeFull(frame))
      BY <1>4, <2>3
    <3> QED BY <1>2, <1>3, <1>6, <2>1, <3>1, FullRuns
  <2> QED BY <2>2, <2>3
<1>11. ASSUME ~ resized
       PROVE  Covers(screen)' /\ Shows(screen, last)'
  <2>1. Covers(screen)'
    BY <1>5, <1>10, <1>11 DEF Covers, Grid, Whole
  <2>2. Shows(screen, last)'
    BY <1>4, <1>5, <1>10, <1>11 DEF Shows, ShowsCell
  <2> QED BY <2>1, <2>2
<1> QED BY <1>3, <1>4, <1>9, <1>11 DEF frame

LEMMA ViewInvNext == ViewInv /\ [ScreenNext]_screenVars => ViewInv'
<1> SUFFICES ASSUME ViewInv, [ScreenNext]_screenVars PROVE ViewInv'
  OBVIOUS
<1>1. CASE ReadSize
  <2>1. /\ pass = "size" /\ pass' = "draw" /\ seen' = size /\ resized' = FALSE
        /\ last' = IF size # seen THEN NoFrame ELSE last
        /\ UNCHANGED <<view, throttle, size, screen, shown>>
    BY <1>1 DEF ReadSize
  <2>2. CASE last # NoFrame /\ size = seen
    <3>1. /\ last' = last /\ last' # NoFrame /\ resized = FALSE /\ seen' = seen
          /\ shown[1] \in Views /\ seen \in Sizes /\ last = ViewFrame(shown[1], seen)
          /\ throttle.mark[2] = seen /\ Covers(screen) /\ Shows(screen, last)
      BY <2>1, <2>2 DEF ViewInv
    <3>2. Covers(screen)' /\ Shows(screen, last)' /\ (NoFrame' = NoFrame)
      BY <2>1, <3>1 DEF Covers, Shows, ShowsCell, Grid, Whole, NoFrame
    <3>3. ViewFrame(shown[1], seen)' = ViewFrame(shown[1], seen)
      BY <2>1, <3>1 DEF ViewFrame
    <3> QED BY <2>1, <3>1, <3>2, <3>3 DEF ViewInv, Whole
  <2>3. CASE last = NoFrame \/ size # seen
    <3>1. last' = NoFrame /\ (~ throttle.rendered \/ throttle.mark[2] # seen')
      BY <2>1, <2>3 DEF ViewInv
    <3> QED BY <2>1, <3>1 DEF ViewInv, Whole, NoFrame
  <2> QED BY <2>2, <2>3
<1>2. CASE Draw
  <2>1. /\ pass = "draw" /\ pass' = "poll" /\ shown' = <<view, seen>>
        /\ UNCHANGED <<view, seen, size, resized>>
        /\ throttle' = [rendered |-> TRUE, since |-> 0, mark |-> <<Mark[view], seen>>]
    BY <1>2 DEF Draw, Noted, Fingerprint
  <2>2. /\ Whole(screen') /\ last' = ViewFrame(view, seen) /\ last' # NoFrame
        /\ ~ resized => Covers(screen)' /\ Shows(screen, last)'
    BY <1>2, DrawShows
  <2>3. ViewFrame(shown[1], seen)' = ViewFrame(view, seen)
    BY <2>1 DEF ViewFrame
  <2>4. view \in Views /\ size \in Sizes /\ seen \in Sizes /\ resized \in BOOLEAN
        /\ (resized <=> seen # size)
    BY <2>1 DEF ViewInv
  <2> QED BY <2>1, <2>2, <2>3, <2>4 DEF ViewInv, Whole, NoFrame
<1>3. CASE SkipDraw
  <2>1. /\ pass = "draw" /\ pass' = "poll"
        /\ UNCHANGED <<view, seen, last, throttle, size, screen, resized, shown>>
        /\ throttle.rendered /\ throttle.mark = <<Mark[view], seen>>
    BY <1>3 DEF SkipDraw, ShouldRender, Fingerprint
  <2>2. last # NoFrame
    BY <2>1 DEF ViewInv
  <2> QED BY <2>1, <2>2 DEF ViewInv, Covers, Shows, ShowsCell, Grid, Whole, NoFrame, ViewFrame
<1>4. CASE Poll
  <2>1. /\ pass = "poll" /\ pass' = "size" /\ view' \in Views
        /\ UNCHANGED <<seen, last, size, screen, resized, shown>>
    BY <1>4 DEF Poll
  <2>2. throttle'.mark = throttle.mark /\ DOMAIN throttle' = {"rendered", "since", "mark"}
    <3>1. PICK dt \in Passes : throttle' = [throttle EXCEPT !.since = Lower(@ + dt, Interval)]
      BY <1>4 DEF Poll
    <3> QED BY <3>1 DEF ViewInv
  <2>3. last # NoFrame
    BY <2>1 DEF ViewInv
  <2> QED BY <2>1, <2>2, <2>3
      DEF ViewInv, Covers, Shows, ShowsCell, Grid, Whole, NoFrame, ViewFrame
<1>5. CASE ResizeTerminal
  <2>1. /\ ~ resized /\ resized' = TRUE /\ size' \in Sizes \ {size}
        /\ UNCHANGED <<pass, view, seen, last, throttle, shown>>
    BY <1>5 DEF ResizeTerminal
  <2>2. Whole(screen')
    <3>1. PICK at, cells : screen' = [screen EXCEPT !.at = at, !.cells = cells]
      BY <1>5 DEF ResizeTerminal
    <3> QED BY <3>1 DEF ViewInv, Whole
  <2> QED BY <2>1, <2>2 DEF ViewInv, Whole, NoFrame, ViewFrame
<1>6. CASE UNCHANGED screenVars
  BY <1>6 DEF screenVars, ViewInv, Covers, Shows, ShowsCell, Grid, Whole, NoFrame, ViewFrame
<1> QED BY <1>1, <1>2, <1>3, <1>4, <1>5, <1>6 DEF ScreenNext

\* After a pass that met no resize the terminal's screen shows the characters and the
\* emphasis of the view drawn last (draw_swap, encode_full, encode_diff), whatever was on
\* it before: for all views, pictures and sizes.
THEOREM ScreenAlwaysShows == ScreenSpec => []ScreenShowsView
<1>1. ViewInv => ScreenShowsView
  <2> SUFFICES ASSUME ViewInv, Settled, NEW i \in 1 .. size[1] * size[2],
                      NEW p, p = Pos(i, size[1])
               PROVE  Face(screen.cells[p]) =
                      Face(IF p \in DOMAIN Picture[shown[1]] THEN Picture[shown[1]][p] ELSE Blank)
    BY DEF ScreenShowsView
  <2>1. last = ViewFrame(shown[1], size) /\ Shows(screen, last)
    BY DEF ViewInv, Settled
  <2>2. Face(screen.cells[p]) = Face(last.cells[i])
    BY <2>1 DEF Shows, ShowsCell
  <2>3. last.cells[i] = IF p \in DOMAIN Picture[shown[1]] THEN Picture[shown[1]][p] ELSE Blank
    BY <2>1 DEF ViewFrame
  <2> QED BY <2>2, <2>3
<1> QED BY <1>1, ViewInvInit, ViewInvNext, PTL DEF ScreenSpec
=============================================================================
