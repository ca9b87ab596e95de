--------------------------------- MODULE Rng ---------------------------------
(***************************************************************************)
(* The piece generator of tetris-core as it computes: the 32-bit LCG, the  *)
(* Fisher-Yates shuffle it drives, and the queue that draws from it.  A    *)
(* state of the generator is kept in 16-bit halves, hi and lo, which TLC   *)
(* can multiply.  It is an instance of PieceQueue, the queue the other     *)
(* modules use: NextBag and NextRng are what one shuffle computes.         *)
(***************************************************************************)
EXTENDS Integers, Sequences

CONSTANTS SeedHalves,   \* the halves of the seeds of the run
          MaxDraws      \* bound: pieces drawn from one seed

VARIABLES queue,     \* the PieceQueue
          draws,     \* pieces drawn
          fromBag,   \* history: the pieces drawn from the current bag
          promised   \* history: the preview before the last draw, then that draw

rngVars == <<queue, draws, fromBag, promised>>

Half    == 65536
Numbers == [hi : 0 .. Half - 1, lo : 0 .. Half - 1]

ASSUME RngAssumption == SeedHalves \subseteq 0 .. Half - 1 /\ MaxDraws \in Nat

NewBag == <<"I", "O", "T", "S", "Z", "J", "L">>
-----------------------------------------------------------------------------
\* state * 1664525 + 1013904223 mod 2^32: the multiplier is 25 * 2^16 + 26125, the
\* increment 15470 * 2^16 + 62303.
NextU32(s) ==
  LET low == s.lo * 26125 + 62303
  IN [lo |-> low % Half,
      hi |-> (low \div Half + s.hi * 26125 + s.lo * 25 + 15470) % Half]

\* next_range: s modulo max.
Below(s, max) == (s.hi * (Half % max) + s.lo) % max

\* Slip: the later element is lost.
Moved(bag, i, j) == [bag EXCEPT ![i] = bag[j]]

Swapped(bag, i, j) == [bag EXCEPT ![i] = bag[j], ![j] = bag[i]]

\* One round: the last of the first n elements is swapped with one of the first n.
Round(r, n) ==
  LET rng == NextU32(r.rng)
  IN [bag |-> Swapped(r.bag, n, Below(rng, n) + 1), rng |-> rng]

\* The rounds of the last element down to the second.
Shuffle(s) ==
  Round(Round(Round(Round(Round(Round([bag |-> NewBag, rng |-> s], 7), 6), 5), 4), 3), 2)

Q == INSTANCE PieceQueue WITH
       Kinds      <- {NewBag[i] : i \in 1..7},
       BagSize    <- 7,
       RngStates  <- Numbers,
       NextBag    <- [s \in Numbers |-> Shuffle(s).bag],
       NextRng    <- [s \in Numbers |-> Shuffle(s).rng],
       PreviewLen <- 5
-----------------------------------------------------------------------------
RngInit ==
  /\ \E seed \in [hi : SeedHalves, lo : SeedHalves] : queue = Q!NewQueue(seed)
  /\ draws = 0 /\ fromBag = <<>> /\ promised = <<>>

DrawPiece ==
  /\ draws < MaxDraws
  /\ draws' = draws + 1
  /\ queue' = Q!Draw(queue)
  /\ fromBag' = Append(IF Len(fromBag) = 7 THEN <<>> ELSE fromBag, Q!Drawn(queue))
  /\ promised' = <<Q!Preview(queue), Q!Drawn(queue)>>

RngSpec == RngInit /\ [][DrawPiece]_rngVars
-----------------------------------------------------------------------------
\* The pieces come in bags: no kind is dealt twice before each
\* was dealt once (refill_bag, shuffle, draw).
DealtInBags ==
  \A i, j \in 1..Len(fromBag) : fromBag[i] = fromBag[j] => i = j

\* The next queue is kept: the first of the five pieces shown is the one drawn, and
\* the other four are shown again in their order, across the end of a bag too, where
\* peek_5 shuffles a copy of the generator.
PreviewKept ==
  draws > 0 =>
    /\ promised[2] = promised[1][1]
    /\ SubSeq(Q!Preview(queue), 1, 4) = SubSeq(promised[1], 2, 5)
=============================================================================
