----------------------------- MODULE PieceQueue -----------------------------
(***************************************************************************)
(* The 7-bag of tetris-core: a shuffled bag, an index into it and the      *)
(* state of the generator.  One shuffle consumes a fixed number of numbers *)
(* of the generator, so it is a function of the state it starts from:      *)
(* NextBag and NextRng.  Module Rng computes them as the code does.        *)
(***************************************************************************)
EXTENDS Integers, Sequences, FiniteSets

CONSTANTS Kinds,      \* the piece kinds of one bag
          BagSize,    \* 7: one of each kind
          RngStates,  \* generator states; an episode seed is one of them
          NextBag,    \* the bag a refill shuffles, by the state it starts from
          NextRng,    \* the state that refill leaves
          PreviewLen  \* 5: the length of next_queue

Bags == [1..BagSize -> Kinds]

ASSUME QueueAssumption ==
  /\ BagSize \in Nat \ {0}
  /\ PreviewLen \in 1..BagSize
  /\ NextBag \in [RngStates -> Bags]
  /\ NextRng \in [RngStates -> RngStates]

\* One of each: what makes the sequence of draws a "bag" sequence.
ASSUME BagAssumption ==
  \A s \in RngStates : \A k \in Kinds : \E i \in 1..BagSize : NextBag[s][i] = k

Refill(q) == [q EXCEPT !.bag = NextBag[q.rng], !.rng = NextRng[q.rng], !.index = 0]

NewQueue(seed) ==
  Refill([seed |-> seed, bag |-> NextBag[seed], index |-> 0, rng |-> seed])

\* The next piece, from the bag or from a preview of the next bag.
Peek(q) == IF q.index < BagSize THEN q.bag[q.index + 1] ELSE NextBag[q.rng][1]

\* Slip: past its end the bag is shown once more.
PreviewOfThisBag(q) ==
  [i \in 1..PreviewLen |-> q.bag[((q.index + i - 1) % BagSize) + 1]]

\* peek_5: the rest of the bag, then the head of a preview of the next one.
Preview(q) ==
  [i \in 1..PreviewLen |->
     IF q.index + i <= BagSize THEN q.bag[q.index + i]
                               ELSE NextBag[q.rng][q.index + i - BagSize]]

\* draw: refill an exhausted bag, then take its next piece.
Ready(q) == IF q.index >= BagSize THEN Refill(q) ELSE q
Drawn(q) == Ready(q).bag[Ready(q).index + 1]
Draw(q)  == [Ready(q) EXCEPT !.index = @ + 1]

QueueOK(q) ==
  /\ DOMAIN q = {"seed", "bag", "index", "rng"}
  /\ q.seed \in RngStates
  /\ q.bag \in Bags
  /\ q.index \in 0..BagSize
  /\ q.rng \in RngStates
=============================================================================
