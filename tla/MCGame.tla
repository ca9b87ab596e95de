------------------------------- MODULE MCGame -------------------------------
(***************************************************************************)
(* Values for the constants of GameState.  Two generator states alternate  *)
(* between two opposite orders of the bag.                                 *)
(***************************************************************************)
EXTENDS GameSafety, SequencesExt

MCRngStates == 0..1

KindOrder == SetToSeq(Kinds)
MCNextBag == [s \in MCRngStates |-> IF s = 0 THEN KindOrder ELSE Reverse(KindOrder)]
MCNextRng == [s \in MCRngStates |-> 1 - s]

MCSlowTiming == <<4, 2>>
MCNoDelay == <<1>>
=============================================================================
