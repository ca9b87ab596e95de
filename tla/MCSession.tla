------------------------------ MODULE MCSession ------------------------------
(***************************************************************************)
(* Values for the constants of Session.                                    *)
(***************************************************************************)
EXTENDS Session, SequencesExt

MCRngStates == 0..1

KindOrder == SetToSeq(Kinds)
MCNextBag == [s \in MCRngStates |-> IF s = 0 THEN KindOrder ELSE Reverse(KindOrder)]
MCNextRng == [s \in MCRngStates |-> 1 - s]

MCNoDelay == <<1>>
=============================================================================
