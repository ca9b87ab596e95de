------------------------------- MODULE MCParts -------------------------------
(***************************************************************************)
(* The parts that stand alone, checked in one run: the row clear of a      *)
(* board, the piece generator, the screen, the replay tape and observer    *)
(* mode.  A behaviour is about one of them, its subject; the others keep   *)
(* still.                                                                  *)
(***************************************************************************)
EXTENDS ClearRows, Rng, Screen, Replay, Observe

VARIABLE subject

partsVars == <<subject, clearVars, rngVars, screenVars, replayVars, observeVars>>

ClearStill ==
  /\ phase = "still" /\ piece = <<>> /\ rotated = FALSE /\ board = {} /\ pending = <<>>
  /\ row = 0 /\ lines = 0 /\ tspin = "None" /\ locked = {}

RngStill ==
  queue = [seed |-> 0, bag |-> NewBag, index |-> 0, rng |-> 0]
  /\ draws = 0 /\ fromBag = <<>> /\ promised = <<>>

ScreenStill ==
  /\ pass = "still" /\ view = "still" /\ seen = <<>> /\ buffer = <<>> /\ last = NoFrame
  /\ throttle = <<>> /\ size = <<>> /\ screen = <<>> /\ resized = FALSE /\ shown = <<>>

ReplayStill ==
  /\ work = "still" /\ tape = <<>> /\ file = <<>> /\ damage = "none"
  /\ loaded = Rejected /\ verdict = <<>>

ObserveStill ==
  /\ up = TRUE /\ links = <<>> /\ rx = 0 /\ stage = "still" /\ attempt = 1
  /\ got = NothingYet /\ latest = None /\ snap = None /\ dirty = FALSE /\ drawn = <<>>

Init ==
  \/ /\ subject = "clear"   /\ ClearInit
     /\ RngStill /\ ScreenStill /\ ReplayStill /\ ObserveStill
  \/ /\ subject = "rng"     /\ RngInit
     /\ ClearStill /\ ScreenStill /\ ReplayStill /\ ObserveStill
  \/ /\ subject = "screen"  /\ ScreenInit
     /\ ClearStill /\ RngStill /\ ReplayStill /\ ObserveStill
  \/ /\ subject = "replay"  /\ ReplayInit
     /\ ClearStill /\ RngStill /\ ScreenStill /\ ObserveStill
  \/ /\ subject = "observe" /\ ObserveInit
     /\ ClearStill /\ RngStill /\ ScreenStill /\ ReplayStill

Next ==
  /\ UNCHANGED subject
  /\ \/ /\ subject = "clear"   /\ ClearNext
        /\ UNCHANGED <<rngVars, screenVars, replayVars, observeVars>>
     \/ /\ subject = "rng"     /\ DrawPiece
        /\ UNCHANGED <<clearVars, screenVars, replayVars, observeVars>>
     \/ /\ subject = "screen"  /\ ScreenNext
        /\ UNCHANGED <<clearVars, rngVars, replayVars, observeVars>>
     \/ /\ subject = "replay"  /\ ReplayNext
        /\ UNCHANGED <<clearVars, rngVars, screenVars, observeVars>>
     \/ /\ subject = "observe" /\ ObserveNext
        /\ UNCHANGED <<clearVars, rngVars, screenVars, replayVars>>

\* The observer's thread runs; so does the reader thread, which is part of what the
\* adapter does here.
Spec ==
  /\ Init /\ [][Next]_partsVars
  /\ WF_observeVars(subject = "observe" /\ Observer)
-----------------------------------------------------------------------------
(* Four views of at most four cells: two of a game in play, two of a paused*)
(* one; one fingerprint is shared by three of them.                        *)

Block == [ch |-> "block", style |-> [DefaultStyle EXCEPT !.fg = "cyan", !.bold = TRUE]]
Dot   == [ch |-> "dot",   style |-> [DefaultStyle EXCEPT !.fg = "grey", !.dim = TRUE]]

MCPlaying == {"play1", "play2"}
MCStatic  == {"paused1", "paused2"}
MCViews   == MCPlaying \cup MCStatic
MCPicture ==
  [v \in MCViews |->
     CASE v = "play1"   -> <<0, 0>> :> Block
       [] v = "play2"   -> <<1, 0>> :> Block @@ <<0, 1>> :> Dot
       [] v = "paused1" -> <<0, 0>> :> Dot @@ <<1, 0>> :> Block
       [] v = "paused2" -> <<1, 1>> :> Dot @@ <<0, 0>> :> Block @@ <<1, 0>> :> Block]
MCMark    == [v \in MCViews |-> IF v = "play2" THEN 2 ELSE 1]
MCSizes   == {<<1, 1>>, <<2, 1>>, <<2, 2>>}

(* A session of five states whose digest shows half of each; the last digit*)
(* of seed 12 may be lost.                                                 *)
MCSeeds   == {1, 12}
MCCutSeed == 1 :> {} @@ 12 :> {1}
MCRemotes == {<<>>, <<"place">>}
MCLocals  == {<<>>, <<"left", "hold">>}
MCStart   == 1 :> 0 @@ 12 :> 3
MCAfter   == [p \in (0..4) \X [remote : MCRemotes, local : MCLocals] |->
                (2 * p[1] + Len(p[2].remote) + Len(p[2].local)) % 5]
MCDigest  == [s \in 0..4 |-> s \div 2]
=============================================================================
