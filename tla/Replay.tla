-------------------------------- MODULE Replay --------------------------------
(***************************************************************************)
(* A replay tape: recorded from a seed and the inputs of each step, encoded*)
(* line by line, stored, perhaps damaged there, decoded and verified       *)
(* against a new session.  The session is any deterministic machine; a     *)
(* record keeps the hash of what each step shows, not all of its state.    *)
(***************************************************************************)
EXTENDS Integers, SequencesExt

CONSTANTS
  Seeds,      \* seeds; as a line's digits are cut, one may become another:
  CutSeed,    \*   what may be left of each
  Remotes,    \* lists of remote commands of a step
  Locals,     \* lists of local actions of a step
  Start,      \* SessionRuntime::new, by seed
  After,      \* transition, by <<state, input>>
  Digest,     \* what stable_state_hash tells of a state and its events
  MaxRecords  \* bound: steps recorded

\* Remote commands and local actions come in lists.
ASSUME ReplayAssumption ==
  \A list \in Remotes \cup Locals : list \in Seq(Range(list))

VARIABLES
  work,     \* "record", "store", "verify" or "done"
  tape,     \* the ReplayTape recorded, and the session at its end
  file,     \* what is stored: the lines of the tape
  damage,   \* history: what happened to the file: "none", "cut" or "edit"
  loaded,   \* the tape decoded, or an error
  verdict   \* of replay_and_verify

replayVars == <<work, tape, file, damage, loaded, verdict>>

Inputs   == [remote : Remotes, local : Locals]
Rejected == [seed |-> -1, records |-> <<>>]   \* decode returned an error
-----------------------------------------------------------------------------
(* Recording.                                                              *)

\* The session before the first and after every input.
Sessions(seed, inputs) ==
  LET state[i \in 0 .. Len(inputs)] ==
        IF i = 0 THEN Start[seed] ELSE After[<<state[i - 1], inputs[i]>>]
  IN state

\* transition_hash after step i, with the logical step.
TransitionHash(seed, inputs, i) == <<i, Digest[Sessions(seed, inputs)[i]]>>

InputsOf(t) == [i \in DOMAIN t.records |-> t.records[i].input]

Record(seed, inputs) ==
  [seed    |-> seed,
   records |-> [i \in DOMAIN inputs |-> [step  |-> i - 1,
                                         input |-> inputs[i],
                                         hash  |-> TransitionHash(seed, inputs, i)]],
   final   |-> Sessions(seed, inputs)[Len(inputs)]]
-----------------------------------------------------------------------------
(* Encoding: a header, then for each record a line S, its commands, E.     *)

LinesOf(r) ==
  <<[tag |-> "S", step |-> r.step, hash |-> r.hash]>>
  \o [i \in DOMAIN r.input.remote |-> [tag |-> "R", command |-> r.input.remote[i]]]
  \o [i \in DOMAIN r.input.local  |-> [tag |-> "L", action  |-> r.input.local[i]]]
  \o <<[tag |-> "E"]>>

\* Slip: a step without input is not written.
EncodeBusy(t) ==
  <<[tag |-> "TTR2", seed |-> t.seed]>>
  \o FlattenSeq([i \in DOMAIN t.records |->
       IF t.records[i].input = [remote |-> <<>>, local |-> <<>>] THEN <<>>
       ELSE LinesOf(t.records[i])])

Encode(t) ==
  <<[tag |-> "TTR2", seed |-> t.seed]>>
  \o FlattenSeq([i \in DOMAIN t.records |-> LinesOf(t.records[i])])

\* decode goes from line to line, between two records or inside one.
Between(records)        == [at |-> "between", records |-> records]
Inside(records, record) == [at |-> "inside", records |-> records, record |-> record]

ReadLine(d, line) ==
  CASE d.at = "between" /\ line.tag = "S" ->
         Inside(d.records, [step |-> line.step, hash |-> line.hash,
                            input |-> [remote |-> <<>>, local |-> <<>>]])
    [] d.at = "inside" /\ line.tag = "R" ->
         Inside(d.records, [d.record EXCEPT !.input.remote = Append(@, line.command)])
    [] d.at = "inside" /\ line.tag = "L" ->
         Inside(d.records, [d.record EXCEPT !.input.local = Append(@, line.action)])
    [] d.at = "inside" /\ line.tag = "E" -> Between(Append(d.records, d.record))
    [] OTHER -> [at |-> "error", records |-> d.records]

ReadOn(d, lines) ==
  LET after[i \in 0 .. Len(lines)] == IF i = 0 THEN d ELSE ReadLine(after[i - 1], lines[i])
  IN after[Len(lines)]

\* What the lines after the header say.
Body(lines) == ReadOn(Between(<<>>), Tail(lines))

\* Slip: a tape that ends inside a step is closed there.
DecodeOpenEnded(lines) ==
  IF lines = <<>> \/ lines[1].tag # "TTR2" \/ Body(lines).at = "error" THEN Rejected
  ELSE LET d == Body(lines)
       IN [seed    |-> lines[1].seed,
           records |-> IF d.at = "inside" THEN Append(d.records, d.record) ELSE d.records]

\* After the header every line belongs to a record that starts with S and ends with E.
Decode(lines) ==
  IF lines = <<>> \/ lines[1].tag # "TTR2" \/ Body(lines).at # "between" THEN Rejected
  ELSE [seed |-> lines[1].seed, records |-> Body(lines).records]
-----------------------------------------------------------------------------
(* Verification.                                                           *)

Mismatches(t) ==
  {i \in DOMAIN t.records : t.records[i].hash # TransitionHash(t.seed, InputsOf(t), i)}

Least(S) == CHOOSE i \in S : \A j \in S : i <= j

\* replay_and_verify stops at the first record that does not match.
Verify(t) ==
  IF Mismatches(t) = {}
  THEN [ok |-> TRUE, session |-> Sessions(t.seed, InputsOf(t))[Len(t.records)]]
  ELSE LET i == Least(Mismatches(t))
       IN [ok |-> FALSE, step |-> i, expected |-> t.records[i].hash,
           actual |-> TransitionHash(t.seed, InputsOf(t), i)]

\* Slip: the prefix stops before the record that failed.
PrefixBefore(t, step) == [t EXCEPT !.records = SubSeq(@, 1, step - 1)]

\* The records up to the mismatch, with the hashes they were recorded with.
MinimalFailurePrefix(t, step) == [t EXCEPT !.records = SubSeq(@, 1, step)]
-----------------------------------------------------------------------------
ReplayInit ==
  /\ work = "record"
  /\ \E seed \in Seeds : tape = Record(seed, <<>>)
  /\ file = <<>> /\ damage = "none"
  /\ loaded = Rejected /\ verdict = [ok |-> FALSE]

RecordStep ==
  /\ work = "record" /\ Len(tape.records) < MaxRecords
  /\ \E input \in Inputs : tape' = Record(tape.seed, Append(InputsOf(tape), input))
  /\ UNCHANGED <<work, file, damage, loaded, verdict>>

WriteTape ==
  /\ work = "record" /\ work' = "store"
  /\ file' = Encode(tape)
  /\ UNCHANGED <<tape, damage, loaded, verdict>>

Damage(kind, lines) ==
  /\ work = "store" /\ damage = "none"
  /\ damage' = kind /\ file' = lines
  /\ UNCHANGED <<work, tape, loaded, verdict>>

\* The write stops short: after some line, or inside the header's last number.  (A cut
\* inside a later line leaves its record without E as well.)
CutFile == \E n \in 0 .. Len(file) - 1 : Damage("cut", SubSeq(file, 1, n))
CutHeader ==
  \E seed \in CutSeed[tape.seed] : Damage("cut", <<[tag |-> "TTR2", seed |-> seed]>>)

\* A record of the file is replaced by another input or another hash.
EditRecord ==
  \E i \in DOMAIN tape.records, input \in Inputs, d \in {Digest[s] : s \in DOMAIN Digest} :
    LET r == [tape.records[i] EXCEPT !.input = input, !.hash = <<i, d>>]
    IN r # tape.records[i] /\ Damage("edit", Encode([tape EXCEPT !.records[i] = r]))

ReadTape ==
  /\ work = "store" /\ work' = "verify"
  /\ loaded' = Decode(file)
  /\ UNCHANGED <<tape, file, damage, verdict>>

VerifyTape ==
  /\ work = "verify" /\ work' = "done"
  /\ loaded # Rejected
  /\ verdict' = Verify(loaded)
  /\ UNCHANGED <<tape, file, damage, loaded>>

ReplayNext ==
  RecordStep \/ WriteTape \/ CutFile \/ CutHeader \/ EditRecord \/ ReadTape \/ VerifyTape
-----------------------------------------------------------------------------
\* A tape that was stored whole is decoded as it was recorded, its verification succeeds,
\* and the session it returns is in the state the recording ended in, also in what the
\* hashes do not show (encode, decode, replay_and_verify).
WholeTapeVerifies ==
  work = "done" /\ damage = "none" =>
    /\ loaded.seed = tape.seed /\ loaded.records = tape.records
    /\ verdict = [ok |-> TRUE, session |-> tape.final]

\* A tape whose write was cut short is rejected, or it is a beginning of the one recorded:
\* no step is made up or changed.  Only a tape without a step may have another seed.
CutTapeIsPrefix ==
  work # "store" /\ damage = "cut" /\ loaded # Rejected =>
    /\ IsPrefix(loaded.records, tape.records)
    /\ loaded.records # <<>> => loaded.seed = tape.seed

\* A mismatch is pinned down: the tape without the failed record and those after it
\* verifies, and the minimal failure prefix fails at its last record in the same way.
MismatchReproduced ==
  work = "done" /\ ~ verdict.ok =>
    /\ Verify([loaded EXCEPT !.records = SubSeq(@, 1, verdict.step - 1)]).ok
    /\ Verify(MinimalFailurePrefix(loaded, verdict.step)) = verdict
    /\ Len(MinimalFailurePrefix(loaded, verdict.step).records) = verdict.step
=============================================================================
