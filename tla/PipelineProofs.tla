--------------------------- MODULE PipelineProofs ---------------------------
(***************************************************************************)
(* What holds of the pipeline that main and the worker put together, for   *)
(* any list of inputs, whatever plugins are missing and however many links *)
(* are refused:                                                            *)
(*                                                                         *)
(* - the worker always gets a pad it can connect: the n-th input made is   *)
(*   the main stream of the n-th switch, whose pad is the n-th of the      *)
(*   module (IInv), so the mixer is never asked for the same pad twice;    *)
(* - a region of the screen leads back to its input (Base, Routes);        *)
(* - a selector shows a sink that has a stream (Selected, Delivers);       *)
(* - what failures leave is accounted for (Fall, Counted).                 *)
(***************************************************************************)
EXTENDS Pipeline, FiniteSetTheorems, TLAPS

Switch == [main : Nat, link : BOOLEAN, active : 0..2]
Region4 == [x : Int, y : Int, w : Int, h : Int]
Ghost == [peer : Nat, behind : Nat]

TypeOK ==
  /\ pc \in {"nosignal", "create", "request", "output", "connect", "play", "playing",
             "failed", "crashed"}
  /\ at \in 1..Len(Config)
  /\ switches \in Seq(Switch)
  /\ mixer \in [ghosts : Seq(Ghost), pads : Seq(Region4), streams : SUBSET Nat, cut : Nat]

\* one switch and one module pad for each input made so far
Numbered ==
  /\ \A n \in 1..Len(switches) : switches[n].main = n
  /\ pads \in Seq({"queue"} \X Nat)
  /\ Len(pads) = Len(switches)
  /\ \A n \in 1..Len(pads) : pads[n] = <<"queue", n>>

Progress ==
  /\ pc \in {"nosignal", "create", "request"} => Len(switches) = at - 1
  /\ pc \in {"output", "connect"} => Len(switches) = Len(Config)
  /\ pc \in {"nosignal", "create", "request", "output"} => mixer.streams = {}
  /\ pc = "connect" => mixer.streams \subseteq 1..at - 1

IInv ==
  /\ TypeOK
  /\ Numbered
  /\ Progress
  /\ CrashesOnlyIf

-----------------------------------------------------------------------------
LEMMA InitIInv == Init => IInv
<1> SUFFICES ASSUME Init PROVE IInv
  OBVIOUS
<1>1. 1 \in 1..Len(Config)
  BY PipelineAssumption DEF PipelineAssumption
<1>2. TypeOK
  <2>1. switches \in Seq(Switch) /\ <<>> \in Seq(Ghost) /\ <<>> \in Seq(Region4)
    BY DEF Init
  <2> QED
    BY <1>1, <2>1 DEF Init, TypeOK, NewMixer
<1>3. Numbered
  <2>1. pads \in Seq({"queue"} \X Nat)
    BY DEF Init
  <2> QED
    BY <2>1 DEF Init, Numbered
<1>4. Progress /\ CrashesOnlyIf
  BY DEF Init, Progress, CrashesOnlyIf, NewMixer
<1> QED
  BY <1>2, <1>3, <1>4 DEF IInv

\* what a kind that is missing stops
LEMMA Missing ==
  ASSUME NEW elements, ~Has(elements)
  PROVE  Kinds(elements) \cap missing # {}
  BY DEF Has, Available

-----------------------------------------------------------------------------
\* The switch and the pad of the input in hand
LEMMA PadInHand ==
  ASSUME IInv, pc = "connect", Len(Config) <= MaxStream
  PROVE  /\ SwitchOf(at) = {at}
         /\ ModulePad = at
         /\ Accepts(mixer, ModulePad)
<1> USE PipelineAssumption DEF PipelineAssumption
<1>1. /\ at \in 1..Len(Config) /\ Len(switches) = Len(Config) /\ Len(pads) = Len(Config)
      /\ Len(Config) \in Nat
      /\ DOMAIN switches = 1..Len(Config) /\ DOMAIN pads = 1..Len(Config)
      /\ \A n \in 1..Len(Config) : switches[n].main = n /\ pads[n] = <<"queue", n>>
      /\ mixer.streams \subseteq 1..at - 1
  BY DEF IInv, TypeOK, Numbered, Progress
<1>2. SwitchOf(at) = {at}
  BY <1>1 DEF SwitchOf
<1>3. ModulePad = at
  <2>1. (CHOOSE n \in SwitchOf(at) : TRUE) = at
    BY <1>2
  <2>2. \A n \in 1..Len(Config) : pads[n] = <<"queue", at>> <=> n = at
    BY <1>1
  <2>3. (CHOOSE n \in DOMAIN pads : pads[n] = <<"queue", at>>) = at
    BY <1>1, <2>2
  <2> QED
    BY <2>1, <2>3 DEF ModulePad, PadOf
<1>4. /\ Cardinality(mixer.streams) \in Nat
      /\ Cardinality(mixer.streams) <= at - 1
  <2>1. 1 \in Int /\ at - 1 \in Int /\ at - 1 >= 0
    BY <1>1
  <2>2. IsFiniteSet(1..at - 1) /\ Cardinality(1..at - 1) = at - 1
    BY <2>1, FS_Interval
  <2> QED
    BY <1>1, <2>1, <2>2, FS_Subset, FS_CardinalityType
<1> QED
  BY <1>1, <1>2, <1>3, <1>4 DEF Accepts, MaxStream
-----------------------------------------------------------------------------
(***************************************************************************)
(* The steps that leave switches, pads and mixer alone                     *)
(***************************************************************************)
LEMMA QuietStep ==
  ASSUME IInv, UNCHANGED <<missing, usage, switches, pads, mixer>>,
         pc' \in {"nosignal", "create", "request", "output", "connect", "play", "playing",
                  "failed", "crashed"},
         at' \in 1..Len(Config),
         pc' \in {"create", "request"} =>
            /\ pc \in {"nosignal", "create", "request"} /\ at' = at,
         pc' # "nosignal",
         pc' = "output" => pc = "output",
         pc' = "connect" => pc = "output",
         pc' = "crashed" => CrashesOnlyIf'
  PROVE  IInv'
<1>1. TypeOK' /\ Numbered'
  BY DEF IInv, TypeOK, Numbered
<1>2. Progress'
  BY DEF IInv, Progress
<1> QED
  BY <1>1, <1>2 DEF IInv, CrashesOnlyIf

\* Sequences: an element appended, one replaced, the last replaced after an append
LEMMA AppendFacts ==
  ASSUME NEW S, NEW s \in Seq(S), NEW e \in S
  PROVE  /\ Append(s, e) \in Seq(S) /\ Len(Append(s, e)) = Len(s) + 1
         /\ Append(s, e)[Len(s) + 1] = e
         /\ \A n \in 1..Len(s) : Append(s, e)[n] = s[n]
  OBVIOUS

LEMMA ExceptFacts ==
  ASSUME NEW S, NEW s \in Seq(S), NEW n, NEW e, n \in 1..Len(s) => e \in S
  PROVE  /\ [s EXCEPT ![n] = e] \in Seq(S) /\ Len([s EXCEPT ![n] = e]) = Len(s)
         /\ \A m \in 1..Len(s) : [s EXCEPT ![n] = e][m] = IF m = n THEN e ELSE s[m]
<1>1. CASE n \in 1..Len(s)
  BY <1>1
<1>2. CASE n \notin 1..Len(s)
  <2>1. [s EXCEPT ![n] = e] = s
    BY <1>2
  <2> QED
    BY <1>2, <2>1
<1> QED
  BY <1>1, <1>2

LEMMA Growth ==
  ASSUME IInv, pc = "request", NEW s \in Switch, s.main = at,
         switches' = Append(switches, s),
         pads' = AddPad(pads, <<"queue", Len(switches) + 1>>)
  PROVE  /\ switches' \in Seq(Switch) /\ Len(switches') = at
         /\ Numbered'
<1>1. /\ at \in Nat \ {0} /\ Len(switches) = at - 1 /\ Len(pads) = at - 1
      /\ switches \in Seq(Switch) /\ pads \in Seq({"queue"} \X Nat)
      /\ \A n \in 1..at - 1 : switches[n].main = n /\ pads[n] = <<"queue", n>>
  BY PipelineAssumption DEF PipelineAssumption, IInv, TypeOK, Numbered, Progress
<1>2. pads' = Append(pads, <<"queue", at>>)
  <2>1. ~ \E n \in DOMAIN pads : pads[n] = <<"queue", at>>
    BY <1>1
  <2> QED
    BY <1>1, <2>1 DEF AddPad
<1>3. /\ switches' \in Seq(Switch) /\ Len(switches') = at
      /\ \A n \in 1..at : switches'[n].main = n
  BY <1>1
<1>4. /\ pads' \in Seq({"queue"} \X Nat) /\ Len(pads') = at
      /\ pads'[at] = <<"queue", at>>
      /\ \A n \in 1..at - 1 : pads'[n] = pads[n]
  <2> DEFINE Pad == {"queue"} \X Nat
             new == <<"queue", at>>
  <2>1. new \in Pad /\ pads \in Seq(Pad) /\ pads' = Append(pads, new)
    BY <1>1, <1>2
  <2> HIDE DEF Pad, new
  <2>2. Len(pads) = at - 1 /\ Len(pads) + 1 = at
    BY <1>1
  <2>3. /\ pads' \in Seq(Pad) /\ Len(pads') = at /\ pads'[at] = new
        /\ \A n \in 1..at - 1 : pads'[n] = pads[n]
    <3>1. /\ Append(pads, new) \in Seq(Pad) /\ Len(Append(pads, new)) = Len(pads) + 1
          /\ Append(pads, new)[Len(pads) + 1] = new
          /\ \A n \in 1..Len(pads) : Append(pads, new)[n] = pads[n]
      BY <2>1, AppendFacts
    <3> QED
      BY <2>1, <2>2, <3>1
  <2> QED
    BY <2>3 DEF Pad, new
<1>5. \A n \in 1..at : pads'[n] = <<"queue", n>>
  <2>1. TAKE n \in 1..at
  <2>2. n = at \/ n \in 1..at - 1
    BY <1>1
  <2> QED
    BY <1>1, <1>4, <2>2
<1> QED
  BY <1>3, <1>4, <1>5 DEF Numbered

(***************************************************************************)
(* A decoder that has found its pad changes only what its switch shows     *)
(***************************************************************************)
LEMMA PadAddedKeeps ==
  ASSUME IInv, NEW i \in Inputs, PadAdded(i)
  PROVE  IInv'
<1>1. PICK R : PadAddedLinks(i, R)
  BY DEF PadAdded
<1>2. UNCHANGED <<missing, usage, pc, at, pads, mixer>> /\ pc = "playing"
  BY DEF PadAdded
<1>3. /\ switches' \in Seq(Switch) /\ Len(switches') = Len(switches)
      /\ \A m \in 1..Len(switches) : switches'[m].main = switches[m].main
  <2> DEFINE n == CHOOSE n \in SwitchOf(i) : TRUE
  <2>1. switches \in Seq(Switch)
    BY DEF IInv, TypeOK
  <2>2. switches' = switches \/ switches' = [switches EXCEPT ![n].link = TRUE, ![n].active = 0]
    BY <1>1 DEF PadAddedLinks
  <2> HIDE DEF n
  <2>3. \A s \in Switch : /\ [s EXCEPT !.link = TRUE, !.active = 0] \in Switch
                          /\ [s EXCEPT !.link = TRUE, !.active = 0].main = s.main
    <3>1. TAKE s \in Switch
    <3>2. TRUE \in BOOLEAN /\ 0 \in 0..2 /\ s \in [main : Nat, link : BOOLEAN, active : 0..2]
      BY DEF Switch
    <3>3. [s EXCEPT !.link = TRUE, !.active = 0].main = s.main
      BY <3>2
    <3>4. [s EXCEPT !.link = TRUE, !.active = 0] \in Switch
      BY <3>2 DEF Switch
    <3> QED
      BY <3>3, <3>4
  <2>4. CASE switches' = switches
    BY <2>1, <2>4
  <2>5. CASE switches' = [switches EXCEPT ![n].link = TRUE, ![n].active = 0]
    <3>1. switches' = [switches EXCEPT ![n] = [switches[n] EXCEPT !.link = TRUE, !.active = 0]]
      BY <2>1, <2>5
    <3>2. n \in 1..Len(switches) => switches[n] \in Switch
      BY <2>1
    <3> DEFINE new == [switches[n] EXCEPT !.link = TRUE, !.active = 0]
    <3>3. n \in 1..Len(switches) => new \in Switch /\ new.main = switches[n].main
      BY <2>3, <3>2
    <3> HIDE DEF new
    <3>4. /\ switches' \in Seq(Switch) /\ Len(switches') = Len(switches)
          /\ \A m \in 1..Len(switches) : switches'[m] = IF m = n THEN new ELSE switches[m]
      BY <2>1, <3>1, <3>3, ExceptFacts DEF new
    <3> QED
      BY <3>3, <3>4
  <2> QED
    BY <2>2, <2>4, <2>5
<1>4. TypeOK' /\ Numbered' /\ Progress' /\ CrashesOnlyIf'
  BY <1>2, <1>3 DEF IInv, TypeOK, Numbered, Progress, CrashesOnlyIf
<1> QED
  BY <1>4 DEF IInv

LEMMA RequestPadKeeps ==
  ASSUME IInv, RequestPad
  PROVE  IInv'
<1>1. PICK R \in SUBSET (Inputs \X {"tee", "sink"}) : RequestPadAt(R)
  BY DEF RequestPad
<1> DEFINE main == Gives(at) /\ <<at, "sink">> \notin R
           image == Gives(0) /\ <<0, "sink">> \notin R
<1>2. /\ switches' = Append(switches,
             [main |-> at, link |-> main, active |-> FirstShown(main, image)])
      /\ pads' = AddPad(pads, <<"queue", Len(switches) + 1>>)
      /\ main \in BOOLEAN /\ image \in BOOLEAN
  BY <1>1 DEF RequestPadAt
<1> HIDE DEF main, image
<1>3. at \in Nat /\ Len(Config) \in Nat /\ at \in 1..Len(Config)
  BY PipelineAssumption DEF PipelineAssumption, IInv, TypeOK
<1>4. [main |-> at, link |-> main, active |-> FirstShown(main, image)] \in Switch
  <2>1. FirstShown(main, image) \in 0..2
    BY <1>2 DEF FirstShown
  <2> QED
    BY <1>2, <1>3, <2>1 DEF Switch
<1>5. /\ switches' \in Seq(Switch) /\ Len(switches') = at
      /\ Numbered'
  BY <1>2, <1>4, Growth DEF RequestPad
<1>6. /\ mixer' = mixer
      /\ pc' = IF at = Len(Config) THEN "output" ELSE "create"
      /\ at' = IF at = Len(Config) THEN at ELSE at + 1
  BY <1>1 DEF RequestPadAt
<1>7. at' \in 1..Len(Config)
  BY <1>3, <1>6
<1>8. TypeOK' /\ CrashesOnlyIf'
  BY <1>5, <1>6, <1>7 DEF IInv, TypeOK, CrashesOnlyIf
<1>9. mixer.streams = {}
  BY DEF IInv, Progress, RequestPad
<1>10. Progress'
  BY <1>3, <1>5, <1>6, <1>9 DEF Progress
<1> QED
  BY <1>5, <1>8, <1>10 DEF IInv

(***************************************************************************)
(* The worker                                                              *)
(***************************************************************************)
LEMMA NextInputFacts ==
  ASSUME IInv, pc = "connect", NextInput
  PROVE  /\ at \in Nat /\ Len(Config) \in Nat /\ at' \in 1..Len(Config)
         /\ pc' \in {"connect", "play"}
         /\ pc' = "connect" => at' = at + 1
  BY PipelineAssumption DEF PipelineAssumption, IInv, TypeOK, NextInput

LEMMA ConnectStreamKeeps ==
  ASSUME IInv, ConnectStream, Len(Config) <= MaxStream
  PROVE  IInv'
<1>1. /\ pc = "connect" /\ NextInput /\ UNCHANGED <<switches, pads>> /\ ModulePad = at
      /\ at \in Nat /\ Len(Config) \in Nat /\ at' \in 1..Len(Config)
      /\ pc' \in {"connect", "play"}
      /\ pc' = "connect" => at' = at + 1
  BY PadInHand, NextInputFacts DEF ConnectStream
<1>2. PICK R \in SUBSET {"mix", "ghost"} :
        LET connected == Connect(mixer, at, ThreeScreen(at - 1), "mix" \in R)
        IN  mixer' = IF "ghost" \in R THEN connected ELSE LinkGhost(connected, at)
  BY <1>1 DEF ConnectStream
<1> DEFINE Mixer == [ghosts : Seq(Ghost), pads : Seq(Region4), streams : SUBSET Nat, cut : Nat]
           mix == "mix" \in R
           connected == Connect(mixer, at, ThreeScreen(at - 1), mix)
<1>3. mixer \in Mixer
  BY DEF IInv, TypeOK
<1>4. ThreeScreen(at - 1) \in Region4 /\ Unset \in Region4
  BY <1>1 DEF ThreeScreen, Region4, Unset, ScreenWidth, ScreenHeight
<1>5. /\ connected \in Mixer /\ Len(connected.ghosts) = Len(mixer.ghosts) + 1
      /\ connected.streams \subseteq mixer.streams \cup {at}
  <2>1. [peer |-> 0, behind |-> IF mix THEN 0 ELSE Len(mixer.pads) + 1] \in Ghost
    BY <1>3 DEF Ghost
  <2>2. Append(mixer.ghosts, [peer |-> 0, behind |-> IF mix THEN 0 ELSE Len(mixer.pads) + 1])
          \in Seq(Ghost)
    BY <1>3, <2>1
  <2>3. Append(mixer.pads, IF mix THEN Unset ELSE ThreeScreen(at - 1)) \in Seq(Region4)
    BY <1>3, <1>4
  <2>4. (IF mix THEN mixer.streams ELSE mixer.streams \cup {at}) \in SUBSET Nat
    BY <1>1, <1>3
  <2> DEFINE ghosts == Append(mixer.ghosts,
                         [peer |-> 0, behind |-> IF mix THEN 0 ELSE Len(mixer.pads) + 1])
             regions == Append(mixer.pads, IF mix THEN Unset ELSE ThreeScreen(at - 1))
             streams == IF mix THEN mixer.streams ELSE mixer.streams \cup {at}
  <2>5. connected = [mixer EXCEPT !.ghosts = ghosts, !.pads = regions, !.streams = streams]
    BY DEF Connect
  <2>6. Len(ghosts) = Len(mixer.ghosts) + 1 /\ streams \subseteq mixer.streams \cup {at}
    BY <1>3, <2>1, AppendFacts
  <2> HIDE DEF ghosts, regions, streams, mix
  <2>7. connected \in Mixer /\ connected.ghosts = ghosts /\ connected.streams = streams
    BY <1>3, <2>2, <2>3, <2>4, <2>5 DEF ghosts, regions, streams
  <2> HIDE DEF connected
  <2> QED
    BY <2>6, <2>7
<1>6. LinkGhost(connected, at) \in Mixer /\ LinkGhost(connected, at).streams = connected.streams
  <2> HIDE DEF connected
  <2>1. [connected.ghosts EXCEPT ![Len(connected.ghosts)].peer = at] \in Seq(Ghost)
    <3>1. connected.ghosts \in Seq(Ghost) /\ Len(connected.ghosts) \in 1..Len(connected.ghosts)
      BY <1>3, <1>5
    <3>2. connected.ghosts[Len(connected.ghosts)] \in Ghost
      BY <3>1
    <3>3. \A g \in Ghost : [g EXCEPT !.peer = at] \in Ghost
      BY <1>1 DEF Ghost
    <3> QED
      BY <3>1, <3>2, <3>3
  <2> QED
    BY <1>5, <2>1 DEF LinkGhost
<1>7. mixer' \in Mixer /\ mixer'.streams \subseteq mixer.streams \cup {at}
  BY <1>2, <1>5, <1>6
<1>8. TypeOK' /\ Numbered' /\ CrashesOnlyIf'
  BY <1>1, <1>7 DEF IInv, TypeOK, Numbered, CrashesOnlyIf
<1>9. Progress'
  <2>1. Len(switches') = Len(Config) /\ mixer.streams \subseteq 1..at - 1
    BY <1>1 DEF IInv, Progress
  <2>2. pc' = "connect" => mixer'.streams \subseteq 1..at' - 1
    BY <1>1, <1>7, <2>1 DEF IInv, TypeOK
  <2> QED
    BY <1>1, <2>1, <2>2 DEF Progress
<1> QED
  BY <1>8, <1>9 DEF IInv

LEMMA ConnectNothingKeeps ==
  ASSUME IInv, ConnectNothing, Len(Config) <= MaxStream
  PROVE  IInv'
<1>1. /\ pc = "connect" /\ UNCHANGED <<missing, usage, switches, pads>>
      /\ Accepts(mixer, ModulePad)
      /\ at \in 1..Len(Config)
  BY PadInHand DEF ConnectNothing, IInv, TypeOK
<1>2. \/ mixer' = mixer /\ ~Has(MixerBranch(usage))
      \/ mixer' = ConnectCut(mixer)
  BY <1>1 DEF ConnectNothing
<1>3. /\ mixer' \in [ghosts : Seq(Ghost), pads : Seq(Region4), streams : SUBSET Nat, cut : Nat]
      /\ mixer'.streams = mixer.streams
      /\ mixer'.cut > 0 \/ ~Has(MixerBranch(usage))
  BY <1>2 DEF IInv, TypeOK, ConnectCut
<1>4. /\ at' \in 1..Len(Config) /\ pc' \in {"connect", "play", "crashed"}
      /\ pc' = "connect" => at' = at + 1
  <2>1. CASE NextInput
    BY <1>1, <2>1, NextInputFacts
  <2>2. CASE pc' = "crashed" /\ UNCHANGED at
    BY <1>1, <2>2
  <2> QED
    BY <2>1, <2>2 DEF ConnectNothing
<1>5. TypeOK' /\ Numbered'
  BY <1>1, <1>3, <1>4 DEF IInv, TypeOK, Numbered
<1>6. CrashesOnlyIf'
  BY <1>1, <1>3, Missing DEF CrashesOnlyIf
<1>7. Progress'
  <2>1. Len(switches') = Len(Config) /\ mixer.streams \subseteq 1..at - 1
    BY <1>1 DEF IInv, Progress
  <2>2. at \in Nat
    BY <1>1, PipelineAssumption DEF PipelineAssumption
  <2>3. pc' = "connect" => mixer'.streams \subseteq 1..at' - 1
    BY <1>3, <1>4, <2>1, <2>2
  <2> QED
    BY <1>4, <2>1, <2>3 DEF Progress
<1> QED
  BY <1>5, <1>6, <1>7 DEF IInv

-----------------------------------------------------------------------------
LEMMA NextKeeps ==
  ASSUME IInv, Next, Len(Config) <= MaxStream
  PROVE  IInv'
<1> USE PipelineAssumption DEF PipelineAssumption
<1>0. at \in 1..Len(Config) /\ 1 \in 1..Len(Config) /\ mixer.streams = mixer.streams
  BY DEF IInv, TypeOK
<1>1. ASSUME CreateNosignal PROVE IInv'
  <2>1. CrashesOnlyIf'
    BY <1>1, Missing DEF CreateNosignal, CrashesOnlyIf
  <2>2. pc' \in {"create", "crashed"}
    BY <1>1 DEF CreateNosignal
  <2> QED
    BY <1>0, <1>1, <2>1, <2>2, QuietStep DEF CreateNosignal
<1>2. ASSUME Create PROVE IInv'
  BY <1>0, <1>2, QuietStep DEF Create
<1>3. ASSUME RequestPad PROVE IInv'
  BY <1>3, RequestPadKeeps
<1>4. ASSUME RequestNoPad PROVE IInv'
  <2>1. ({"input-selector", "queue"} \cap missing) # {}
    BY <1>4, Missing DEF RequestNoPad, Kinds
  <2>2. "queue" \in Kinds(MixerElements(usage))
    BY DEF Kinds, MixerElements
  <2>3. CrashesOnlyIf'
    BY <1>4, <2>1, <2>2 DEF RequestNoPad, graphVars, CrashesOnlyIf
  <2> QED
    BY <1>0, <1>4, <2>3, QuietStep DEF RequestNoPad, graphVars
<1>5. ASSUME Output PROVE IInv'
  BY <1>0, <1>5, QuietStep DEF Output, graphVars
<1>6. ASSUME OutputOfBrokenMixer PROVE IInv'
  <2>1. CrashesOnlyIf'
    BY <1>6, Missing DEF OutputOfBrokenMixer, graphVars, CrashesOnlyIf
  <2> QED
    BY <1>0, <1>6, <2>1, QuietStep DEF OutputOfBrokenMixer, graphVars
<1>7. ASSUME ConnectStream PROVE IInv'
  BY <1>7, ConnectStreamKeeps
<1>8. ASSUME ConnectNothing PROVE IInv'
  BY <1>8, ConnectNothingKeeps
<1>9. ASSUME Play PROVE IInv'
  BY <1>0, <1>9, QuietStep DEF Play, graphVars
<1>10. ASSUME NEW i \in Inputs, PadAdded(i) PROVE IInv'
  BY <1>10, PadAddedKeeps
<1> QED
  BY <1>1, <1>2, <1>3, <1>4, <1>5, <1>6, <1>7, <1>8, <1>9, <1>10 DEF Next

(***************************************************************************)
(* With at most as many inputs as the mixer takes, only a plugin of the    *)
(* switch, the mixer or its branches, or a branch that fell apart, makes   *)
(* init() or the worker use a pointer that was never set.                  *)
(***************************************************************************)
THEOREM CrashesOnlyIfHolds ==
  ASSUME Len(Config) <= MaxStream
  PROVE  Spec => []CrashesOnlyIf
<1>1. Init => IInv
  BY InitIInv
<1>2. IInv /\ [Next]_vars => IInv'
  <2>1. ASSUME IInv, UNCHANGED vars PROVE IInv'
    BY <2>1 DEF vars, graphVars, IInv, TypeOK, Numbered, Progress, CrashesOnlyIf
  <2> QED
    BY <2>1, NextKeeps
<1>3. IInv => CrashesOnlyIf
  BY DEF IInv
<1> QED
  BY <1>1, <1>2, <1>3, PTL DEF Spec
-----------------------------------------------------------------------------
(***************************************************************************)
(* The graph: what the branches, the selectors and the mixer are linked to.*)
(***************************************************************************)
Branch == [tee : BOOLEAN, peer : Nat \X Nat]

GraphTypes ==
  /\ refused \in Nat
  /\ state \in [Inputs -> {"Invalid", "Ready"}]
  /\ fed \in SUBSET Inputs
  /\ branch \in [Inputs -> Seq(Branch)]

\* where the worker and main stand
Stages ==
  /\ Len(switches) <= Len(Config)
  /\ pc = "nosignal" => at = 1
  /\ pc \in {"play", "playing"} => Len(switches) = Len(Config)
  /\ pc \in {"nosignal", "create", "request", "output"} => mixer = NewMixer

\* a branch is on its own selector, the image's on any, each on one sink; an input
\* without a source has none, and an input gets one, but for the image
Peers ==
  /\ \A i \in Inputs : \A b \in DOMAIN branch[i] :
       \/ branch[i][b].peer = NoPeer
       \/ i \in DOMAIN switches /\ branch[i][b].peer = <<i, 0>>
       \/ i = 0 /\ \E n \in DOMAIN switches : branch[i][b].peer = <<n, 1>>
  /\ \A i \in Inputs : \A b, c \in DOMAIN branch[i] :
       branch[i][b].peer = branch[i][c].peer /\ branch[i][b].peer # NoPeer => b = c
  /\ \A i \in Inputs : i # 0 => Len(branch[i]) <= 1
  /\ \A i \in Inputs : i > Len(switches) => branch[i] = <<>>
  /\ Len(branch[0]) <= Len(switches)
  /\ \A i \in Inputs : state[i] = "Invalid" => branch[i] = <<>>

Base == IInv /\ GraphTypes /\ Stages /\ Peers

\* The branch that input i gets for switch n, when the links in R are refused
New(i, n, R) ==
  [tee |-> <<i, "tee">> \notin R,
   peer |-> IF <<i, "sink">> \in R THEN NoPeer ELSE <<n, IF i = 0 THEN 1 ELSE 0>>]

\* Each input of G gets one
Grown(G, n, R) ==
  branch' = [i \in Inputs |-> IF i \in G THEN Append(branch[i], New(i, n, R)) ELSE branch[i]]

\* The branches of an input after some have got one
LEMMA GrownAt ==
  ASSUME GraphTypes, NEW G \in SUBSET Inputs, NEW n \in Nat, NEW R, Grown(G, n, R), NEW i \in Inputs
  PROVE  /\ branch'[i] \in Seq(Branch)
         /\ Len(branch'[i]) = IF i \in G THEN Len(branch[i]) + 1 ELSE Len(branch[i])
         /\ \A b \in DOMAIN branch[i] : b \in DOMAIN branch'[i] /\ branch'[i][b] = branch[i][b]
         /\ \A b \in DOMAIN branch'[i] :
              \/ b \in DOMAIN branch[i]
              \/ i \in G /\ b = Len(branch[i]) + 1
         /\ i \in G => /\ Len(branch[i]) + 1 \in DOMAIN branch'[i]
                       /\ branch'[i][Len(branch[i]) + 1] = New(i, n, R)
<1>1. branch[i] \in Seq(Branch)
  BY DEF GraphTypes
<1>2. New(i, n, R) \in Branch
  <2>1. NoPeer \in Nat \X Nat /\ <<n, IF i = 0 THEN 1 ELSE 0>> \in Nat \X Nat
    BY DEF NoPeer
  <2>2. (<<i, "tee">> \notin R) \in BOOLEAN
    OBVIOUS
  <2> DEFINE tee == <<i, "tee">> \notin R
             peer == IF <<i, "sink">> \in R THEN NoPeer ELSE <<n, IF i = 0 THEN 1 ELSE 0>>
  <2>3. tee \in BOOLEAN /\ peer \in Nat \X Nat
    BY <2>1, <2>2
  <2>4. New(i, n, R) = [tee |-> tee, peer |-> peer]
    BY DEF New
  <2> HIDE DEF tee, peer
  <2> QED
    BY <2>3, <2>4 DEF Branch
<1> DEFINE s == branch[i]
           e == New(i, n, R)
<1>3. branch'[i] = IF i \in G THEN Append(s, e) ELSE s
  BY DEF Grown
<1> HIDE DEF s, e
<1>4. s \in Seq(Branch) /\ e \in Branch
  BY <1>1, <1>2 DEF s, e
<1>5. /\ Append(s, e) \in Seq(Branch) /\ Len(Append(s, e)) = Len(s) + 1
      /\ Append(s, e)[Len(s) + 1] = e
      /\ \A m \in 1..Len(s) : Append(s, e)[m] = s[m]
  BY <1>4, AppendFacts
<1>6. Len(s) \in Nat /\ DOMAIN s = 1..Len(s) /\ DOMAIN Append(s, e) = 1..Len(s) + 1
  BY <1>4, <1>5
<1>7. CASE i \in G
  <2>1. branch'[i] = Append(s, e)
    BY <1>3, <1>7
  <2> QED
    BY <1>5, <1>6, <1>7, <2>1 DEF s, e
<1>8. CASE i \notin G
  <2>1. branch'[i] = s
    BY <1>3, <1>8
  <2> QED
    BY <1>4, <1>8, <2>1 DEF s
<1> QED
  BY <1>7, <1>8

LEMMA GrownNew ==
  ASSUME GraphTypes, NEW G \in SUBSET Inputs, NEW n \in Nat, NEW R, Grown(G, n, R), NEW i \in G
  PROVE  branch'[i][Len(branch[i]) + 1] = New(i, n, R)
<1>1. i \in Inputs
  OBVIOUS
<1>2. branch'[i] = Append(branch[i], New(i, n, R)) /\ branch[i] \in Seq(Branch)
  BY <1>1 DEF Grown, GraphTypes
<1> DEFINE s == branch[i]
           e == New(i, n, R)
<1> HIDE DEF s, e
<1>3. branch'[i] = Append(s, e) /\ s \in Seq(Branch)
  BY <1>2 DEF s, e
<1>4. branch'[i][Len(s) + 1] = e
  BY <1>3
<1> QED
  BY <1>4 DEF s, e

\* What requesting a pad and finding the decoder's pad do to the branches
LEMMA RequestGrows ==
  ASSUME Base, RequestPad
  PROVE  /\ at \in Nat /\ at # 0 /\ at \in Inputs /\ 0 \in Inputs /\ Len(switches) = at - 1
         /\ Len(Config) \in Nat /\ at <= Len(Config)
         /\ \E R : /\ RequestPadAt(R)
                   /\ Grown({i \in {0, at} : Gives(i)}, at, R)
<1>1. /\ at \in Nat /\ at # 0 /\ at \in Inputs /\ 0 \in Inputs /\ Len(switches) = at - 1
      /\ Len(Config) \in Nat /\ at <= Len(Config)
  BY PipelineAssumption DEF PipelineAssumption, Base, IInv, TypeOK, Progress, RequestPad, Inputs
<1>2. PICK R : RequestPadAt(R)
  BY DEF RequestPad
<1> DEFINE G == {i \in {0, at} : Gives(i)}
<1>3. branch' = [Branched(at, at, 0, R) EXCEPT ![0] = Branched(0, at, 1, R)[0]]
  BY <1>1, <1>2 DEF RequestPadAt
<1>4. DOMAIN branch = Inputs
  BY DEF Base, GraphTypes
<1>5. Grown(G, at, R)
  <2>1. /\ DOMAIN Branched(at, at, 0, R) = Inputs
        /\ \A i \in Inputs : i # at => Branched(at, at, 0, R)[i] = branch[i]
        /\ Branched(at, at, 0, R)[at] = IF Gives(at) THEN Append(branch[at], New(at, at, R)) ELSE branch[at]
    BY <1>1, <1>4 DEF Branched, New
  <2>2. Branched(0, at, 1, R)[0] = IF Gives(0) THEN Append(branch[0], New(0, at, R)) ELSE branch[0]
    BY <1>1, <1>4 DEF Branched, New
  <2>3. /\ DOMAIN branch' = Inputs
        /\ \A i \in Inputs : branch'[i] = IF i \in G THEN Append(branch[i], New(i, at, R)) ELSE branch[i]
    <3> DEFINE f == Branched(at, at, 0, R)
               v == Branched(0, at, 1, R)[0]
    <3>1. branch' = [f EXCEPT ![0] = v]
      BY <1>3
    <3> HIDE DEF f, v
    <3>2. DOMAIN f = Inputs
      BY <2>1 DEF f
    <3>3. DOMAIN branch' = Inputs /\ branch'[0] = v /\ \A i \in Inputs : i # 0 => branch'[i] = f[i]
      BY <1>1, <3>1, <3>2
    <3>4. ASSUME NEW i \in Inputs
          PROVE  branch'[i] = IF i \in G THEN Append(branch[i], New(i, at, R)) ELSE branch[i]
      <4>1. CASE i = 0
        BY <1>1, <2>2, <3>3, <4>1 DEF v
      <4>2. CASE i = at
        BY <1>1, <2>1, <3>3, <4>2 DEF f
      <4>3. CASE i # 0 /\ i # at
        BY <1>1, <2>1, <3>3, <4>3 DEF f
      <4> QED
        BY <4>1, <4>2, <4>3
    <3> QED
      BY <3>3, <3>4
  <2>4. branch' = [i \in DOMAIN branch' |-> branch'[i]]
    BY <1>3
  <2> HIDE DEF G
  <2> QED
    BY <2>3, <2>4 DEF Grown
<1> QED
  BY <1>1, <1>2, <1>5

\* What a decoder that finds its pad does: its branch, and its selector
LEMMA PadAddedGrows ==
  ASSUME Base, NEW i \in Inputs, PadAdded(i)
  PROVE  /\ i \in Nat /\ i # 0 /\ i \in DOMAIN switches
         /\ \E R \in SUBSET {<<i, "source">>, <<i, "tee">>, <<i, "sink">>} :
              /\ Refuse(R)
              /\ fed' = IF <<i, "source">> \in R THEN fed ELSE fed \cup {i}
              /\ Grown({i}, i, R)
              /\ switches' = IF <<i, "sink">> \in R THEN switches
                             ELSE [switches EXCEPT ![i].link = TRUE, ![i].active = 0]
<1>1. i \in Nat /\ i # 0 /\ Len(Config) \in Nat /\ i <= Len(Config)
  <2>1. i # 0
    BY DEF PadAdded, Type
  <2> QED
    BY <2>1, PipelineAssumption DEF PipelineAssumption, Inputs
<1>2. /\ switches \in Seq(Switch) /\ Len(switches) = Len(Config)
      /\ \A n \in 1..Len(switches) : switches[n].main = n
  BY DEF PadAdded, Base, IInv, TypeOK, Numbered, Stages
<1>3. i \in DOMAIN switches /\ SwitchOf(i) = {i}
  BY <1>1, <1>2 DEF SwitchOf
<1>4. (CHOOSE n \in SwitchOf(i) : TRUE) = i
  BY <1>3
<1>5. PICK R \in SUBSET {<<i, "source">>, <<i, "tee">>, <<i, "sink">>} : PadAddedLinks(i, R)
  BY DEF PadAdded
<1> DEFINE n == CHOOSE n \in SwitchOf(i) : TRUE
<1>6. /\ Refuse(R)
      /\ fed' = IF <<i, "source">> \in R THEN fed ELSE fed \cup {i}
      /\ branch' = [branch EXCEPT ![i] =
           Append(@, [tee |-> <<i, "tee">> \notin R,
                      peer |-> IF <<i, "sink">> \in R THEN NoPeer ELSE <<n, 0>>])]
      /\ switches' = IF <<i, "sink">> \in R THEN switches
                     ELSE [switches EXCEPT ![n].link = TRUE, ![n].active = 0]
  BY <1>5 DEF PadAddedLinks
<1>7. n = i
  BY <1>4
<1> HIDE DEF n
<1>8. /\ Refuse(R)
      /\ fed' = IF <<i, "source">> \in R THEN fed ELSE fed \cup {i}
      /\ branch' = [branch EXCEPT ![i] =
           Append(@, [tee |-> <<i, "tee">> \notin R,
                      peer |-> IF <<i, "sink">> \in R THEN NoPeer ELSE <<i, 0>>])]
      /\ switches' = IF <<i, "sink">> \in R THEN switches
                     ELSE [switches EXCEPT ![i].link = TRUE, ![i].active = 0]
  BY <1>6, <1>7
<1>9. Grown({i}, i, R)
  <2>1. branch' = [branch EXCEPT ![i] = Append(branch[i], New(i, i, R))]
    BY <1>1, <1>8 DEF New
  <2>2. branch = [j \in Inputs |-> branch[j]]
    BY DEF Base, GraphTypes
  <2> DEFINE e == Append(branch[i], New(i, i, R))
  <2> HIDE DEF e
  <2>3. branch' = [j \in Inputs |-> IF j = i THEN e ELSE branch[j]]
    BY <2>1, <2>2 DEF e
  <2>4. branch' = [j \in Inputs |-> IF j \in {i} THEN Append(branch[j], New(j, i, R)) ELSE branch[j]]
    <3>1. \A j \in Inputs : (IF j = i THEN e ELSE branch[j])
                           = (IF j \in {i} THEN Append(branch[j], New(j, i, R)) ELSE branch[j])
      BY DEF e
    <3> QED
      BY <2>3, <3>1
  <2> QED
    BY <2>4 DEF Grown
<1> QED
  BY <1>1, <1>3, <1>8, <1>9

\* The sets of links that one action tries are finite
LEMMA SmallFinite ==
  /\ \A a : IsFiniteSet({a})
  /\ \A a, b : IsFiniteSet({a, b})
  /\ \A a, b, c : IsFiniteSet({a, b, c})
  /\ \A a, b, c, d : IsFiniteSet({a, b, c, d})
<1>1. \A a : IsFiniteSet({a})
  BY FS_Singleton
<1>2. ASSUME NEW S, IsFiniteSet(S), NEW x, NEW T, T = S \cup {x}
      PROVE  IsFiniteSet(T)
  BY <1>2, FS_AddElement
<1>3. ASSUME NEW a, NEW b PROVE IsFiniteSet({a, b})
  <2>1. {a, b} = {a} \cup {b}
    OBVIOUS
  <2> QED
    BY <1>1, <1>2, <2>1, Zenon
<1>4. ASSUME NEW a, NEW b, NEW c PROVE IsFiniteSet({a, b, c})
  <2>1. {a, b, c} = {a, b} \cup {c}
    OBVIOUS
  <2> QED
    BY <1>2, <1>3, <2>1, Zenon
<1>5. ASSUME NEW a, NEW b, NEW c, NEW d PROVE IsFiniteSet({a, b, c, d})
  <2>1. {a, b, c, d} = {a, b, c} \cup {d}
    OBVIOUS
  <2> QED
    BY <1>2, <1>4, <2>1, Zenon
<1> QED
  BY <1>1, <1>3, <1>4, <1>5

\* Branches that are added keep to their selectors
LEMMA PeersGrow ==
  ASSUME Base, NEW G \in SUBSET Inputs, NEW n \in Nat, NEW R, Grown(G, n, R),
         switches' \in Seq(Switch), Len(switches') >= Len(switches), n \in DOMAIN switches',
         0 \in G => n = Len(switches) + 1,
         \A i \in G : i # 0 => i = n /\ branch[i] = <<>>,
         \A i \in Inputs : state'[i] = "Invalid" => state[i] = "Invalid" /\ i \notin G
  PROVE  Peers'
<1>1. /\ GraphTypes /\ Peers /\ switches \in Seq(Switch) /\ Inputs \subseteq Nat
      /\ Len(switches) \in Nat /\ Len(switches') \in Nat
      /\ DOMAIN switches = 1..Len(switches) /\ DOMAIN switches' = 1..Len(switches')
      /\ DOMAIN switches \subseteq DOMAIN switches'
  BY PipelineAssumption DEF PipelineAssumption, Base, IInv, TypeOK, Inputs
<1>2. \A i \in Inputs : branch[i] \in Seq(Branch) /\ Len(branch[i]) \in Nat /\ DOMAIN branch[i] = 1..Len(branch[i])
  BY <1>1 DEF GraphTypes
<1>3. ASSUME NEW i \in Inputs, NEW b \in DOMAIN branch'[i]
      PROVE  \/ branch'[i][b].peer = NoPeer
             \/ i \in DOMAIN switches' /\ branch'[i][b].peer = <<i, 0>>
             \/ i = 0 /\ \E m \in DOMAIN switches' : branch'[i][b].peer = <<m, 1>>
  <2>1. CASE b \in DOMAIN branch[i]
    <3>1. branch'[i][b] = branch[i][b]
      BY <1>1, <2>1, GrownAt
    <3>2. \/ branch[i][b].peer = NoPeer
          \/ i \in DOMAIN switches /\ branch[i][b].peer = <<i, 0>>
          \/ i = 0 /\ \E m \in DOMAIN switches : branch[i][b].peer = <<m, 1>>
      BY <1>1, <2>1 DEF Peers
    <3> QED
      BY <1>1, <3>1, <3>2
  <2>2. CASE b \notin DOMAIN branch[i]
    <3>1. i \in G /\ branch'[i][b] = New(i, n, R)
      <4>1. i \in G /\ b = Len(branch[i]) + 1
        BY <1>1, <2>2, GrownAt
      <4>2. branch'[i][Len(branch[i]) + 1] = New(i, n, R)
        BY <1>1, <4>1, GrownNew
      <4> QED
        BY <4>1, <4>2
    <3>2. New(i, n, R).peer = IF <<i, "sink">> \in R THEN NoPeer ELSE <<n, IF i = 0 THEN 1 ELSE 0>>
      BY DEF New
    <3> QED
      BY <3>1, <3>2
  <2> QED
    BY <2>1, <2>2
<1>4. ASSUME NEW i \in Inputs, NEW b \in DOMAIN branch'[i], NEW c \in DOMAIN branch'[i],
             branch'[i][b].peer = branch'[i][c].peer, branch'[i][b].peer # NoPeer
      PROVE  b = c
  <2>1. ASSUME NEW x \in DOMAIN branch[i]
        PROVE  /\ branch'[i][x] = branch[i][x]
               /\ i \in G => branch[i][x].peer # <<n, IF i = 0 THEN 1 ELSE 0>>
    <3>1. branch'[i][x] = branch[i][x]
      BY <1>1, GrownAt
    <3>2. ASSUME i \in G PROVE branch[i][x].peer # <<n, IF i = 0 THEN 1 ELSE 0>>
      <4>1. CASE i # 0
        BY <1>2, <3>2, <4>1
      <4>2. CASE i = 0
        <5>1. n \notin DOMAIN switches
          BY <1>1, <3>2, <4>2
        <5>2. \/ branch[i][x].peer = NoPeer
              \/ i \in DOMAIN switches /\ branch[i][x].peer = <<i, 0>>
              \/ i = 0 /\ \E m \in DOMAIN switches : branch[i][x].peer = <<m, 1>>
          BY <1>1 DEF Peers
        <5> QED
          BY <1>1, <4>2, <5>1, <5>2 DEF NoPeer
      <4> QED
        BY <4>1, <4>2
    <3> QED
      BY <3>1, <3>2
  <2>2. ASSUME NEW x \in DOMAIN branch'[i], x \notin DOMAIN branch[i]
        PROVE  /\ i \in G /\ x = Len(branch[i]) + 1
               /\ branch'[i][x].peer = NoPeer \/ branch'[i][x].peer = <<n, IF i = 0 THEN 1 ELSE 0>>
    <3>1. i \in G /\ x = Len(branch[i]) + 1
      BY <1>1, <2>2, GrownAt
    <3>2. branch'[i][Len(branch[i]) + 1] = New(i, n, R)
      BY <1>1, <3>1, GrownNew
    <3>3. New(i, n, R).peer \in {NoPeer, <<n, IF i = 0 THEN 1 ELSE 0>>}
      BY DEF New
    <3> QED
      BY <3>1, <3>2, <3>3
  <2>3. CASE b \in DOMAIN branch[i] /\ c \in DOMAIN branch[i]
    BY <1>1, <1>4, <2>1, <2>3 DEF Peers
  <2>4. CASE b \in DOMAIN branch[i] /\ c \notin DOMAIN branch[i]
    BY <1>4, <2>1, <2>2, <2>4
  <2>5. CASE b \notin DOMAIN branch[i] /\ c \in DOMAIN branch[i]
    BY <1>4, <2>1, <2>2, <2>5
  <2>6. CASE b \notin DOMAIN branch[i] /\ c \notin DOMAIN branch[i]
    BY <2>2, <2>6
  <2> QED
    BY <2>3, <2>4, <2>5, <2>6
<1>5. ASSUME NEW i \in Inputs
      PROVE  /\ i # 0 => Len(branch'[i]) <= 1
             /\ i > Len(switches') => branch'[i] = <<>>
             /\ state'[i] = "Invalid" => branch'[i] = <<>>
  <2>1. /\ i # 0 => Len(branch[i]) <= 1
        /\ i > Len(switches) => branch[i] = <<>>
        /\ state[i] = "Invalid" => branch[i] = <<>>
    BY <1>1 DEF Peers
  <2>2. i \notin G => branch'[i] = branch[i]
    BY DEF Grown
  <2>3. i \in G => Len(branch'[i]) = Len(branch[i]) + 1
    BY <1>1, GrownAt
  <2>4. i \in G /\ i # 0 => Len(branch[i]) = 0 /\ i <= Len(switches')
    BY <1>1
  <2> QED
    BY <1>1, <1>2, <2>1, <2>2, <2>3, <2>4
<1>6. Len(branch'[0]) <= Len(switches')
  <2>1. 0 \in Inputs
    BY PipelineAssumption DEF PipelineAssumption, Inputs
  <2>2. Len(branch[0]) <= Len(switches) /\ Len(branch[0]) \in Nat
    BY <1>1, <1>2, <2>1 DEF Peers
  <2>3. Len(branch'[0]) = IF 0 \in G THEN Len(branch[0]) + 1 ELSE Len(branch[0])
    BY <1>1, <2>1, GrownAt
  <2> QED
    BY <1>1, <2>2, <2>3
<1> QED
  BY <1>3, <1>4, <1>5, <1>6 DEF Peers

LEMMA InitBase == Init => Base
<1> SUFFICES ASSUME Init PROVE Base
  OBVIOUS
<1>1. branch \in [Inputs -> Seq(Branch)] /\ \A i \in Inputs : branch[i] = <<>>
  BY DEF Init
<1>2. GraphTypes
  BY <1>1 DEF Init, GraphTypes
<1>3. Stages
  BY PipelineAssumption DEF PipelineAssumption, Init, Stages
<1>4. 0 \in Inputs
  BY PipelineAssumption DEF PipelineAssumption, Inputs
<1>5. Peers
  BY <1>1, <1>4 DEF Peers, Init
<1> QED
  BY <1>2, <1>3, <1>5, InitIInv DEF Base

\* Steps that add no branch
LEMMA PeersStay ==
  ASSUME Base, UNCHANGED <<switches, branch>>,
         \A i \in Inputs : state'[i] = "Invalid" => state[i] = "Invalid" \/ branch[i] = <<>>
  PROVE  Peers'
BY DEF Base, Peers

\* Links that are refused are counted
LEMMA RefuseFacts ==
  ASSUME refused \in Nat, NEW R, IsFiniteSet(R), Refuse(R)
  PROVE  /\ refused' \in Nat /\ refused' = refused + Cardinality(R)
         /\ refused' = 0 => refused = 0 /\ R = {}
<1>1. Cardinality(R) \in Nat /\ (Cardinality(R) = 0 <=> R = {})
  BY FS_CardinalityType, FS_EmptySet
<1> QED
  BY <1>1 DEF Refuse

\* Every action keeps the types of the graph, the stages and the peers
LEMMA BaseStep ==
  ASSUME Base, Next, Len(Config) <= MaxStream
  PROVE  Base'
<1>0. /\ IInv /\ GraphTypes /\ Stages /\ Peers /\ IInv'
      /\ at \in 1..Len(Config) /\ at \in Inputs /\ at # 0 /\ 0 \in Inputs /\ Len(Config) \in Nat
      /\ at \in Nat
  <2>1. IInv'
    BY NextKeeps DEF Base
  <2> QED
    BY <2>1, PipelineAssumption DEF PipelineAssumption, Base, IInv, TypeOK, Inputs
<1>1. ASSUME CreateNosignal PROVE Base'
  <2>1. state' = [state EXCEPT ![0] = StateAfterInit("image", Has(SourceElements("image")))]
    BY <1>1 DEF CreateNosignal
  <2>2. StateAfterInit("image", Has(SourceElements("image"))) \in {"Invalid", "Ready"}
    BY DEF StateAfterInit
  <2>3. branch[0] = <<>>
    <3>1. Len(switches) = 0
      BY <1>0, <1>1 DEF CreateNosignal, IInv, Progress, Stages
    <3>2. Len(branch[0]) = 0 /\ branch[0] \in Seq(Branch)
      BY <1>0, <3>1 DEF Peers, GraphTypes
    <3> QED
      BY <3>2
  <2>4. GraphTypes'
    BY <1>0, <1>1, <2>1, <2>2 DEF CreateNosignal, GraphTypes
  <2>5. Peers'
    BY <1>0, <1>1, <2>1, <2>3, PeersStay DEF CreateNosignal, GraphTypes
  <2>6. Stages'
    BY <1>0, <1>1 DEF CreateNosignal, Stages
  <2> QED
    BY <1>0, <2>4, <2>5, <2>6 DEF Base
<1>2. ASSUME Create PROVE Base'
  <2> DEFINE s == StateAfterInit(Type(at), Has(SourceElements(Type(at))))
  <2>1. state' = [state EXCEPT ![at] = s]
    BY <1>2 DEF Create
  <2>2. s \in {"Invalid", "Ready"}
    BY DEF StateAfterInit
  <2> HIDE DEF s
  <2>3. branch[at] = <<>>
    BY <1>0, <1>2 DEF Create, IInv, Progress, Peers
  <2>4. fed' \in SUBSET Inputs
    BY <1>0, <1>2 DEF Create, GraphTypes
  <2>5. GraphTypes'
    BY <1>0, <1>2, <2>1, <2>2, <2>4 DEF Create, GraphTypes
  <2>6. Peers'
    BY <1>0, <1>2, <2>1, <2>3, PeersStay DEF Create, GraphTypes
  <2>7. Stages'
    BY <1>0, <1>2 DEF Create, Stages
  <2> QED
    BY <1>0, <2>5, <2>6, <2>7 DEF Base
<1>3. ASSUME RequestPad PROVE Base'
  <2> DEFINE G == {i \in {0, at} : Gives(i)}
  <2>1. PICK R : RequestPadAt(R) /\ Grown(G, at, R)
    BY <1>3, RequestGrows
  <2>2. Len(switches) = at - 1 /\ Len(switches') = at
    <3>1. Len(switches) = at - 1 /\ switches \in Seq(Switch)
      BY <1>0, <1>3, RequestGrows DEF IInv, TypeOK
    <3> QED
      BY <1>0, <2>1, <3>1 DEF RequestPadAt
  <2>3. GraphTypes'
    <3>1. refused' \in Nat
      <4>1. IsFiniteSet(R)
        <5>1. R \subseteq {<<at, "tee">>, <<at, "sink">>, <<0, "tee">>, <<0, "sink">>}
          BY <2>1 DEF RequestPadAt, Tried
        <5>2. IsFiniteSet({<<at, "tee">>, <<at, "sink">>, <<0, "tee">>, <<0, "sink">>})
          BY SmallFinite
        <5> QED
          BY <5>1, <5>2, FS_Subset
      <4>2. Refuse(R) /\ refused \in Nat
        BY <1>0, <2>1 DEF RequestPadAt, GraphTypes
      <4> QED
        BY <4>1, <4>2, RefuseFacts
    <3>2. G \in SUBSET Inputs
      BY <1>0
    <3>3. \A i \in Inputs : branch'[i] \in Seq(Branch)
      BY <1>0, <2>1, <3>2, GrownAt
    <3>4. branch' = [i \in Inputs |-> branch'[i]]
      BY <2>1 DEF Grown
    <3> QED
      BY <1>0, <2>1, <3>1, <3>3, <3>4 DEF GraphTypes, RequestPadAt
  <2>4. Peers'
    <3>1. switches' \in Seq(Switch) /\ at \in DOMAIN switches'
      BY <1>0, <2>2 DEF IInv, TypeOK
    <3>2. branch[at] = <<>>
      BY <1>0, <2>2 DEF Peers
    <3>3. \A i \in G : i # 0 => i = at /\ branch[i] = <<>>
      BY <3>2
    <3>4. \A i \in Inputs : state'[i] = "Invalid" => state[i] = "Invalid" /\ i \notin G
      BY <2>1 DEF RequestPadAt, Gives
    <3>5. G \in SUBSET Inputs /\ at = Len(switches) + 1 /\ Len(switches') >= Len(switches)
      BY <1>0, <2>2
    <3> HIDE DEF G
    <3> QED
      BY <1>0, <2>1, <3>1, <3>3, <3>4, <3>5, PeersGrow
  <2>5. Stages'
    BY <1>0, <1>3, <2>1, <2>2 DEF RequestPad, RequestPadAt, Stages
  <2> QED
    BY <1>0, <2>3, <2>4, <2>5 DEF Base
<1>4. ASSUME RequestNoPad PROVE Base'
  <2>1. GraphTypes' /\ Stages'
    BY <1>0, <1>4 DEF RequestNoPad, graphVars, GraphTypes, Stages
  <2>2. Peers'
    BY <1>4, PeersStay DEF RequestNoPad, graphVars
  <2> QED
    BY <1>0, <2>1, <2>2 DEF Base
<1>5. ASSUME Output PROVE Base'
  <2>1. refused' \in Nat
    <3>1. IsFiniteSet({"output"})
      BY SmallFinite
    <3>2. refused' = refused \/ Refuse({"output"})
      BY <1>5 DEF Output
    <3> QED
      BY <1>0, <3>1, <3>2, RefuseFacts DEF GraphTypes
  <2>2. GraphTypes' /\ Stages'
    BY <1>0, <1>5, <2>1 DEF Output, graphVars, GraphTypes, Stages
  <2>3. Peers'
    BY <1>5, PeersStay DEF Output, graphVars
  <2> QED
    BY <1>0, <2>2, <2>3 DEF Base
<1>6. ASSUME OutputOfBrokenMixer PROVE Base'
  <2>1. GraphTypes' /\ Stages'
    BY <1>0, <1>6 DEF OutputOfBrokenMixer, graphVars, GraphTypes, Stages
  <2>2. Peers'
    BY <1>6, PeersStay DEF OutputOfBrokenMixer, graphVars
  <2> QED
    BY <1>0, <2>1, <2>2 DEF Base
<1>7. ASSUME ConnectStream PROVE Base'
  <2>1. PICK R \in SUBSET {"mix", "ghost"} : Refuse(R)
    BY <1>7 DEF ConnectStream
  <2>2. refused' \in Nat
    <3>1. IsFiniteSet(R)
      <4>1. IsFiniteSet({"mix", "ghost"})
        BY SmallFinite
      <4> QED
        BY <4>1, FS_Subset
    <3> QED
      BY <1>0, <2>1, <3>1, RefuseFacts DEF GraphTypes
  <2>3. GraphTypes'
    BY <1>0, <1>7, <2>2 DEF ConnectStream, GraphTypes
  <2>4. Stages'
    <3>1. pc' \in {"connect", "play"} /\ Len(switches') = Len(Config)
      BY <1>0, <1>7 DEF ConnectStream, NextInput, IInv, Progress
    <3> QED
      BY <3>1 DEF Stages
  <2>5. Peers'
    BY <1>7, PeersStay DEF ConnectStream
  <2> QED
    BY <1>0, <2>3, <2>4, <2>5 DEF Base
<1>8. ASSUME ConnectNothing PROVE Base'
  <2>1. refused' \in Nat
    <3>1. IsFiniteSet({"branch"})
      BY SmallFinite
    <3>2. refused' = refused \/ Refuse({"branch"})
      BY <1>8 DEF ConnectNothing
    <3> QED
      BY <1>0, <3>1, <3>2, RefuseFacts DEF GraphTypes
  <2>2. GraphTypes'
    BY <1>0, <1>8, <2>1 DEF ConnectNothing, GraphTypes
  <2>3. Stages'
    <3>1. pc' \in {"connect", "play", "crashed"} /\ Len(switches') = Len(Config)
      BY <1>0, <1>8 DEF ConnectNothing, NextInput, IInv, Progress
    <3> QED
      BY <3>1 DEF Stages
  <2>4. Peers'
    BY <1>8, PeersStay DEF ConnectNothing
  <2> QED
    BY <1>0, <2>2, <2>3, <2>4 DEF Base
<1>9. ASSUME Play PROVE Base'
  <2>1. GraphTypes' /\ Stages'
    BY <1>0, <1>9 DEF Play, graphVars, GraphTypes, Stages
  <2>2. Peers'
    BY <1>9, PeersStay DEF Play, graphVars
  <2> QED
    BY <1>0, <2>1, <2>2 DEF Base
<1>10. ASSUME NEW i \in Inputs, PadAdded(i) PROVE Base'
  <2>1. PICK R \in SUBSET {<<i, "source">>, <<i, "tee">>, <<i, "sink">>} :
          /\ Refuse(R)
          /\ fed' = IF <<i, "source">> \in R THEN fed ELSE fed \cup {i}
          /\ Grown({i}, i, R)
          /\ switches' = IF <<i, "sink">> \in R THEN switches
                         ELSE [switches EXCEPT ![i].link = TRUE, ![i].active = 0]
    BY <1>10, PadAddedGrows
  <2>2. i \in Nat /\ i # 0 /\ i \in DOMAIN switches
    BY <1>10, PadAddedGrows
  <2>3. state[i] = "Invalid" /\ state' = [state EXCEPT ![i] = "Ready"]
        /\ UNCHANGED <<pc, at, mixer>> /\ pc = "playing"
    BY <1>10 DEF PadAdded
  <2>4. switches \in Seq(Switch) /\ switches' \in Seq(Switch) /\ Len(switches') = Len(switches)
    <3>1. switches \in Seq(Switch) /\ switches' \in Seq(Switch)
      BY <1>0 DEF IInv, TypeOK
    <3>2. DOMAIN switches' = DOMAIN switches
      BY <2>1
    <3> QED
      BY <3>1, <3>2
  <2>5. GraphTypes'
    <3>1. refused' \in Nat
      <4>1. IsFiniteSet(R)
        <5>1. IsFiniteSet({<<i, "source">>, <<i, "tee">>, <<i, "sink">>})
          BY SmallFinite
        <5> QED
          BY <5>1, FS_Subset
      <4> QED
        BY <1>0, <2>1, <4>1, RefuseFacts DEF GraphTypes
    <3>2. \A j \in Inputs : branch'[j] \in Seq(Branch)
      BY <1>0, <2>1, <2>2, GrownAt
    <3>3. branch' = [j \in Inputs |-> branch'[j]]
      BY <2>1 DEF Grown
    <3> QED
      BY <1>0, <2>1, <2>3, <3>1, <3>2, <3>3 DEF GraphTypes
  <2>6. Peers'
    <3>1. branch[i] = <<>>
      BY <1>0, <2>3 DEF Peers
    <3>2. \A j \in Inputs : state'[j] = "Invalid" => state[j] = "Invalid" /\ j \notin {i}
      BY <1>0, <2>3 DEF GraphTypes
    <3>3. i \in DOMAIN switches' /\ Len(switches') >= Len(switches)
      BY <2>2, <2>4
    <3>4. \A j \in {i} : j # 0 => j = i /\ branch[j] = <<>>
      BY <3>1
    <3> QED
      BY <2>1, <2>2, <2>4, <3>2, <3>3, <3>4, PeersGrow
  <2>7. Stages'
    BY <1>0, <2>3, <2>4 DEF Stages
  <2> QED
    BY <1>0, <2>5, <2>6, <2>7 DEF Base
<1> QED
  BY <1>1, <1>2, <1>3, <1>4, <1>5, <1>6, <1>7, <1>8, <1>9, <1>10 DEF Next

LEMMA BaseInvariant ==
  ASSUME Len(Config) <= MaxStream
  PROVE  Spec => []Base
<1>1. Base /\ [Next]_vars => Base'
  <2>1. ASSUME Base, UNCHANGED vars PROVE Base'
    BY <2>1 DEF vars, graphVars, Base, GraphTypes, Stages, Peers, IInv, TypeOK, Numbered,
                Progress, CrashesOnlyIf
  <2> QED
    BY <2>1, BaseStep
<1> QED
  BY <1>1, InitBase, PTL DEF Spec

-----------------------------------------------------------------------------
(***************************************************************************)
(* The mixer: where each stream goes                                       *)
(***************************************************************************)
Routes ==
  /\ \A g \in DOMAIN mixer.ghosts :
       /\ mixer.ghosts[g].peer # 0 =>
            /\ mixer.ghosts[g].peer \in DOMAIN switches
            /\ pc = "connect" => mixer.ghosts[g].peer < at
       /\ mixer.ghosts[g].behind # 0 =>
            /\ mixer.ghosts[g].behind \in DOMAIN mixer.pads
            /\ mixer.ghosts[g].peer # 0 =>
                 mixer.pads[mixer.ghosts[g].behind] = ThreeScreen(mixer.ghosts[g].peer - 1)
  /\ \A g, h \in DOMAIN mixer.ghosts :
       mixer.ghosts[g].peer = mixer.ghosts[h].peer /\ mixer.ghosts[g].peer # 0 => g = h
  /\ missing = {} /\ refused = 0 =>
       /\ Routed = DOMAIN mixer.ghosts
       /\ pc = "connect" => Len(mixer.ghosts) = at - 1
       /\ pc \in {"play", "playing"} => Len(mixer.ghosts) = Len(Config)

\* Linking the newest ghost pad is appending it linked
LEMMA LastReplaced ==
  ASSUME NEW S, NEW s \in Seq(S), NEW d \in S, NEW e \in S
  PROVE  [Append(s, d) EXCEPT ![Len(s) + 1] = e] = Append(s, e)
<1> DEFINE a == Append(s, d)
           f == [a EXCEPT ![Len(s) + 1] = e]
           g == Append(s, e)
<1>1. /\ a \in Seq(S) /\ Len(a) = Len(s) + 1
      /\ \A m \in 1..Len(s) : a[m] = s[m]
  BY AppendFacts
<1>2. /\ g \in Seq(S) /\ Len(g) = Len(s) + 1 /\ g[Len(s) + 1] = e
      /\ \A m \in 1..Len(s) : g[m] = s[m]
  BY AppendFacts
<1>3. Len(s) \in Nat
  OBVIOUS
<1> HIDE DEF a, g
<1>4. /\ f \in Seq(S) /\ Len(f) = Len(a)
      /\ \A m \in 1..Len(a) : f[m] = IF m = Len(s) + 1 THEN e ELSE a[m]
  BY <1>1, ExceptFacts
<1> HIDE DEF f
<1>5. \A m \in 1..Len(f) : f[m] = g[m]
  <2>1. TAKE m \in 1..Len(f)
  <2>2. m = Len(s) + 1 \/ m \in 1..Len(s)
    BY <1>1, <1>3, <1>4
  <2> QED
    BY <1>1, <1>2, <1>3, <1>4, <2>2
<1>6. f = g
  BY <1>1, <1>2, <1>4, <1>5
<1> QED
  BY <1>6 DEF a, f, g

\* What connecting a stream does to the mixer, when the links in R are refused
Joined(R) ==
  /\ mixer'.ghosts = Append(mixer.ghosts,
       [peer |-> IF "ghost" \in R THEN 0 ELSE at,
        behind |-> IF "mix" \in R THEN 0 ELSE Len(mixer.pads) + 1])
  /\ mixer'.pads = Append(mixer.pads, IF "mix" \in R THEN Unset ELSE ThreeScreen(at - 1))
  /\ mixer'.streams = IF "mix" \in R THEN mixer.streams ELSE mixer.streams \cup {at}
  /\ mixer'.cut = mixer.cut

\* The worker connects a pad that is not recorded, and joins it to the mixer
LEMMA StreamJoins ==
  ASSUME Base, ConnectStream, Len(Config) <= MaxStream
  PROVE  /\ Accepts(mixer, at)
         /\ \E R \in SUBSET {"mix", "ghost"} : Refuse(R) /\ Joined(R)
<1>1. ModulePad = at /\ Accepts(mixer, at)
  BY PadInHand DEF ConnectStream, Base
<1>2. PICK R \in SUBSET {"mix", "ghost"} :
        /\ Refuse(R)
        /\ mixer' = IF "ghost" \in R
                    THEN Connect(mixer, at, ThreeScreen(at - 1), "mix" \in R)
                    ELSE LinkGhost(Connect(mixer, at, ThreeScreen(at - 1), "mix" \in R), at)
  BY <1>1 DEF ConnectStream
<1>3. mixer \in [ghosts : Seq(Ghost), pads : Seq(Region4), streams : SUBSET Nat, cut : Nat]
  BY DEF Base, IInv, TypeOK
<1>4. at \in Nat
  BY PipelineAssumption DEF PipelineAssumption, Base, IInv, TypeOK
<1> DEFINE behind == IF "mix" \in R THEN 0 ELSE Len(mixer.pads) + 1
           new == [peer |-> 0, behind |-> behind]
           c == Connect(mixer, at, ThreeScreen(at - 1), "mix" \in R)
<1>5. /\ c = [mixer EXCEPT !.ghosts = Append(mixer.ghosts, new),
                           !.pads = Append(mixer.pads, IF "mix" \in R THEN Unset ELSE ThreeScreen(at - 1)),
                           !.streams = IF "mix" \in R THEN mixer.streams ELSE mixer.streams \cup {at}]
  BY DEF Connect
<1>6. /\ c.ghosts = Append(mixer.ghosts, new)
      /\ c.pads = Append(mixer.pads, IF "mix" \in R THEN Unset ELSE ThreeScreen(at - 1))
      /\ c.streams = IF "mix" \in R THEN mixer.streams ELSE mixer.streams \cup {at}
      /\ c.cut = mixer.cut
      /\ DOMAIN c = {"ghosts", "pads", "streams", "cut"}
  BY <1>3, <1>5
<1>7. mixer.ghosts \in Seq(Ghost) /\ new \in Ghost
  <2>1. behind \in Nat
    BY <1>3
  <2> QED
    BY <1>3, <2>1 DEF Ghost
<1> HIDE DEF c
<1>8. LinkGhost(c, at) = [c EXCEPT !.ghosts = [c.ghosts EXCEPT ![Len(c.ghosts)].peer = at]]
  BY <1>6 DEF LinkGhost
<1>9. [c.ghosts EXCEPT ![Len(c.ghosts)].peer = at]
        = Append(mixer.ghosts, [peer |-> at, behind |-> behind])
  <2> HIDE DEF new, behind
  <2>1. DEFINE s == mixer.ghosts
  <2>2. c.ghosts = Append(s, new) /\ s \in Seq(Ghost) /\ Len(c.ghosts) = Len(s) + 1
    BY <1>6, <1>7
  <2>3. c.ghosts[Len(s) + 1] = new
    BY <2>2
  <2>4. [new EXCEPT !.peer = at] = [peer |-> at, behind |-> behind]
    BY DEF new
  <2>5. [c.ghosts EXCEPT ![Len(c.ghosts)].peer = at] = [c.ghosts EXCEPT ![Len(s) + 1] = [new EXCEPT !.peer = at]]
    BY <2>2, <2>3
  <2> HIDE DEF s
  <2>6. [Append(s, new) EXCEPT ![Len(s) + 1] = [peer |-> at, behind |-> behind]]
          = Append(s, [peer |-> at, behind |-> behind])
    <3>1. [peer |-> at, behind |-> behind] \in Ghost
      BY <1>3, <1>4 DEF Ghost, behind
    <3> DEFINE last == [peer |-> at, behind |-> behind]
    <3>2. last \in Ghost /\ new \in Ghost /\ s \in Seq(Ghost)
      BY <1>7, <2>2, <3>1
    <3> HIDE DEF last
    <3>3. [Append(s, new) EXCEPT ![Len(s) + 1] = last] = Append(s, last)
      BY <3>2, LastReplaced
    <3> QED
      BY <3>3 DEF last
  <2> QED
    BY <2>2, <2>4, <2>5, <2>6 DEF s
<1>10. /\ LinkGhost(c, at).ghosts = Append(mixer.ghosts, [peer |-> at, behind |-> behind])
       /\ LinkGhost(c, at).pads = c.pads /\ LinkGhost(c, at).streams = c.streams
       /\ LinkGhost(c, at).cut = c.cut
  BY <1>6, <1>8, <1>9
<1>11. mixer' = IF "ghost" \in R THEN c ELSE LinkGhost(c, at)
  BY <1>2 DEF c
<1>12. Joined(R)
  <2>1. CASE "ghost" \in R
    BY <1>6, <1>11, <2>1 DEF Joined
  <2>2. CASE "ghost" \notin R
    BY <1>6, <1>10, <1>11, <2>2 DEF Joined
  <2> QED
    BY <2>1, <2>2
<1> QED
  BY <1>1, <1>2, <1>12

\* A mixer without streams, and steps that leave the streams alone
LEMMA RoutesEmpty ==
  ASSUME mixer' = NewMixer, pc' \notin {"play", "playing"}, pc' = "connect" => at' = 1
  PROVE  Routes'
<1>1. mixer'.ghosts = <<>> /\ DOMAIN mixer'.ghosts = {} /\ Len(mixer'.ghosts) = 0
  BY DEF NewMixer
<1>2. Routed' = {}
  BY <1>1 DEF Routed
<1> QED
  BY <1>1, <1>2 DEF Routes

\* Steps that leave the mixer alone
LEMMA RoutesStay ==
  ASSUME Base, Routes,
         mixer'.ghosts = mixer.ghosts, mixer'.pads = mixer.pads, DOMAIN switches' = DOMAIN switches,
         pc' = "connect" => pc = "connect" /\ at' = at + 1,
         missing' = {} /\ refused' = 0 =>
           /\ missing = {} /\ refused = 0 /\ pc' # "connect"
           /\ pc' \in {"play", "playing"} => pc \in {"play", "playing"}
  PROVE  Routes'
<1>1. ASSUME NEW g \in DOMAIN mixer.ghosts
      PROVE  mixer.ghosts[g].peer \in Nat /\ at \in Nat
  <2>1. mixer.ghosts \in Seq(Ghost)
    BY DEF Base, IInv, TypeOK
  <2>2. mixer.ghosts[g] \in Ghost
    BY <2>1
  <2>3. at \in Nat
    BY PipelineAssumption DEF PipelineAssumption, Base, IInv, TypeOK
  <2> QED
    BY <2>2, <2>3 DEF Ghost
<1>2. Routed' = Routed
  BY DEF Routed
<1>3. ASSUME NEW g \in DOMAIN mixer.ghosts, mixer.ghosts[g].peer # 0
      PROVE  /\ mixer.ghosts[g].peer \in DOMAIN switches
             /\ pc' = "connect" => mixer.ghosts[g].peer < at'
  BY <1>1, <1>3 DEF Routes
<1>4. ASSUME NEW g \in DOMAIN mixer.ghosts, mixer.ghosts[g].behind # 0
      PROVE  /\ mixer.ghosts[g].behind \in DOMAIN mixer.pads
             /\ mixer.ghosts[g].peer # 0 =>
                  mixer.pads[mixer.ghosts[g].behind] = ThreeScreen(mixer.ghosts[g].peer - 1)
  BY <1>4 DEF Routes
<1>5. \A g, h \in DOMAIN mixer.ghosts :
        mixer.ghosts[g].peer = mixer.ghosts[h].peer /\ mixer.ghosts[g].peer # 0 => g = h
  BY DEF Routes
<1>6. missing' = {} /\ refused' = 0 =>
        /\ Routed' = DOMAIN mixer.ghosts
        /\ pc' # "connect"
        /\ pc' \in {"play", "playing"} => Len(mixer.ghosts) = Len(Config)
  BY <1>2 DEF Routes
<1> QED
  BY <1>3, <1>4, <1>5, <1>6 DEF Routes

\* A stream that joins: its ghost pad is new, and leads to its own region
LEMMA RoutesJoin ==
  ASSUME Base, Routes, ConnectStream, Len(Config) <= MaxStream
  PROVE  Routes'
<1>1. PICK R \in SUBSET {"mix", "ghost"} : Refuse(R) /\ Joined(R)
  BY StreamJoins
<1>2. /\ at \in Nat /\ at # 0 /\ Len(Config) \in Nat /\ at <= Len(Config)
      /\ DOMAIN switches = 1..Len(Config) /\ switches' = switches
      /\ pc = "connect" /\ missing' = missing
      /\ pc' \in {"connect", "play"}
      /\ pc' = "connect" => at' = at + 1
      /\ pc' = "play" => at = Len(Config)
  BY PipelineAssumption
     DEF PipelineAssumption, Base, IInv, TypeOK, Progress, ConnectStream, NextInput
<1> DEFINE ghosts == mixer.ghosts
           regions == mixer.pads
           peer == IF "ghost" \in R THEN 0 ELSE at
           behind == IF "mix" \in R THEN 0 ELSE Len(regions) + 1
           new == [peer |-> peer, behind |-> behind]
           style == IF "mix" \in R THEN Unset ELSE ThreeScreen(at - 1)
<1>3. ghosts \in Seq(Ghost) /\ regions \in Seq(Region4) /\ Len(ghosts) \in Nat /\ Len(regions) \in Nat
  BY DEF Base, IInv, TypeOK
<1>4. mixer'.ghosts = Append(ghosts, new) /\ mixer'.pads = Append(regions, style)
  BY <1>1 DEF Joined
<1>5. /\ DOMAIN mixer'.ghosts = 1..Len(ghosts) + 1 /\ Len(mixer'.ghosts) = Len(ghosts) + 1
      /\ \A g \in DOMAIN ghosts : mixer'.ghosts[g] = ghosts[g]
      /\ mixer'.ghosts[Len(ghosts) + 1] = new
      /\ DOMAIN mixer'.pads = 1..Len(regions) + 1
      /\ \A p \in DOMAIN regions : mixer'.pads[p] = regions[p]
      /\ mixer'.pads[Len(regions) + 1] = style
      /\ DOMAIN ghosts = 1..Len(ghosts) /\ DOMAIN regions = 1..Len(regions)
  <2> HIDE DEF ghosts, regions, new, style
  <2> QED
    BY <1>3, <1>4
<1>6. new.peer = peer /\ new.behind = behind
  OBVIOUS
<1>7. ASSUME NEW g \in DOMAIN ghosts
      PROVE  /\ ghosts[g].peer \in Nat /\ ghosts[g].behind \in Nat
             /\ ghosts[g].peer # 0 => ghosts[g].peer \in DOMAIN switches /\ ghosts[g].peer < at
             /\ ghosts[g].behind # 0 =>
                  /\ ghosts[g].behind \in DOMAIN regions
                  /\ ghosts[g].peer # 0 => regions[ghosts[g].behind] = ThreeScreen(ghosts[g].peer - 1)
  <2>1. ghosts[g] \in Ghost
    <3> HIDE DEF ghosts
    <3> QED
      BY <1>3
  <2>2. ghosts[g].peer \in Nat /\ ghosts[g].behind \in Nat
    BY <2>1 DEF Ghost
  <2>3. /\ ghosts[g].peer # 0 => ghosts[g].peer \in DOMAIN switches /\ ghosts[g].peer < at
        /\ ghosts[g].behind # 0 =>
             /\ ghosts[g].behind \in DOMAIN regions
             /\ ghosts[g].peer # 0 => regions[ghosts[g].behind] = ThreeScreen(ghosts[g].peer - 1)
    BY <1>2 DEF Routes
  <2> QED
    BY <2>2, <2>3
<1> HIDE DEF ghosts, regions, peer, behind, new, style
<1>8. ASSUME NEW g \in DOMAIN mixer'.ghosts
      PROVE  /\ mixer'.ghosts[g].peer # 0 =>
                  /\ mixer'.ghosts[g].peer \in DOMAIN switches'
                  /\ pc' = "connect" => mixer'.ghosts[g].peer < at'
             /\ mixer'.ghosts[g].behind # 0 =>
                  /\ mixer'.ghosts[g].behind \in DOMAIN mixer'.pads
                  /\ mixer'.ghosts[g].peer # 0 =>
                       mixer'.pads[mixer'.ghosts[g].behind] = ThreeScreen(mixer'.ghosts[g].peer - 1)
  <2>1. CASE g \in DOMAIN ghosts
    <3>1. mixer'.ghosts[g] = ghosts[g]
      BY <1>5, <2>1
    <3>2. ghosts[g].behind \in DOMAIN regions =>
            /\ ghosts[g].behind \in DOMAIN mixer'.pads
            /\ mixer'.pads[ghosts[g].behind] = regions[ghosts[g].behind]
      BY <1>3, <1>5
    <3> QED
      BY <1>2, <1>7, <2>1, <3>1, <3>2
  <2>2. CASE g = Len(ghosts) + 1
    <3>1. mixer'.ghosts[g].peer = peer /\ mixer'.ghosts[g].behind = behind
      BY <1>5, <1>6, <2>2
    <3>2. peer # 0 => peer = at
      BY DEF peer
    <3>3. behind # 0 => /\ behind \in DOMAIN mixer'.pads
                        /\ mixer'.pads[behind] = ThreeScreen(at - 1)
      BY <1>3, <1>5 DEF behind, style
    <3> QED
      BY <1>2, <3>1, <3>2, <3>3
  <2>3. g \in DOMAIN ghosts \/ g = Len(ghosts) + 1
    BY <1>3, <1>5
  <2> QED
    BY <2>1, <2>2, <2>3
<1>9. ASSUME NEW g \in DOMAIN mixer'.ghosts, NEW h \in DOMAIN mixer'.ghosts,
             mixer'.ghosts[g].peer = mixer'.ghosts[h].peer, mixer'.ghosts[g].peer # 0
      PROVE  g = h
  <2>1. \A x \in DOMAIN mixer'.ghosts : x \in DOMAIN ghosts \/ x = Len(ghosts) + 1
    BY <1>3, <1>5
  <2>2. \A x \in DOMAIN ghosts : ghosts[x].peer # peer \/ peer = 0
    BY <1>2, <1>7 DEF peer
  <2>3. CASE g \in DOMAIN ghosts /\ h \in DOMAIN ghosts
    BY <1>5, <1>9, <2>3 DEF Routes, ghosts
  <2>4. CASE g \in DOMAIN ghosts /\ h = Len(ghosts) + 1
    BY <1>5, <1>6, <1>9, <2>2, <2>4
  <2>5. CASE g = Len(ghosts) + 1 /\ h \in DOMAIN ghosts
    BY <1>5, <1>6, <1>9, <2>2, <2>5
  <2> QED
    BY <2>1, <2>3, <2>4, <2>5
<1>10. ASSUME missing' = {}, refused' = 0
       PROVE  /\ Routed' = DOMAIN mixer'.ghosts
              /\ pc' = "connect" => Len(mixer'.ghosts) = at' - 1
              /\ pc' \in {"play", "playing"} => Len(mixer'.ghosts) = Len(Config)
  <2>1. refused = 0 /\ R = {}
    <3>1. IsFiniteSet(R)
      <4>1. IsFiniteSet({"mix", "ghost"})
        BY SmallFinite
      <4> QED
        BY <4>1, FS_Subset
    <3> QED
      BY <1>1, <1>10, <3>1, RefuseFacts DEF Base, GraphTypes
  <2>2. Routed = DOMAIN ghosts /\ Len(ghosts) = at - 1
    BY <1>2, <1>10, <2>1 DEF Routes, ghosts
  <2>3. \A g \in DOMAIN ghosts : ghosts[g].peer # 0 /\ ghosts[g].behind # 0
    BY <2>2 DEF Routed, ghosts
  <2>4. peer # 0 /\ behind # 0
    BY <1>2, <1>3, <2>1 DEF peer, behind
  <2>5. \A g \in DOMAIN mixer'.ghosts : mixer'.ghosts[g].peer # 0 /\ mixer'.ghosts[g].behind # 0
    <3>1. \A x \in DOMAIN mixer'.ghosts : x \in DOMAIN ghosts \/ x = Len(ghosts) + 1
      BY <1>3, <1>5
    <3> QED
      BY <1>5, <1>6, <2>3, <2>4, <3>1
  <2> QED
    BY <1>2, <1>5, <2>2, <2>5 DEF Routed
<1> QED
  BY <1>8, <1>9, <1>10 DEF Routes

\* Every action keeps the routes
LEMMA RoutesStep ==
  ASSUME Base, Base', Routes, Next, Len(Config) <= MaxStream
  PROVE  Routes'
<1>1. pc \in {"nosignal", "create", "request", "output"} => mixer = NewMixer
  BY DEF Base, Stages
<1>2. ASSUME CreateNosignal \/ Create \/ RequestNoPad \/ Output \/ OutputOfBrokenMixer
      PROVE  Routes'
  <2>1. pc \in {"nosignal", "create", "request", "output"} /\ mixer' = mixer
    BY <1>2 DEF CreateNosignal, Create, RequestNoPad, Output, OutputOfBrokenMixer, graphVars
  <2>2. pc' \notin {"play", "playing"} /\ (pc' = "connect" => at' = 1)
    BY <1>2 DEF CreateNosignal, Create, RequestNoPad, Output, OutputOfBrokenMixer
  <2> QED
    BY <1>1, <2>1, <2>2, RoutesEmpty
<1>3. ASSUME RequestPad PROVE Routes'
  <2>1. PICK R : RequestPadAt(R)
    BY <1>3 DEF RequestPad
  <2>2. mixer' = NewMixer
    BY <1>1, <1>3, <2>1 DEF RequestPad, RequestPadAt
  <2>3. pc' \notin {"connect", "play", "playing"}
    BY <2>1 DEF RequestPadAt
  <2> QED
    BY <2>2, <2>3, RoutesEmpty
<1>4. ASSUME ConnectStream PROVE Routes'
  BY <1>4, RoutesJoin
<1>5. ASSUME ConnectNothing PROVE Routes'
  <2>1. Accepts(mixer, ModulePad) /\ pc = "connect" /\ IInv
    BY <1>5, PadInHand DEF ConnectNothing, Base
  <2>2. \/ mixer' = mixer /\ refused' = refused /\ missing # {}
        \/ mixer' = ConnectCut(mixer) /\ Refuse({"branch"})
    <3>1. ~Has(MixerBranch(usage)) => missing # {}
      BY Missing
    <3> QED
      BY <1>5, <2>1, <3>1 DEF ConnectNothing
  <2>3. refused' = 0 => missing # {}
    <3>1. IsFiniteSet({"branch"})
      BY SmallFinite
    <3> QED
      BY <2>2, <3>1, RefuseFacts DEF Base, GraphTypes
  <2>4. mixer'.ghosts = mixer.ghosts /\ mixer'.pads = mixer.pads
    BY <2>1, <2>2 DEF ConnectCut, IInv, TypeOK
  <2>5. pc' = "connect" => at' = at + 1
    BY <1>5, <2>1, NextInputFacts DEF ConnectNothing
  <2> QED
    BY <1>5, <2>1, <2>3, <2>4, <2>5, RoutesStay DEF ConnectNothing
<1>6. ASSUME Play PROVE Routes'
  BY <1>6, RoutesStay DEF Play, graphVars
<1>7. ASSUME NEW i \in Inputs, PadAdded(i) PROVE Routes'
  <2>1. PICK R \in SUBSET {<<i, "source">>, <<i, "tee">>, <<i, "sink">>} :
          /\ Refuse(R)
          /\ switches' = IF <<i, "sink">> \in R THEN switches
                         ELSE [switches EXCEPT ![i].link = TRUE, ![i].active = 0]
    BY <1>7, PadAddedGrows
  <2>2. DOMAIN switches' = DOMAIN switches
    BY <2>1
  <2>3. refused' = 0 => refused = 0
    <3>1. IsFiniteSet(R)
      <4>1. IsFiniteSet({<<i, "source">>, <<i, "tee">>, <<i, "sink">>})
        BY SmallFinite
      <4> QED
        BY <4>1, FS_Subset
    <3> QED
      BY <2>1, <3>1, RefuseFacts DEF Base, GraphTypes
  <2>4. UNCHANGED <<missing, pc, at, mixer>> /\ pc = "playing"
    BY <1>7 DEF PadAdded
  <2> QED
    BY <2>2, <2>3, <2>4, RoutesStay
<1> QED
  BY <1>2, <1>3, <1>4, <1>5, <1>6, <1>7 DEF Next

\* The three regions of the layout
LEMMA ThreeScreenFacts ==
  /\ \A n \in 1..3 : OnScreen(ThreeScreen(n - 1))
  /\ \A m, n \in 1..3 : m # n => Disjoint(ThreeScreen(m - 1), ThreeScreen(n - 1))
<1>1. 1..3 = {1, 2, 3}
  OBVIOUS
<1>2. /\ ThreeScreen(0) = [x |-> 0, y |-> 180, w |-> 1280, h |-> 720]
      /\ ThreeScreen(1) = [x |-> 1280, y |-> 180, w |-> 640, h |-> 360]
      /\ ThreeScreen(2) = [x |-> 1280, y |-> 540, w |-> 640, h |-> 360]
  BY DEF ThreeScreen, ScreenWidth, ScreenHeight
<1>3. 1 - 1 = 0 /\ 2 - 1 = 1 /\ 3 - 1 = 2
  OBVIOUS
<1>4. \A n \in 1..3 : OnScreen(ThreeScreen(n - 1))
  BY <1>1, <1>2, <1>3 DEF OnScreen, ScreenWidth, ScreenHeight
<1>5. /\ Disjoint(ThreeScreen(0), ThreeScreen(1)) /\ Disjoint(ThreeScreen(1), ThreeScreen(0))
      /\ Disjoint(ThreeScreen(0), ThreeScreen(2)) /\ Disjoint(ThreeScreen(2), ThreeScreen(0))
      /\ Disjoint(ThreeScreen(1), ThreeScreen(2)) /\ Disjoint(ThreeScreen(2), ThreeScreen(1))
  BY <1>2 DEF Disjoint
<1> QED
  BY <1>1, <1>3, <1>4, <1>5

LEMMA InitRoutes == Init => Routes
<1> SUFFICES ASSUME Init PROVE Routes
  OBVIOUS
<1>1. mixer.ghosts = <<>> /\ DOMAIN mixer.ghosts = {} /\ pc = "nosignal"
  BY DEF Init, NewMixer
<1>2. Routed = {}
  BY <1>1 DEF Routed
<1> QED
  BY <1>1, <1>2 DEF Routes

(***************************************************************************)
(* Each region shows the input the layout gives it, or the image, for any  *)
(* list of at most three inputs of any types, the most the layout of three *)
(* screens has regions for: whatever plugins are missing, however many     *)
(* links are refused, and whenever decoders find their pads.               *)
(***************************************************************************)
THEOREM RegionShowsItsInputHolds ==
  ASSUME Len(Config) <= 3
  PROVE  Spec => []RegionShowsItsInput
<1>0. Len(Config) <= MaxStream /\ Len(Config) \in Nat
  BY PipelineAssumption DEF PipelineAssumption, MaxStream
<1>1. Base /\ Base' /\ Routes /\ [Next]_vars => Routes'
  <2>1. ASSUME Routes, UNCHANGED vars PROVE Routes'
    BY <2>1 DEF vars, graphVars, Routes, Routed
  <2> QED
    BY <1>0, <2>1, RoutesStep
<1>2. ASSUME Base, Routes PROVE RegionShowsItsInput
  <2>1. /\ Len(switches) <= Len(Config) /\ Len(switches) \in Nat /\ Len(pads) = Len(switches)
        /\ DOMAIN switches = 1..Len(switches)
        /\ \A n \in 1..Len(switches) : switches[n].main = n
        /\ \A n \in 1..Len(switches) : pads[n] = <<"queue", n>>
    BY <1>2 DEF Base, Stages, IInv, TypeOK, Numbered
  <2>2. ASSUME NEW g \in Routed
        PROVE  /\ mixer.ghosts[g].peer \in 1..3 /\ mixer.ghosts[g].peer \in DOMAIN switches
               /\ Region(g) = ThreeScreen(mixer.ghosts[g].peer - 1)
               /\ g \in DOMAIN mixer.ghosts
    <3>1. /\ g \in DOMAIN mixer.ghosts
          /\ mixer.ghosts[g].peer # 0 /\ mixer.ghosts[g].behind # 0
      BY DEF Routed
    <3>2. /\ mixer.ghosts[g].peer \in DOMAIN switches
          /\ Region(g) = ThreeScreen(mixer.ghosts[g].peer - 1)
      BY <1>2, <3>1 DEF Routes, Region
    <3> QED
      BY <1>0, <2>1, <3>1, <3>2
  <2>3. ASSUME NEW g \in Routed, NEW n, n = pads[mixer.ghosts[g].peer][2]
        PROVE  /\ Region(g) = ThreeScreen(switches[n].main - 1)
               /\ OnScreen(Region(g))
               /\ \A i \in Inputs : \A b \in DOMAIN branch[i] :
                    branch[i][b].peer[1] = n
                      => i = IF branch[i][b].peer[2] = 0 THEN switches[n].main ELSE 0
    <3>1. n = mixer.ghosts[g].peer /\ switches[n].main = n /\ n \in 1..3
      BY <2>1, <2>2, <2>3
    <3>2. ASSUME NEW i \in Inputs, NEW b \in DOMAIN branch[i], branch[i][b].peer[1] = n
          PROVE  i = IF branch[i][b].peer[2] = 0 THEN n ELSE 0
      <4>1. \/ branch[i][b].peer = NoPeer
            \/ branch[i][b].peer = <<i, 0>>
            \/ i = 0 /\ \E m \in DOMAIN switches : branch[i][b].peer = <<m, 1>>
        BY <1>2 DEF Base, Peers
      <4> QED
        BY <3>1, <3>2, <4>1 DEF NoPeer
    <3> QED
      BY <2>2, <3>1, <3>2, ThreeScreenFacts
  <2>4. ASSUME NEW g \in Routed, NEW h \in Routed, g # h
        PROVE  Disjoint(Region(g), Region(h))
    <3>1. mixer.ghosts[g].peer # mixer.ghosts[h].peer
      BY <1>2, <2>2, <2>4 DEF Routes
    <3> QED
      BY <2>2, <3>1, ThreeScreenFacts
  <2>5. ASSUME pc = "playing", missing = {}, refused = 0
        PROVE  Cardinality(Routed) = Len(Config)
    <3>1. Routed = DOMAIN mixer.ghosts /\ Len(mixer.ghosts) = Len(Config)
      BY <1>2, <2>5 DEF Routes
    <3>2. DOMAIN mixer.ghosts = 1..Len(mixer.ghosts)
      BY <1>2 DEF Base, IInv, TypeOK
    <3>3. Cardinality(1..Len(Config)) = Len(Config)
      <4>1. 1 \in Int /\ Len(Config) \in Int
        BY <1>0
      <4>2. Cardinality(1..Len(Config)) = IF 1 > Len(Config) THEN 0 ELSE Len(Config) - 1 + 1
        BY <4>1, FS_Interval, Zenon
      <4> QED
        BY <1>0, <4>2
    <3> QED
      BY <3>1, <3>2, <3>3
  <2> QED
    BY <2>3, <2>4, <2>5 DEF RegionShowsItsInput
<1> QED
  BY <1>0, <1>1, <1>2, InitBase, InitRoutes, BaseInvariant, PTL DEF Spec

-----------------------------------------------------------------------------
(***************************************************************************)
(* The selectors: what each is set to                                      *)
(***************************************************************************)
Selected ==
  \A n \in DOMAIN switches :
    /\ switches[n].link <=> On(n, n, 0) # {}
    /\ switches[n].active = 0 => switches[n].link
    /\ switches[n].active = 1 => On(0, n, 1) # {}

Delivers ==
  /\ pc = "nosignal" => \A i \in Inputs : state[i] = "Invalid"
  /\ refused = 0 => \A i \in Inputs :
       /\ state[i] = "Ready" => i \in fed
       /\ \A b \in DOMAIN branch[i] : branch[i][b].tee
  /\ ImageElements \cap missing = {} =>
       /\ pc # "nosignal" => state[0] = "Ready"
       /\ refused = 0 => \A n \in DOMAIN switches : switches[n].active # 2

\* What the branches of an input on a sink become
LEMMA NewFacts ==
  ASSUME NEW i, NEW n, NEW R
  PROVE  /\ New(i, n, R).tee <=> <<i, "tee">> \notin R
         /\ <<i, "sink">> \in R => New(i, n, R).peer = NoPeer
         /\ <<i, "sink">> \notin R => New(i, n, R).peer = <<n, IF i = 0 THEN 1 ELSE 0>>
         /\ R = {} => New(i, n, R).tee = TRUE
BY DEF New

\* The branches on a sink of a selector, when some inputs get one
LEMMA OnMore ==
  ASSUME GraphTypes, NEW G \in SUBSET Inputs, NEW n \in Nat, NEW R, Grown(G, n, R), NEW i \in Inputs,
         NEW m \in Nat, NEW t \in Nat
  PROVE  On(i, m, t) \subseteq On(i, m, t)'
<1>1. \A b \in DOMAIN branch[i] : b \in DOMAIN branch'[i] /\ branch'[i][b] = branch[i][b]
  BY GrownAt
<1> QED
  BY <1>1 DEF On

LEMMA OnSame ==
  ASSUME NEW G \in SUBSET Inputs, NEW n \in Nat, NEW R, Grown(G, n, R), NEW i \in Inputs, i \notin G,
         NEW m \in Nat, NEW t \in Nat
  PROVE  On(i, m, t)' = On(i, m, t)
<1>1. branch'[i] = branch[i]
  BY DEF Grown
<1> QED
  BY <1>1 DEF On

LEMMA OnNew ==
  ASSUME GraphTypes, NEW G \in SUBSET Inputs, NEW n \in Nat, NEW R, Grown(G, n, R), NEW i \in G,
         <<i, "sink">> \notin R
  PROVE  On(i, n, IF i = 0 THEN 1 ELSE 0)' # {}
<1>1. Len(branch[i]) + 1 \in DOMAIN branch'[i]
  BY GrownAt
<1>2. branch'[i][Len(branch[i]) + 1] = New(i, n, R)
  BY GrownNew
<1>3. New(i, n, R).peer = <<n, IF i = 0 THEN 1 ELSE 0>>
  BY NewFacts
<1> QED
  BY <1>1, <1>2, <1>3 DEF On

LEMMA OnNone ==
  ASSUME GraphTypes, NEW G \in SUBSET Inputs, NEW n \in Nat, NEW R, Grown(G, n, R), NEW i \in Inputs,
         branch[i] = <<>>, <<i, "sink">> \in R, NEW m \in Nat, m # 0, NEW t \in Nat
  PROVE  On(i, m, t)' = {}
<1>1. ASSUME NEW b \in DOMAIN branch'[i] PROVE branch'[i][b].peer # <<m, t>>
  <2>1. i \in G /\ b = Len(branch[i]) + 1
    <3>1. b \notin DOMAIN branch[i]
      OBVIOUS
    <3> QED
      BY <1>1, <3>1, GrownAt
  <2>2. branch'[i][b] = New(i, n, R)
    BY <2>1, GrownNew
  <2>3. New(i, n, R).peer = NoPeer
    BY DEF New
  <2>4. NoPeer # <<m, t>>
    BY DEF NoPeer
  <2> QED
    BY <2>2, <2>3, <2>4
<1> QED
  BY <1>1 DEF On

\* The new switch, and the image as its fallback
LEMMA RequestSelects ==
  ASSUME Base, Selected, Delivers, RequestPad
  PROVE  Selected' /\ Delivers'
<1>0. PICK k : k = at
  OBVIOUS
<1>1. /\ k \in Nat /\ k # 0 /\ k \in Inputs /\ 0 \in Inputs /\ Len(switches) = k - 1
      /\ Inputs \subseteq Nat
  BY <1>0, RequestGrows DEF Inputs
<1> DEFINE G == {i \in {0, k} : Gives(i)}
<1>2. PICK R : RequestPadAt(R) /\ Grown(G, k, R)
  BY <1>0, RequestGrows
<1> DEFINE main == Gives(k) /\ <<k, "sink">> \notin R
           image == Gives(0) /\ <<0, "sink">> \notin R
           new == [main |-> k, link |-> main, active |-> FirstShown(main, image)]
<1>3. /\ switches' = Append(switches, new)
      /\ UNCHANGED <<missing, state, fed>> /\ Refuse(R)
      /\ R \subseteq Tried(k) \cup Tried(0)
  BY <1>0, <1>2 DEF RequestPadAt
<1>4. /\ switches \in Seq(Switch) /\ DOMAIN switches = 1..k - 1
      /\ GraphTypes /\ Peers
  BY <1>1 DEF Base, IInv, TypeOK
<1>5. new.link = main /\ new.active = FirstShown(main, image) /\ main \in BOOLEAN /\ image \in BOOLEAN
  OBVIOUS
<1>6. /\ DOMAIN switches' = 1..k /\ switches'[k] = new
      /\ \A n \in 1..k - 1 : switches'[n] = switches[n]
  <2> HIDE DEF new
  <2>1. Append(switches, new)[Len(switches) + 1] = new
    BY <1>4
  <2> QED
    BY <1>1, <1>3, <1>4, <2>1
<1>7. G \in SUBSET Inputs /\ (k \in G <=> Gives(k)) /\ (0 \in G <=> Gives(0))
      /\ \A i \in G : i = 0 \/ i = k
  BY <1>1
<1> HIDE DEF G, new
<1>8. branch[k] = <<>>
  BY <1>1, <1>4 DEF Peers
<1>9. Selected'
  <2>1. ASSUME NEW n \in 1..k - 1
        PROVE  /\ switches'[n].link <=> On(n, n, 0)' # {}
               /\ switches'[n].active = 0 => switches'[n].link
               /\ switches'[n].active = 1 => On(0, n, 1)' # {}
    <3>1. n \in Nat /\ n \in Inputs /\ n \notin G
      BY <1>1, <1>7 DEF Inputs
    <3>2. On(n, n, 0)' = On(n, n, 0) /\ On(0, n, 1) \subseteq On(0, n, 1)'
      <4>1. On(n, n, 0)' = On(n, n, 0)
        BY <1>1, <1>2, <1>7, <3>1, OnSame
      <4>2. On(0, n, 1) \subseteq On(0, n, 1)'
        BY <1>1, <1>2, <1>4, <1>7, <3>1, OnMore
      <4> QED
        BY <4>1, <4>2
    <3>3. /\ switches[n].link <=> On(n, n, 0) # {}
          /\ switches[n].active = 0 => switches[n].link
          /\ switches[n].active = 1 => On(0, n, 1) # {}
      BY <1>4 DEF Selected
    <3> QED
      BY <1>6, <3>2, <3>3
  <2>2. main <=> On(k, k, 0)' # {}
    <3>1. CASE main
      <4>1. k \in G /\ <<k, "sink">> \notin R
        BY <1>7, <3>1
      <4>2. On(k, k, IF k = 0 THEN 1 ELSE 0)' # {}
        BY <1>1, <1>2, <1>4, <1>7, <4>1, OnNew
      <4>3. (IF k = 0 THEN 1 ELSE 0) = 0
        BY <1>1
      <4> QED
        BY <3>1, <4>2, <4>3
    <3>2. CASE ~main
      <4>1. CASE k \notin G
        <5>1. On(k, k, 0)' = On(k, k, 0)
          BY <1>1, <1>2, <1>7, <4>1, OnSame
        <5>2. On(k, k, 0) = {}
          BY <1>8 DEF On
        <5> QED
          BY <3>2, <5>1, <5>2
      <4>2. CASE k \in G
        <5>1. <<k, "sink">> \in R
          BY <1>7, <3>2, <4>2
        <5>2. On(k, k, 0)' = {}
          BY <1>1, <1>2, <1>4, <1>7, <1>8, <5>1, OnNone
        <5> QED
          BY <3>2, <5>2
      <4> QED
        BY <4>1, <4>2
    <3> QED
      BY <3>1, <3>2
  <2>3. image => On(0, k, 1)' # {}
    <3>1. ASSUME image PROVE On(0, k, 1)' # {}
      <4>1. 0 \in G /\ <<0, "sink">> \notin R
        BY <1>7, <3>1
      <4>2. On(0, k, IF 0 = 0 THEN 1 ELSE 0)' # {}
        BY <1>1, <1>2, <1>4, <1>7, <4>1, OnNew
      <4> QED
        BY <4>2
    <3> QED
      BY <3>1
  <2>4. /\ new.active = 0 => main
        /\ new.active = 1 => image
    BY <1>5 DEF FirstShown
  <2> HIDE DEF main, image
  <2>5. ASSUME NEW n \in DOMAIN switches'
        PROVE  /\ switches'[n].link <=> On(n, n, 0)' # {}
               /\ switches'[n].active = 0 => switches'[n].link
               /\ switches'[n].active = 1 => On(0, n, 1)' # {}
    <3>1. n \in 1..k - 1 \/ n = k
      BY <1>1, <1>6
    <3>2. CASE n \in 1..k - 1
      BY <2>1, <3>2
    <3>3. CASE n = k
      BY <1>5, <1>6, <2>2, <2>3, <2>4, <3>3
    <3> QED
      BY <3>1, <3>2, <3>3
  <2> QED
    BY <2>5 DEF Selected
<1>10. refused' = 0 => refused = 0 /\ R = {}
  <2>1. IsFiniteSet(R)
    <3>1. R \subseteq {<<k, "tee">>, <<k, "sink">>, <<0, "tee">>, <<0, "sink">>}
      BY <1>3 DEF Tried
    <3>2. IsFiniteSet({<<k, "tee">>, <<k, "sink">>, <<0, "tee">>, <<0, "sink">>})
      BY SmallFinite
    <3> QED
      BY <3>1, <3>2, FS_Subset
  <2> QED
    BY <1>3, <1>4, <2>1, RefuseFacts DEF GraphTypes
<1>11. ASSUME refused' = 0, NEW i \in Inputs, NEW b \in DOMAIN branch'[i]
       PROVE  branch'[i][b].tee
  <2>1. CASE b \in DOMAIN branch[i]
    <3>1. branch'[i][b] = branch[i][b]
      BY <1>2, <1>4, <1>1, <1>7, <2>1, GrownAt
    <3> QED
      BY <1>10, <1>11, <2>1, <3>1 DEF Delivers
  <2>2. CASE b \notin DOMAIN branch[i]
    <3>1. i \in G /\ b = Len(branch[i]) + 1
      BY <1>1, <1>2, <1>4, <1>7, <1>11, <2>2, GrownAt
    <3>2. branch'[i][b] = New(i, k, R)
      BY <1>1, <1>2, <1>4, <1>7, <3>1, GrownNew
    <3> QED
      <4>1. New(i, k, R).tee = TRUE
        BY <1>10, <1>11, NewFacts
      <4> QED
        BY <3>2, <4>1, Zenon
  <2> QED
    BY <2>1, <2>2
<1>12. ASSUME ImageElements \cap missing = {}, refused' = 0, NEW n \in DOMAIN switches'
       PROVE  switches'[n].active # 2
  <2>1. image
    <3>1. state[0] = "Ready" /\ pc # "nosignal"
      BY <1>12 DEF Delivers, RequestPad
    <3>2. Has(BranchElements(Type(0)))
      BY <1>12 DEF Has, Available, ImageElements, Type
    <3> QED
      BY <1>10, <1>12, <3>1, <3>2 DEF Gives
  <2>2. new.active # 2
    BY <1>5, <2>1 DEF FirstShown
  <2>3. n \in 1..k - 1 \/ n = k
    BY <1>1, <1>6
  <2> QED
    BY <1>4, <1>6, <1>10, <1>12, <2>2, <2>3 DEF Delivers
<1>13. pc' # "nosignal" /\ pc = "request"
  BY <1>2 DEF RequestPad, RequestPadAt
<1>14. Delivers'
  <2>1. refused' = 0 => \A i \in Inputs : state'[i] = "Ready" => i \in fed'
    BY <1>3, <1>10 DEF Delivers
  <2>2. ImageElements \cap missing = {} => state'[0] = "Ready"
    BY <1>3, <1>13 DEF Delivers
  <2>3. (ImageElements \cap missing)' = ImageElements \cap missing
    BY <1>3
  <2> QED
    BY <1>11, <1>12, <1>13, <2>1, <2>2, <2>3 DEF Delivers
<1> QED
  BY <1>9, <1>14

\* The decoder of input i has found its pad
LEMMA PadAddedSelects ==
  ASSUME Base, Selected, Delivers, NEW i \in Inputs, PadAdded(i)
  PROVE  Selected' /\ Delivers'
<1>1. i \in Nat /\ i # 0 /\ i \in DOMAIN switches
  BY PadAddedGrows
<1>2. PICK R \in SUBSET {<<i, "source">>, <<i, "tee">>, <<i, "sink">>} :
        /\ Refuse(R)
        /\ fed' = IF <<i, "source">> \in R THEN fed ELSE fed \cup {i}
        /\ Grown({i}, i, R)
        /\ switches' = IF <<i, "sink">> \in R THEN switches
                       ELSE [switches EXCEPT ![i].link = TRUE, ![i].active = 0]
  BY PadAddedGrows
<1>3. /\ state[i] = "Invalid" /\ state' = [state EXCEPT ![i] = "Ready"]
      /\ UNCHANGED <<missing, pc>> /\ pc = "playing"
  BY DEF PadAdded
<1>4. /\ GraphTypes /\ Peers /\ switches \in Seq(Switch) /\ DOMAIN switches = 1..Len(switches)
      /\ Len(switches) \in Nat /\ branch[i] = <<>> /\ Len(switches) <= Len(Config)
      /\ 0 \in Inputs /\ Len(Config) \in Nat /\ {i} \in SUBSET Inputs
  <2>1. GraphTypes /\ Peers /\ Stages /\ switches \in Seq(Switch)
    BY DEF Base, IInv, TypeOK
  <2>2. branch[i] = <<>>
    BY <1>3, <2>1 DEF Peers
  <2>3. 0 \in Inputs /\ Len(Config) \in Nat
    BY PipelineAssumption DEF PipelineAssumption, Inputs
  <2> QED
    BY <2>1, <2>2, <2>3 DEF Stages
<1>5. /\ DOMAIN switches' = DOMAIN switches
      /\ \A n \in DOMAIN switches : n # i => switches'[n] = switches[n]
      /\ <<i, "sink">> \in R => switches'[i] = switches[i]
      /\ <<i, "sink">> \notin R => switches'[i].link /\ switches'[i].active = 0
  <2>1. switches[i] \in [main : Nat, link : BOOLEAN, active : 0..2]
    <3>1. switches[i] \in Switch
      BY <1>1, <1>4
    <3> QED
      BY <3>1 DEF Switch
  <2> QED
    BY <1>1, <1>2, <2>1
<1>6. ASSUME NEW n \in DOMAIN switches
      PROVE  /\ n \in Nat /\ n \in Inputs
             /\ On(0, n, 1)' = On(0, n, 1)
             /\ n # i => On(n, n, 0)' = On(n, n, 0)
  <2>1. n \in Nat /\ n \in Inputs
    BY <1>4 DEF Inputs
  <2> QED
    <3>1. 0 \notin {i} /\ (n # i => n \notin {i})
      BY <1>1
    <3>2. On(0, n, 1)' = On(0, n, 1)
      BY <1>1, <1>2, <1>4, <2>1, <3>1, OnSame
    <3>3. n # i => On(n, n, 0)' = On(n, n, 0)
      BY <1>1, <1>2, <1>4, <2>1, <3>1, OnSame
    <3> QED
      BY <2>1, <3>2, <3>3
<1>7. /\ <<i, "sink">> \in R => On(i, i, 0)' = {} /\ On(i, i, 0) = {}
      /\ <<i, "sink">> \notin R => On(i, i, 0)' # {}
  <2>1. On(i, i, 0) = {}
    BY <1>4 DEF On
  <2>2. <<i, "sink">> \in R => On(i, i, 0)' = {}
    BY <1>1, <1>2, <1>4, OnNone
  <2>3. ASSUME <<i, "sink">> \notin R PROVE On(i, i, 0)' # {}
    <3>1. On(i, i, IF i = 0 THEN 1 ELSE 0)' # {}
      BY <1>1, <1>2, <1>4, <2>3, OnNew
    <3>2. (IF i = 0 THEN 1 ELSE 0) = 0
      BY <1>1
    <3> QED
      BY <3>1, <3>2
  <2> QED
    BY <2>1, <2>2, <2>3
<1>8. Selected'
  <2>1. ASSUME NEW n \in DOMAIN switches
        PROVE  /\ switches'[n].link <=> On(n, n, 0)' # {}
               /\ switches'[n].active = 0 => switches'[n].link
               /\ switches'[n].active = 1 => On(0, n, 1)' # {}
    <3>1. /\ switches[n].link <=> On(n, n, 0) # {}
          /\ switches[n].active = 0 => switches[n].link
          /\ switches[n].active = 1 => On(0, n, 1) # {}
      BY DEF Selected
    <3>2. CASE n # i
      BY <1>5, <1>6, <3>1, <3>2
    <3>3. CASE n = i /\ <<i, "sink">> \in R
      BY <1>1, <1>5, <1>6, <1>7, <3>1, <3>3
    <3>4. CASE n = i /\ <<i, "sink">> \notin R
      BY <1>5, <1>7, <3>4
    <3> QED
      BY <3>2, <3>3, <3>4
  <2> QED
    BY <1>5, <2>1 DEF Selected
<1>9. refused' = 0 => refused = 0 /\ R = {}
  <2>1. IsFiniteSet(R)
    <3>1. IsFiniteSet({<<i, "source">>, <<i, "tee">>, <<i, "sink">>})
      BY SmallFinite
    <3> QED
      BY <3>1, FS_Subset
  <2> QED
    BY <1>2, <1>4, <2>1, RefuseFacts DEF GraphTypes
<1>10. ASSUME refused' = 0, NEW j \in Inputs
       PROVE  /\ state'[j] = "Ready" => j \in fed'
              /\ \A b \in DOMAIN branch'[j] : branch'[j][b].tee
  <2>1. state'[j] = "Ready" => j \in fed'
    BY <1>2, <1>3, <1>4, <1>9, <1>10 DEF Delivers, GraphTypes
  <2>2. ASSUME NEW b \in DOMAIN branch'[j] PROVE branch'[j][b].tee
    <3>1. CASE b \in DOMAIN branch[j]
      <4>1. branch'[j][b] = branch[j][b]
        BY <1>1, <1>2, <1>4, <3>1, GrownAt
      <4> QED
        BY <1>9, <1>10, <3>1, <4>1 DEF Delivers
    <3>2. CASE b \notin DOMAIN branch[j]
      <4>1. j \in {i} /\ b = Len(branch[j]) + 1
        BY <1>1, <1>2, <1>4, <2>2, <3>2, GrownAt
      <4>2. branch'[j][b] = New(j, i, R)
        BY <1>1, <1>2, <1>4, <4>1, GrownNew
      <4> QED
        <5>1. New(j, i, R).tee = TRUE
          BY <1>9, <1>10, NewFacts
        <5> QED
          BY <4>2, <5>1, Zenon
    <3> QED
      BY <3>1, <3>2
  <2> QED
    BY <2>1, <2>2
<1>11. ASSUME ImageElements \cap missing = {}
       PROVE  /\ state'[0] = "Ready"
              /\ refused' = 0 => \A n \in DOMAIN switches' : switches'[n].active # 2
  <2>1. state'[0] = "Ready"
    BY <1>1, <1>3, <1>4, <1>11 DEF Delivers, GraphTypes
  <2>2. ASSUME refused' = 0, NEW n \in DOMAIN switches PROVE switches'[n].active # 2
    BY <1>5, <1>9, <1>11, <2>2 DEF Delivers
  <2> QED
    BY <1>5, <2>1, <2>2
<1>12. Delivers'
  <2>1. (ImageElements \cap missing)' = ImageElements \cap missing
    BY <1>3
  <2> QED
    BY <1>3, <1>10, <1>11, <2>1 DEF Delivers
<1> QED
  BY <1>8, <1>12

\* Steps that leave branches and switches alone
LEMMA SelectsStay ==
  ASSUME Selected, Delivers, UNCHANGED <<missing, switches, branch, state, fed>>,
         pc # "nosignal", pc' # "nosignal", refused' = 0 => refused = 0
  PROVE  Selected' /\ Delivers'
<1>1. Selected'
  BY DEF Selected, On
<1>2. (ImageElements \cap missing)' = ImageElements \cap missing
  OBVIOUS
<1>3. Delivers'
  BY <1>2 DEF Delivers
<1> QED
  BY <1>1, <1>3

\* Every action keeps what the selectors show
LEMMA SelectsStep ==
  ASSUME Base, Selected, Delivers, Next, Len(Config) <= MaxStream
  PROVE  Selected' /\ Delivers'
<1>0. /\ GraphTypes /\ Peers /\ 0 \in Inputs /\ at \in 1..Len(Config) /\ Len(Config) \in Nat
      /\ at \in Inputs
  BY PipelineAssumption DEF PipelineAssumption, Base, IInv, TypeOK, Inputs
<1>1. ASSUME CreateNosignal PROVE Selected' /\ Delivers'
  <2> DEFINE ok == Has(SourceElements("image"))
  <2>1. /\ state' = [state EXCEPT ![0] = StateAfterInit("image", ok)]
        /\ fed' = IF ok THEN {0} ELSE {}
        /\ UNCHANGED <<missing, refused, branch, switches>>
        /\ pc = "nosignal" /\ pc' # "nosignal"
    BY <1>1 DEF CreateNosignal
  <2>2. Selected'
    BY <2>1 DEF Selected, On
  <2>3. \A i \in Inputs : state[i] = "Invalid"
    BY <2>1 DEF Delivers
  <2>4. switches = <<>> /\ \A i \in Inputs : branch[i] = <<>>
    <3>1. \A i \in Inputs : branch[i] = <<>>
      BY <1>0, <2>3 DEF Peers
    <3>2. Len(switches) = 0 /\ switches \in Seq(Switch)
      BY <2>1 DEF Base, IInv, TypeOK, Progress, Stages
    <3> QED
      BY <3>1, <3>2
  <2>5. \A i \in Inputs : state'[i] = "Ready" => i \in fed'
    BY <1>0, <2>1, <2>3 DEF StateAfterInit, GraphTypes
  <2>6. ImageElements \cap missing = {} => state'[0] = "Ready"
    <3>1. ImageElements \cap missing = {} => ok
      BY DEF Has, Available, ImageElements
    <3>2. state'[0] = StateAfterInit("image", ok)
      BY <1>0, <2>1 DEF GraphTypes
    <3> QED
      BY <3>1, <3>2 DEF StateAfterInit
  <2>7. (ImageElements \cap missing)' = ImageElements \cap missing
    BY <2>1
  <2>8. Delivers'
    BY <2>1, <2>4, <2>5, <2>6, <2>7 DEF Delivers
  <2> QED
    BY <2>2, <2>8
<1>2. ASSUME Create PROVE Selected' /\ Delivers'
  <2> DEFINE ok == Has(SourceElements(Type(at)))
  <2>1. /\ state' = [state EXCEPT ![at] = StateAfterInit(Type(at), ok)]
        /\ fed' = IF ok /\ Type(at) = "hdmi" THEN fed \cup {at} ELSE fed
        /\ UNCHANGED <<missing, refused, branch, switches>>
        /\ pc # "nosignal" /\ pc' # "nosignal"
    BY <1>2 DEF Create
  <2>2. Selected'
    BY <2>1 DEF Selected, On
  <2>3. Type(at) \in {"hdmi", "uridb"} /\ at # 0
    BY <1>0, PipelineAssumption DEF PipelineAssumption, Type
  <2> HIDE DEF ok
  <2>4. refused' = 0 => \A i \in Inputs : state'[i] = "Ready" => i \in fed'
    BY <1>0, <2>1, <2>3 DEF StateAfterInit, GraphTypes, Delivers
  <2>5. state'[0] = state[0]
    BY <1>0, <2>1, <2>3 DEF GraphTypes
  <2>6. (ImageElements \cap missing)' = ImageElements \cap missing
    BY <2>1
  <2>7. Delivers'
    BY <2>1, <2>4, <2>5, <2>6 DEF Delivers
  <2> QED
    BY <2>2, <2>7
<1>3. ASSUME RequestPad PROVE Selected' /\ Delivers'
  BY <1>3, RequestSelects
<1>4. ASSUME RequestNoPad \/ OutputOfBrokenMixer \/ Play PROVE Selected' /\ Delivers'
  BY <1>4, SelectsStay DEF RequestNoPad, OutputOfBrokenMixer, Play, graphVars
<1>5. ASSUME Output PROVE Selected' /\ Delivers'
  <2>1. refused' = 0 => refused = 0
    <3>1. refused' = refused \/ Refuse({"output"})
      BY <1>5 DEF Output
    <3>2. IsFiniteSet({"output"})
      BY SmallFinite
    <3> QED
      BY <1>0, <3>1, <3>2, RefuseFacts DEF GraphTypes
  <2>2. UNCHANGED <<missing, switches, branch, state, fed>> /\ pc # "nosignal" /\ pc' # "nosignal"
    BY <1>5 DEF Output, graphVars
  <2> QED
    BY <2>1, <2>2, SelectsStay
<1>6. ASSUME ConnectStream PROVE Selected' /\ Delivers'
  <2>1. refused' = 0 => refused = 0
    <3>1. PICK R \in SUBSET {"mix", "ghost"} : Refuse(R)
      BY <1>6 DEF ConnectStream
    <3>2. IsFiniteSet(R)
      <4>1. IsFiniteSet({"mix", "ghost"})
        BY SmallFinite
      <4> QED
        BY <4>1, FS_Subset
    <3> QED
      BY <1>0, <3>1, <3>2, RefuseFacts DEF GraphTypes
  <2>2. UNCHANGED <<missing, switches, branch, state, fed>> /\ pc # "nosignal" /\ pc' # "nosignal"
    BY <1>6 DEF ConnectStream, NextInput
  <2> QED
    BY <2>1, <2>2, SelectsStay
<1>7. ASSUME ConnectNothing PROVE Selected' /\ Delivers'
  <2>1. refused' = 0 => refused = 0
    <3>1. refused' = refused \/ Refuse({"branch"})
      BY <1>7 DEF ConnectNothing
    <3>2. IsFiniteSet({"branch"})
      BY SmallFinite
    <3> QED
      BY <1>0, <3>1, <3>2, RefuseFacts DEF GraphTypes
  <2>2. UNCHANGED <<missing, switches, branch, state, fed>> /\ pc # "nosignal" /\ pc' # "nosignal"
    BY <1>7 DEF ConnectNothing, NextInput
  <2> QED
    BY <2>1, <2>2, SelectsStay
<1>8. ASSUME NEW i \in Inputs, PadAdded(i) PROVE Selected' /\ Delivers'
  BY <1>8, PadAddedSelects
<1> QED
  BY <1>1, <1>2, <1>3, <1>4, <1>5, <1>6, <1>7, <1>8 DEF Next

LEMMA InitSelects == Init => Selected /\ Delivers
<1> SUFFICES ASSUME Init PROVE Selected /\ Delivers
  OBVIOUS
<1>1. DOMAIN switches = {} /\ \A i \in Inputs : state[i] = "Invalid" /\ DOMAIN branch[i] = {}
  BY DEF Init
<1> QED
  BY <1>1 DEF Init, Selected, Delivers

(***************************************************************************)
(* Each selector shows a sink that is linked once, its switch knows which, *)
(* and without failures of the image or of a link that branch delivers;    *)
(* for any list of at most kVideomixMaxStream inputs.                      *)
(***************************************************************************)
THEOREM SelectorHasStreamHolds ==
  ASSUME Len(Config) <= MaxStream
  PROVE  Spec => []SelectorHasStream
<1>1. Base /\ Selected /\ Delivers /\ [Next]_vars => Selected' /\ Delivers'
  <2>1. ASSUME Selected, Delivers, UNCHANGED vars PROVE Selected' /\ Delivers'
    BY <2>1 DEF vars, graphVars, Selected, Delivers, On
  <2> QED
    BY <2>1, SelectsStep
<1>2. ASSUME Base, Selected, Delivers PROVE SelectorHasStream
  <2> SUFFICES ASSUME NEW n \in DOMAIN switches,
                      NEW s, s = switches[n],
                      NEW shown, shown = IF s.active = 0 THEN s.main ELSE 0
               PROVE  /\ s.link <=> On(s.main, n, 0) # {}
                      /\ s.active # 2 => Cardinality(On(shown, n, s.active)) = 1
                      /\ ImageElements \cap missing = {} /\ refused = 0
                           => /\ s.active # 2
                              /\ shown \in fed
                              /\ \A b \in On(shown, n, s.active) : branch[shown][b].tee
    BY DEF SelectorHasStream
  <2>1. /\ s.main = n /\ s.active \in 0..2 /\ n \in Nat /\ n # 0 /\ n \in Inputs /\ 0 \in Inputs
    <3>1. switches \in Seq(Switch) /\ Len(switches) <= Len(Config) /\ switches[n].main = n
      BY <1>2 DEF Base, IInv, TypeOK, Numbered, Stages
    <3>2. switches[n] \in Switch /\ n \in 1..Len(switches) /\ Len(switches) \in Nat
      BY <3>1
    <3>3. Len(Config) \in Nat
      BY PipelineAssumption DEF PipelineAssumption
    <3> QED
      BY <3>1, <3>2, <3>3 DEF Switch, Inputs
  <2>2. s.link <=> On(s.main, n, 0) # {}
    BY <1>2, <2>1 DEF Selected
  <2>3. ASSUME s.active # 2
        PROVE  \E b \in DOMAIN branch[shown] : On(shown, n, s.active) = {b}
    <3>1. On(shown, n, s.active) # {}
      <4>1. s.active = 0 \/ s.active = 1
        BY <2>1, <2>3
      <4> QED
        BY <1>2, <2>1, <4>1 DEF Selected
    <3>2. PICK b : b \in On(shown, n, s.active)
      BY <3>1
    <3>3. ASSUME NEW c \in On(shown, n, s.active) PROVE c = b
      <4>1. /\ b \in DOMAIN branch[shown] /\ c \in DOMAIN branch[shown]
            /\ branch[shown][b].peer = <<n, s.active>> /\ branch[shown][c].peer = <<n, s.active>>
        BY <3>2, <3>3 DEF On
      <4>2. <<n, s.active>> # NoPeer /\ shown \in Inputs
        BY <2>1 DEF NoPeer
      <4>3. \A i \in Inputs : \A x, y \in DOMAIN branch[i] :
              branch[i][x].peer = branch[i][y].peer /\ branch[i][x].peer # NoPeer => x = y
        BY <1>2 DEF Base, Peers
      <4> QED
        BY <4>1, <4>2, <4>3
    <3>4. b \in DOMAIN branch[shown] /\ On(shown, n, s.active) = {b}
      BY <3>2, <3>3 DEF On
    <3> QED
      BY <3>4
  <2>4. s.active # 2 => Cardinality(On(shown, n, s.active)) = 1
    BY <2>3, FS_Singleton
  <2>5. ASSUME ImageElements \cap missing = {}, refused = 0
        PROVE  /\ s.active # 2
               /\ shown \in fed
               /\ \A b \in On(shown, n, s.active) : branch[shown][b].tee
    <3>1. s.active # 2
      BY <1>2, <2>5 DEF Delivers
    <3>2. shown \in Inputs
      BY <2>1
    <3>3. state[shown] = "Ready"
      <4>1. branch[shown] # <<>>
        BY <2>3, <3>1
      <4> QED
        BY <1>2, <3>2, <4>1 DEF Base, Peers, GraphTypes
    <3> QED
      BY <1>2, <2>5, <3>1, <3>2, <3>3 DEF Delivers, On
  <2> QED
    BY <2>2, <2>4, <2>5
<1> QED
  BY <1>1, <1>2, InitBase, InitSelects, BaseInvariant, PTL DEF Spec

-----------------------------------------------------------------------------
(***************************************************************************)
(* What failures leave                                                     *)
(***************************************************************************)
Fall ==
  /\ pc \in {"nosignal", "create"} => \A i \in Inputs : i # 0 /\ i >= at => state[i] = "Invalid"
  /\ pc = "request" => \A i \in Inputs : i > at => state[i] = "Invalid"
  /\ pc # "playing" => \A i \in Inputs : Type(i) = "uridb" => state[i] = "Invalid"
  /\ \A i \in Inputs : state[i] = "Invalid" => i \notin fed
  /\ IsFiniteSet(mixer.streams)
  /\ missing = {} /\ pc # "failed" => loose = 0

LeftCount ==
  Cardinality(Unlinked) + Cardinality(OffTee) + Cardinality(Unpeered)
    + Cardinality(Unmixed) + Cardinality(Unfed) + mixer.cut

UnsetPads == {p \in DOMAIN mixer.pads : mixer.pads[p] = Unset}

Counted ==
  /\ LeftCount \in IF pc = "failed" THEN {refused, refused - 1} ELSE {refused}
  /\ Cardinality(UnsetPads) = Cardinality(Unmixed)
  /\ Cardinality(mixer.streams) = Len(mixer.ghosts) - Cardinality(Unmixed)

-----------------------------------------------------------------------------
\* Cardinalities
LEMMA NatCard ==
  ASSUME NEW S, IsFiniteSet(S)
  PROVE  Cardinality(S) \in Nat
BY FS_CardinalityType

\* Of two disjoint sets, of a set and one element more, of an image one to one
LEMMA CardDisjoint ==
  ASSUME NEW S, IsFiniteSet(S), NEW T, IsFiniteSet(T), S \cap T = {}
  PROVE  IsFiniteSet(S \cup T) /\ Cardinality(S \cup T) = Cardinality(S) + Cardinality(T)
<1>1. /\ IsFiniteSet(S \cup T)
      /\ Cardinality(S \cup T) = Cardinality(S) + Cardinality(T) - Cardinality(S \cap T)
  BY FS_Union
<1>2. Cardinality(S \cap T) = 0
  BY FS_EmptySet
<1> QED
  BY <1>1, <1>2, NatCard

LEMMA CardOneMore ==
  ASSUME NEW S, IsFiniteSet(S), NEW x, x \notin S, NEW T, NEW c \in BOOLEAN,
         T = IF c THEN S \cup {x} ELSE S
  PROVE  Cardinality(T) = Cardinality(S) + (IF c THEN 1 ELSE 0) /\ Cardinality(S) \in Nat
<1>1. Cardinality(S) \in Nat
  BY NatCard
<1>2. CASE c
  BY <1>1, <1>2, FS_AddElement
<1>3. CASE ~c
  BY <1>1, <1>3
<1> QED
  BY <1>1, <1>2, <1>3

LEMMA CardImage ==
  ASSUME NEW S, IsFiniteSet(S), NEW f, f = [x \in S |-> f[x]],
         \A x, y \in S : f[x] = f[y] => x = y
  PROVE  LET T == {f[x] : x \in S}
         IN  IsFiniteSet(T) /\ Cardinality(T) = Cardinality(S)
<1> DEFINE T == {f[x] : x \in S}
<1>1. f \in [S -> T]
  OBVIOUS
<1>2. f \in Surjection(S, T) /\ f \in Injection(S, T)
  BY <1>1 DEF Surjection, Injection, IsInjective
<1> HIDE DEF T
<1>3. IsFiniteSet(T) /\ Cardinality(T) = Cardinality(S)
  BY <1>2, FS_Surjection
<1> QED
  BY <1>3 DEF T

\* The links refused, counted by kind
Hit(G, k, R) == {i \in G : <<i, k>> \in R}

\* The links refused at branches are those to a tee and those to a sink
LEMMA RefusedByKind ==
  ASSUME NEW G, IsFiniteSet(G), NEW R \in SUBSET (G \X {"tee", "sink"})
  PROVE  /\ IsFiniteSet(R)
         /\ Cardinality(R) = Cardinality(Hit(G, "tee", R)) + Cardinality(Hit(G, "sink", R))
<1>1. ASSUME NEW k
      PROVE  /\ IsFiniteSet(Hit(G, k, R))
             /\ LET T == {<<i, k>> : i \in Hit(G, k, R)}
                IN  IsFiniteSet(T) /\ Cardinality(T) = Cardinality(Hit(G, k, R))
  <2> DEFINE S == Hit(G, k, R)
             f == [i \in S |-> <<i, k>>]
  <2>1. IsFiniteSet(S)
    <3>1. S \in SUBSET G
      BY DEF Hit
    <3> QED
      BY <3>1, FS_Subset
  <2>2. f = [i \in S |-> f[i]] /\ \A x, y \in S : f[x] = f[y] => x = y
    OBVIOUS
  <2>3. {f[i] : i \in S} = {<<i, k>> : i \in S}
    OBVIOUS
  <2> HIDE DEF S, f
  <2>4. IsFiniteSet({f[i] : i \in S}) /\ Cardinality({f[i] : i \in S}) = Cardinality(S)
    BY <2>1, <2>2, CardImage
  <2> QED
    BY <2>1, <2>3, <2>4 DEF S
<1> DEFINE tees == {<<i, "tee">> : i \in Hit(G, "tee", R)}
           sinks == {<<i, "sink">> : i \in Hit(G, "sink", R)}
<1>2. R = tees \cup sinks /\ tees \cap sinks = {}
  <2>1. ASSUME NEW x \in R PROVE x \in tees \cup sinks
    <3>1. PICK i \in G, k \in {"tee", "sink"} : x = <<i, k>>
      OBVIOUS
    <3> QED
      BY <3>1 DEF Hit
  <2>2. tees \cup sinks \subseteq R
    BY DEF Hit
  <2>3. tees \cap sinks = {}
    OBVIOUS
  <2> QED
    BY <2>1, <2>2, <2>3
<1>3. /\ IsFiniteSet(tees) /\ Cardinality(tees) = Cardinality(Hit(G, "tee", R))
      /\ IsFiniteSet(sinks) /\ Cardinality(sinks) = Cardinality(Hit(G, "sink", R))
  BY <1>1
<1> HIDE DEF tees, sinks
<1> QED
  BY <1>2, <1>3, CardDisjoint

-----------------------------------------------------------------------------
\* The sets counted
LEMMA BranchBound ==
  ASSUME Base, NEW i \in Inputs
  PROVE  /\ branch[i] \in Seq(Branch) /\ Len(branch[i]) \in Nat /\ DOMAIN branch[i] = 1..Len(branch[i])
         /\ Len(branch[i]) <= Len(Config) /\ Len(Config) \in Nat \ {0}
<1>1. branch[i] \in Seq(Branch)
  BY DEF Base, GraphTypes
<1>2. Len(Config) \in Nat \ {0}
  BY PipelineAssumption DEF PipelineAssumption
<1>3. Len(switches) <= Len(Config) /\ Len(switches) \in Nat
  BY DEF Base, Stages, IInv, TypeOK
<1>4. CASE i = 0
  BY <1>1, <1>2, <1>3, <1>4 DEF Base, Peers
<1>5. CASE i # 0
  BY <1>1, <1>2, <1>5 DEF Base, Peers
<1> QED
  BY <1>1, <1>2, <1>4, <1>5

\* The branches as pairs of an input and a number
LEMMA BranchPairs ==
  ASSUME Base
  PROVE  /\ \A i \in Inputs : \A b : <<i, b>> \in Branches <=> b \in DOMAIN branch[i]
         /\ \A x \in Branches : \E i \in Inputs : \E b : x = <<i, b>>
         /\ IsFiniteSet(Branches)
<1>1. ASSUME NEW i \in Inputs, NEW b
      PROVE  <<i, b>> \in Branches <=> b \in DOMAIN branch[i]
  <2>1. b \in DOMAIN branch[i] => b \in 1..Len(Config)
    BY BranchBound
  <2> QED
    BY <2>1 DEF Branches
<1>2. \A x \in Branches : \E i \in Inputs : \E b : x = <<i, b>>
  BY DEF Branches
<1>3. IsFiniteSet(Branches)
  <2>1. 0 \in Int /\ 1 \in Int /\ Len(Config) \in Int
    BY PipelineAssumption DEF PipelineAssumption
  <2>2. IsFiniteSet(0..Len(Config)) /\ IsFiniteSet(1..Len(Config))
    BY <2>1, FS_Interval, Zenon
  <2>3. IsFiniteSet(Inputs \X (1..Len(Config)))
    BY <2>2, FS_Product DEF Inputs
  <2>4. Branches \in SUBSET (Inputs \X (1..Len(Config)))
    BY DEF Branches
  <2> QED
    BY <2>3, <2>4, FS_Subset
<1> QED
  BY <1>1, <1>2, <1>3

\* Everything that is counted is finite
LEMMA CountedFinite ==
  ASSUME Base
  PROVE  /\ IsFiniteSet(Unlinked) /\ IsFiniteSet(OffTee)
         /\ IsFiniteSet(Unpeered) /\ IsFiniteSet(Unmixed) /\ IsFiniteSet(Unfed)
         /\ IsFiniteSet(UnsetPads) /\ IsFiniteSet(Inputs)
         /\ mixer.cut \in Nat /\ refused \in Nat
<1>1. IsFiniteSet(Unlinked) /\ IsFiniteSet(OffTee)
  <2>1. Unlinked \in SUBSET Branches /\ OffTee \in SUBSET Branches
    BY DEF Unlinked, OffTee
  <2> QED
    BY <2>1, BranchPairs, FS_Subset
<1>2. /\ mixer.ghosts \in Seq(Ghost) /\ mixer.pads \in Seq(Region4) /\ mixer.cut \in Nat /\ refused \in Nat
  BY DEF Base, IInv, TypeOK, GraphTypes
<1>3. IsFiniteSet(DOMAIN mixer.ghosts) /\ IsFiniteSet(DOMAIN mixer.pads)
  <2>1. /\ 1 \in Int /\ Len(mixer.ghosts) \in Int /\ Len(mixer.pads) \in Int
        /\ DOMAIN mixer.ghosts = 1..Len(mixer.ghosts) /\ DOMAIN mixer.pads = 1..Len(mixer.pads)
    BY <1>2
  <2> QED
    BY <2>1, FS_Interval, Zenon
<1>4. IsFiniteSet(Unpeered) /\ IsFiniteSet(Unmixed) /\ IsFiniteSet(UnsetPads)
  <2>1. /\ Unpeered \in SUBSET DOMAIN mixer.ghosts /\ Unmixed \in SUBSET DOMAIN mixer.ghosts
        /\ UnsetPads \in SUBSET DOMAIN mixer.pads
    BY DEF Unpeered, Unmixed, UnsetPads
  <2> QED
    BY <1>3, <2>1, FS_Subset
<1>5. IsFiniteSet(Inputs)
  <2>1. 0 \in Int /\ Len(Config) \in Int
    BY PipelineAssumption DEF PipelineAssumption
  <2> QED
    BY <2>1, FS_Interval, Zenon DEF Inputs
<1>6. IsFiniteSet(Unfed)
  <2>1. Unfed \in SUBSET Inputs
    BY DEF Unfed
  <2> QED
    BY <1>5, <2>1, FS_Subset
<1> QED
  BY <1>1, <1>2, <1>4, <1>5, <1>6

\* The branches that are new
Fresh(T) == {<<i, Len(branch[i]) + 1>> : i \in T}

\* No two inputs get the same branch, nor one that was there
LEMMA FreshFacts ==
  ASSUME Base, NEW T \in SUBSET Inputs
  PROVE  /\ IsFiniteSet(Fresh(T)) /\ Cardinality(Fresh(T)) = Cardinality(T)
         /\ \A i, b : <<i, b>> \in Fresh(T) <=> i \in T /\ b = Len(branch[i]) + 1
         /\ \A x \in Fresh(T) : \E i \in Inputs : \E b : x = <<i, b>>
         /\ Fresh(T) \cap Branches = {}
<1>1. IsFiniteSet(T)
  BY CountedFinite, FS_Subset
<1> DEFINE f == [i \in T |-> <<i, Len(branch[i]) + 1>>]
<1>2. f = [i \in T |-> f[i]] /\ \A x, y \in T : f[x] = f[y] => x = y
  OBVIOUS
<1>3. Fresh(T) = {f[i] : i \in T}
  BY DEF Fresh
<1> HIDE DEF f
<1>4. IsFiniteSet(Fresh(T)) /\ Cardinality(Fresh(T)) = Cardinality(T)
  BY <1>1, <1>2, <1>3, CardImage
<1>5. \A i, b : <<i, b>> \in Fresh(T) <=> i \in T /\ b = Len(branch[i]) + 1
  BY DEF Fresh
<1>6. \A x \in Fresh(T) : \E i \in Inputs : \E b : x = <<i, b>>
  BY DEF Fresh
<1>7. Fresh(T) \cap Branches = {}
  <2>1. ASSUME NEW x \in Fresh(T) PROVE x \notin Branches
    <3>1. PICK i \in Inputs : x = <<i, Len(branch[i]) + 1>>
      BY DEF Fresh
    <3>2. Len(branch[i]) + 1 \notin DOMAIN branch[i]
      BY BranchBound
    <3> QED
      BY <3>1, <3>2, BranchPairs
  <2> QED
    BY <2>1
<1> QED
  BY <1>4, <1>5, <1>6, <1>7

\* What new branches leave unlinked is what was refused of them
LEMMA CountedGrow ==
  ASSUME Base, Base', NEW G \in SUBSET Inputs, NEW n \in Nat, n # 0, NEW R, Grown(G, n, R)
  PROVE  /\ Cardinality(Unlinked') = Cardinality(Unlinked) + Cardinality(Hit(G, "sink", R))
         /\ Cardinality(OffTee') = Cardinality(OffTee) + Cardinality(Hit(G, "tee", R))
<1>1. GraphTypes
  BY DEF Base
<1>2. /\ \A i \in Inputs : \A b : <<i, b>> \in Branches <=> b \in DOMAIN branch[i]
      /\ \A x \in Branches : \E i \in Inputs : \E b : x = <<i, b>>
  BY BranchPairs
<1>3. /\ \A i \in Inputs : \A b : <<i, b>> \in Branches' <=> b \in DOMAIN branch'[i]
      /\ \A x \in Branches' : \E i \in Inputs : \E b : x = <<i, b>>
  <2>1. (/\ \A i \in Inputs : \A b : <<i, b>> \in Branches <=> b \in DOMAIN branch[i]
         /\ \A x \in Branches : \E i \in Inputs : \E b : x = <<i, b>>)'
    BY BranchPairs, PTL
  <2> QED
    BY <2>1
<1> DEFINE S == Hit(G, "sink", R)
           T == Hit(G, "tee", R)
<1>4. S \in SUBSET Inputs /\ T \in SUBSET Inputs
  BY DEF Hit
<1>5. ASSUME NEW i \in Inputs, NEW b
      PROVE  b \in DOMAIN branch'[i] <=> b \in DOMAIN branch[i] \/ (i \in G /\ b = Len(branch[i]) + 1)
  BY <1>1, GrownAt
<1>6. ASSUME NEW i \in Inputs, NEW b \in DOMAIN branch[i]
      PROVE  branch'[i][b] = branch[i][b] /\ b # Len(branch[i]) + 1
  <2>1. branch'[i][b] = branch[i][b]
    BY <1>1, GrownAt
  <2> QED
    BY <2>1, BranchBound
<1>7. ASSUME NEW i \in G
      PROVE  /\ branch'[i][Len(branch[i]) + 1].peer = NoPeer <=> i \in S
             /\ ~branch'[i][Len(branch[i]) + 1].tee <=> i \in T
  <2>1. branch'[i][Len(branch[i]) + 1] = New(i, n, R)
    BY <1>1, GrownNew
  <2>2. New(i, n, R).peer = NoPeer <=> i \in S
    BY DEF New, NoPeer, Hit
  <2>3. ~New(i, n, R).tee <=> i \in T
    BY DEF New, Hit
  <2> QED
    BY <2>1, <2>2, <2>3
<1>8. Unlinked' = Unlinked \cup Fresh(S)
  <2>1. ASSUME NEW i \in Inputs, NEW b
        PROVE  <<i, b>> \in Unlinked' <=> <<i, b>> \in Unlinked \/ <<i, b>> \in Fresh(S)
    <3>1. <<i, b>> \in Unlinked' <=> b \in DOMAIN branch'[i] /\ branch'[i][b].peer = NoPeer
      BY <1>3 DEF Unlinked
    <3>2. <<i, b>> \in Unlinked <=> b \in DOMAIN branch[i] /\ branch[i][b].peer = NoPeer
      BY <1>2 DEF Unlinked
    <3>3. <<i, b>> \in Fresh(S) <=> i \in S /\ b = Len(branch[i]) + 1
      BY <1>4, FreshFacts
    <3>4. S \subseteq G
      BY DEF Hit
    <3> QED
      BY <1>5, <1>6, <1>7, <3>1, <3>2, <3>3, <3>4
  <2>2. ASSUME NEW x PROVE x \in Unlinked' => \E i \in Inputs : \E b : x = <<i, b>>
    BY <1>3 DEF Unlinked
  <2>3. ASSUME NEW x PROVE x \in Unlinked \/ x \in Fresh(S) => \E i \in Inputs : \E b : x = <<i, b>>
    BY <1>2, <1>4, FreshFacts DEF Unlinked
  <2> QED
    BY <2>1, <2>2, <2>3
<1>9. OffTee' = OffTee \cup Fresh(T)
  <2>1. ASSUME NEW i \in Inputs, NEW b
        PROVE  <<i, b>> \in OffTee' <=> <<i, b>> \in OffTee \/ <<i, b>> \in Fresh(T)
    <3>1. <<i, b>> \in OffTee' <=> b \in DOMAIN branch'[i] /\ ~branch'[i][b].tee
      BY <1>3 DEF OffTee
    <3>2. <<i, b>> \in OffTee <=> b \in DOMAIN branch[i] /\ ~branch[i][b].tee
      BY <1>2 DEF OffTee
    <3>3. <<i, b>> \in Fresh(T) <=> i \in T /\ b = Len(branch[i]) + 1
      BY <1>4, FreshFacts
    <3>4. T \subseteq G
      BY DEF Hit
    <3> QED
      BY <1>5, <1>6, <1>7, <3>1, <3>2, <3>3, <3>4
  <2>2. ASSUME NEW x PROVE x \in OffTee' => \E i \in Inputs : \E b : x = <<i, b>>
    BY <1>3 DEF OffTee
  <2>3. ASSUME NEW x PROVE x \in OffTee \/ x \in Fresh(T) => \E i \in Inputs : \E b : x = <<i, b>>
    BY <1>2, <1>4, FreshFacts DEF OffTee
  <2> QED
    BY <2>1, <2>2, <2>3
<1>10. /\ IsFiniteSet(Fresh(S)) /\ Cardinality(Fresh(S)) = Cardinality(S) /\ Fresh(S) \cap Branches = {}
       /\ IsFiniteSet(Fresh(T)) /\ Cardinality(Fresh(T)) = Cardinality(T) /\ Fresh(T) \cap Branches = {}
  BY <1>4, FreshFacts
<1>11. /\ Unlinked \cap Fresh(S) = {} /\ OffTee \cap Fresh(T) = {}
       /\ IsFiniteSet(Unlinked) /\ IsFiniteSet(OffTee)
  BY <1>10, CountedFinite DEF Unlinked, OffTee
<1> HIDE DEF S, T
<1>12. Cardinality(Unlinked \cup Fresh(S)) = Cardinality(Unlinked) + Cardinality(S)
  BY <1>10, <1>11, CardDisjoint
<1>13. Cardinality(OffTee \cup Fresh(T)) = Cardinality(OffTee) + Cardinality(T)
  BY <1>10, <1>11, CardDisjoint
<1> QED
  BY <1>8, <1>9, <1>12, <1>13 DEF S, T

-----------------------------------------------------------------------------
\* Every action keeps what failures have left out of the bins
LEMMA FallStep ==
  ASSUME Base, Fall, Next, Len(Config) <= MaxStream
  PROVE  Fall'
<1>0. /\ GraphTypes /\ Peers /\ IInv /\ Stages /\ 0 \in Inputs /\ at \in 1..Len(Config)
      /\ Len(Config) \in Nat /\ at \in Inputs /\ at # 0 /\ Inputs \subseteq Nat
  BY PipelineAssumption DEF PipelineAssumption, Base, IInv, TypeOK, Inputs
<1>1. Type(0) = "image" /\ \A i \in Inputs : i # 0 => Type(i) \in {"hdmi", "uridb"}
  BY PipelineAssumption DEF PipelineAssumption, Type, Inputs
<1>2. \A elements : missing = {} => Has(elements) /\ Forget(elements) = 0
  BY DEF Has, Available, Forget, Forgotten
<1>3. ASSUME CreateNosignal PROVE Fall'
  <2> DEFINE ok == Has(SourceElements("image"))
  <2>1. /\ state' = [state EXCEPT ![0] = StateAfterInit("image", ok)]
        /\ fed' = IF ok THEN {0} ELSE {}
        /\ loose' = Forget(SourceElements("image")) + (IF ok THEN 0 ELSE 1) + Forget(MixerElements(usage))
        /\ UNCHANGED <<missing, at, mixer>>
        /\ pc = "nosignal" /\ pc' \in {"create", "crashed"}
    BY <1>3 DEF CreateNosignal
  <2>2. missing = {} => loose' = 0
    BY <1>2, <2>1
  <2>3. StateAfterInit("image", ok) = "Invalid" <=> ~ok
    BY DEF StateAfterInit
  <2> HIDE DEF ok
  <2>4. \A i \in Inputs : state'[i] = IF i = 0 THEN StateAfterInit("image", ok) ELSE state[i]
    BY <1>0, <2>1 DEF GraphTypes
  <2> QED
    BY <1>0, <1>1, <2>1, <2>2, <2>3, <2>4 DEF Fall
<1>4. ASSUME Create PROVE Fall'
  <2> DEFINE ok == Has(SourceElements(Type(at)))
  <2>1. /\ state' = [state EXCEPT ![at] = StateAfterInit(Type(at), ok)]
        /\ fed' = IF ok /\ Type(at) = "hdmi" THEN fed \cup {at} ELSE fed
        /\ loose' = loose + Forget(SourceElements(Type(at))) + (IF ok THEN 0 ELSE 1)
        /\ UNCHANGED <<missing, at, mixer>>
        /\ pc = "create" /\ pc' = "request"
    BY <1>4 DEF Create
  <2>2. missing = {} => loose' = 0
    BY <1>2, <2>1 DEF Fall
  <2>3. /\ StateAfterInit(Type(at), ok) = "Invalid" <=> ~ok \/ Type(at) = "uridb"
        /\ StateAfterInit(Type(at), ok) \in {"Invalid", "Ready"}
    BY DEF StateAfterInit
  <2> HIDE DEF ok
  <2>4. \A i \in Inputs : state'[i] = IF i = at THEN StateAfterInit(Type(at), ok) ELSE state[i]
    BY <1>0, <2>1 DEF GraphTypes
  <2>5. at \notin fed
    BY <1>0, <2>1 DEF Fall
  <2> QED
    BY <1>0, <1>1, <2>1, <2>2, <2>3, <2>4, <2>5 DEF Fall
<1>5. ASSUME RequestPad PROVE Fall'
  <2>1. PICK R : RequestPadAt(R)
    BY <1>5 DEF RequestPad
  <2>2. missing = {} => loose' = 0
    <3>1. ASSUME missing = {} PROVE loose' = 0
      <4>1. /\ Forget(BranchElements(Type(at))) = 0 /\ Forget(BranchElements("image")) = 0
            /\ loose = 0
        BY <1>2, <1>5, <3>1 DEF Fall, RequestPad
      <4>2. 0 * (IF state[at] = "Invalid" THEN 0 ELSE 1) = 0 /\ 0 * (IF state[0] = "Invalid" THEN 0 ELSE 1) = 0
        OBVIOUS
      <4>3. loose' = 0 + 0 * (IF state[at] = "Invalid" THEN 0 ELSE 1)
                       + 0 * (IF state[0] = "Invalid" THEN 0 ELSE 1)
        BY <2>1, <4>1 DEF RequestPadAt
      <4> QED
        BY <4>2, <4>3
    <3> QED
      BY <3>1
  <2>3. /\ UNCHANGED <<missing, state, fed, mixer>>
        /\ pc = "request" /\ pc' \in {"output", "create"} /\ (pc' = "create" => at' = at + 1)
    BY <1>5, <2>1 DEF RequestPad, RequestPadAt
  <2> QED
    BY <1>0, <2>2, <2>3 DEF Fall
<1>6. ASSUME RequestNoPad \/ OutputOfBrokenMixer PROVE Fall'
  <2>1. missing # {}
    BY <1>2, <1>6 DEF RequestNoPad, OutputOfBrokenMixer
  <2>2. /\ UNCHANGED <<missing, state, fed, mixer>>
        /\ pc \in {"request", "output"} /\ pc' \in {"failed", "crashed"}
    BY <1>6 DEF RequestNoPad, OutputOfBrokenMixer, graphVars
  <2> QED
    BY <2>1, <2>2 DEF Fall
<1>7. ASSUME Output PROVE Fall'
  <2>1. /\ UNCHANGED <<missing, state, fed, mixer>>
        /\ pc = "output" /\ pc' \in {"failed", "connect"} /\ (pc' = "connect" => loose' = loose)
    BY <1>7 DEF Output, graphVars
  <2> QED
    BY <2>1 DEF Fall
<1>8. ASSUME ConnectStream PROVE Fall'
  <2>1. IsFiniteSet(mixer'.streams)
    <3>1. mixer'.streams = mixer.streams \/ mixer'.streams = mixer.streams \cup {at}
      BY <1>8, StreamJoins DEF Joined
    <3>2. IsFiniteSet(mixer.streams)
      BY DEF Fall
    <3> QED
      BY <3>1, <3>2, FS_AddElement
  <2>2. /\ UNCHANGED <<missing, state, fed, loose>>
        /\ pc = "connect" /\ pc' \in {"connect", "play"}
    BY <1>8 DEF ConnectStream, NextInput
  <2> QED
    BY <2>1, <2>2 DEF Fall
<1>9. ASSUME ConnectNothing PROVE Fall'
  <2>1. Accepts(mixer, ModulePad)
    BY <1>0, <1>9, PadInHand DEF ConnectNothing
  <2>2. /\ mixer' = mixer \/ mixer' = ConnectCut(mixer)
        /\ loose' = loose \/ missing # {}
    BY <1>2, <1>9, <2>1 DEF ConnectNothing
  <2>3. mixer'.streams = mixer.streams
    BY <1>0, <2>2 DEF IInv, TypeOK, ConnectCut
  <2>4. /\ UNCHANGED <<missing, state, fed>>
        /\ pc = "connect" /\ pc' \in {"connect", "play", "crashed"}
    BY <1>9 DEF ConnectNothing, NextInput
  <2> QED
    BY <2>2, <2>3, <2>4 DEF Fall
<1>10. ASSUME Play PROVE Fall'
  BY <1>10 DEF Play, graphVars, Fall
<1>11. ASSUME NEW i \in Inputs, PadAdded(i) PROVE Fall'
  <2>1. /\ state' = [state EXCEPT ![i] = "Ready"]
        /\ UNCHANGED <<missing, pc, mixer, loose>> /\ pc = "playing"
    BY <1>11 DEF PadAdded
  <2>2. fed' = fed \/ fed' = fed \cup {i}
    BY <1>11, PadAddedGrows DEF Base
  <2>3. \A j \in Inputs : state'[j] = IF j = i THEN "Ready" ELSE state[j]
    BY <1>0, <2>1 DEF GraphTypes
  <2>4. \A j \in Inputs : state'[j] = "Invalid" => j \notin fed'
    BY <2>2, <2>3 DEF Fall
  <2> QED
    BY <2>1, <2>4 DEF Fall
<1> QED
  BY <1>3, <1>4, <1>5, <1>6, <1>7, <1>8, <1>9, <1>10, <1>11 DEF Next

LEMMA InitFall == Init => Fall /\ Counted
<1> SUFFICES ASSUME Init PROVE Fall /\ Counted
  OBVIOUS
<1>1. /\ \A i \in Inputs : state[i] = "Invalid" /\ DOMAIN branch[i] = {}
      /\ fed = {} /\ mixer = NewMixer /\ refused = 0 /\ loose = 0 /\ pc = "nosignal"
  BY DEF Init
<1>2. /\ mixer.streams = {} /\ DOMAIN mixer.ghosts = {} /\ DOMAIN mixer.pads = {}
      /\ mixer.cut = 0 /\ Len(mixer.ghosts) = 0
  BY <1>1 DEF NewMixer
<1>3. IsFiniteSet({}) /\ Cardinality({}) = 0
  BY FS_EmptySet
<1>4. Fall
  BY <1>1, <1>2, <1>3 DEF Fall
<1>5. Branches = {}
  BY <1>1 DEF Branches
<1>6. /\ Unlinked = {} /\ OffTee = {} /\ Unpeered = {} /\ Unmixed = {} /\ UnsetPads = {}
      /\ Unfed = {}
  BY <1>1, <1>2, <1>5 DEF Unlinked, OffTee, Unpeered, Unmixed, UnsetPads, Unfed
<1>7. Counted
  BY <1>1, <1>2, <1>3, <1>6 DEF Counted, LeftCount
<1> QED
  BY <1>4, <1>7

-----------------------------------------------------------------------------
\* Before the pipeline plays no decoder has found its pad
LEMMA UnfedNone ==
  ASSUME Fall, pc # "playing"
  PROVE  Unfed = {}
BY DEF Fall, Unfed

\* Steps that change no link of the graph
LEMMA CountedStay ==
  ASSUME Base, Counted, UNCHANGED <<state, fed, branch, mixer>>, pc # "failed",
         refused' = refused \/ (pc' = "failed" /\ refused' = refused + 1)
  PROVE  Counted'
<1>1. LeftCount' = LeftCount /\ UnsetPads' = UnsetPads /\ Unmixed' = Unmixed
  <2>1. /\ Unlinked' = Unlinked /\ OffTee' = OffTee /\ Unpeered' = Unpeered
        /\ Unmixed' = Unmixed /\ Unfed' = Unfed /\ UnsetPads' = UnsetPads
    BY DEF Branches, Unlinked, OffTee, Unpeered, Unmixed, Unfed, UnsetPads
  <2> QED
    BY <2>1 DEF LeftCount
<1>2. LeftCount = refused /\ refused \in Nat
  BY DEF Counted, Base, GraphTypes
<1> QED
  BY <1>1, <1>2 DEF Counted

\* A stream that joins the mixer
LEMMA CountedJoin ==
  ASSUME Base, Fall, Fall', Counted, ConnectStream, Len(Config) <= MaxStream
  PROVE  Counted'
<1>1. Accepts(mixer, at)
  BY StreamJoins
<1>2. PICK R \in SUBSET {"mix", "ghost"} : Refuse(R) /\ Joined(R)
  BY StreamJoins
<1>3. /\ pc = "connect" /\ pc' \in {"connect", "play"} /\ UNCHANGED <<state, fed, branch>>
      /\ at \in Nat /\ at # 0
  BY PipelineAssumption
     DEF PipelineAssumption, Base, IInv, TypeOK, ConnectStream, NextInput
<1>4. Unfed = {} /\ Unfed' = {}
  BY <1>3, UnfedNone DEF Fall, Unfed
<1>5. Unlinked' = Unlinked /\ OffTee' = OffTee
  BY <1>3 DEF Branches, Unlinked, OffTee
<1> DEFINE ghosts == mixer.ghosts
           regions == mixer.pads
           peer == IF "ghost" \in R THEN 0 ELSE at
           behind == IF "mix" \in R THEN 0 ELSE Len(regions) + 1
           new == [peer |-> peer, behind |-> behind]
           style == IF "mix" \in R THEN Unset ELSE ThreeScreen(at - 1)
           g == Len(ghosts) + 1
           p == Len(regions) + 1
           noGhost == "ghost" \in R
           noMix == "mix" \in R
<1>6. ghosts \in Seq(Ghost) /\ regions \in Seq(Region4) /\ Len(ghosts) \in Nat /\ Len(regions) \in Nat
  BY DEF Base, IInv, TypeOK
<1>7. mixer'.ghosts = Append(ghosts, new) /\ mixer'.pads = Append(regions, style)
  BY <1>2 DEF Joined
<1>8. /\ DOMAIN mixer'.ghosts = (DOMAIN ghosts) \cup {g} /\ Len(mixer'.ghosts) = g
      /\ \A n \in DOMAIN ghosts : mixer'.ghosts[n] = ghosts[n]
      /\ mixer'.ghosts[g] = new
      /\ DOMAIN mixer'.pads = (DOMAIN regions) \cup {p}
      /\ \A n \in DOMAIN regions : mixer'.pads[n] = regions[n]
      /\ mixer'.pads[p] = style
      /\ g \notin DOMAIN ghosts /\ p \notin DOMAIN regions
  <2> HIDE DEF ghosts, regions, new, style
  <2> QED
    BY <1>6, <1>7
<1>9. (new.peer = 0 <=> noGhost) /\ (new.behind = 0 <=> noMix)
  BY <1>3, <1>6
<1>10. style = Unset <=> noMix
  <2>1. ThreeScreen(at - 1).w # Unset.w
    BY DEF ThreeScreen, Unset, ScreenWidth, ScreenHeight
  <2> QED
    BY <2>1
<1> HIDE DEF new, style
<1>11. /\ Unpeered' = IF noGhost THEN Unpeered \cup {g} ELSE Unpeered
       /\ g \notin Unpeered
  BY <1>8, <1>9 DEF Unpeered
<1>12. /\ Unmixed' = IF noMix THEN Unmixed \cup {g} ELSE Unmixed
       /\ g \notin Unmixed
  BY <1>8, <1>9 DEF Unmixed
<1>13. /\ UnsetPads' = IF noMix THEN UnsetPads \cup {p} ELSE UnsetPads
       /\ p \notin UnsetPads
  BY <1>8, <1>10 DEF UnsetPads
<1>14. /\ mixer'.streams = IF ~noMix THEN mixer.streams \cup {at} ELSE mixer.streams
       /\ at \notin mixer.streams /\ mixer'.cut = mixer.cut
  BY <1>1, <1>2 DEF Joined, Accepts
<1>15. noGhost \in BOOLEAN /\ noMix \in BOOLEAN
  OBVIOUS
<1>16. Cardinality(R) = (IF noMix THEN 1 ELSE 0) + (IF noGhost THEN 1 ELSE 0)
  <2> DEFINE S == R \ {"ghost"}
  <2>1. S = (IF noMix THEN {} \cup {"mix"} ELSE {})
    OBVIOUS
  <2>2. R = (IF noGhost THEN S \cup {"ghost"} ELSE S) /\ "ghost" \notin S
    OBVIOUS
  <2>3. IsFiniteSet({}) /\ Cardinality({}) = 0
    BY FS_EmptySet
  <2>4. IsFiniteSet(S)
    <3>1. S \in SUBSET {"mix", "ghost"} /\ IsFiniteSet({"mix", "ghost"})
      BY SmallFinite
    <3> QED
      BY <3>1, FS_Subset
  <2> HIDE DEF S, noMix, noGhost
  <2>5. Cardinality(S) = Cardinality({}) + (IF noMix THEN 1 ELSE 0)
    BY <1>15, <2>1, <2>3, CardOneMore
  <2>6. Cardinality(R) = Cardinality(S) + (IF noGhost THEN 1 ELSE 0)
    BY <1>15, <2>2, <2>4, CardOneMore
  <2> QED
    BY <1>15, <2>3, <2>5, <2>6
<1> HIDE DEF noGhost, noMix, g, p
<1>17. Cardinality(Unpeered') = Cardinality(Unpeered) + (IF noGhost THEN 1 ELSE 0)
  BY <1>11, <1>15, CountedFinite, CardOneMore
<1>18. Cardinality(Unmixed') = Cardinality(Unmixed) + (IF noMix THEN 1 ELSE 0)
  BY <1>12, <1>15, CountedFinite, CardOneMore
<1>19. Cardinality(UnsetPads') = Cardinality(UnsetPads) + (IF noMix THEN 1 ELSE 0)
  BY <1>13, <1>15, CountedFinite, CardOneMore
<1>20. Cardinality(mixer'.streams) = Cardinality(mixer.streams) + (IF ~noMix THEN 1 ELSE 0)
  <2> DEFINE recorded == ~noMix
  <2>1. IsFiniteSet(mixer.streams) /\ recorded \in BOOLEAN
    BY <1>15 DEF Fall
  <2>2. mixer'.streams = IF recorded THEN mixer.streams \cup {at} ELSE mixer.streams
    BY <1>14
  <2> HIDE DEF recorded
  <2>3. Cardinality(mixer'.streams) = Cardinality(mixer.streams) + (IF recorded THEN 1 ELSE 0)
    BY <1>14, <2>1, <2>2, CardOneMore
  <2> QED
    BY <2>3 DEF recorded
<1>21. refused' = refused + Cardinality(R) /\ refused \in Nat /\ mixer.cut \in Nat
  BY <1>2, CountedFinite DEF Refuse
<1>22. /\ Cardinality(Unlinked) \in Nat /\ Cardinality(OffTee) \in Nat
       /\ Cardinality(Unpeered) \in Nat /\ Cardinality(Unmixed) \in Nat /\ Cardinality(Unfed) \in Nat
       /\ Cardinality(UnsetPads) \in Nat /\ Cardinality(mixer.streams) \in Nat
  BY CountedFinite, NatCard DEF Fall
<1>23. /\ LeftCount = refused
       /\ Cardinality(UnsetPads) = Cardinality(Unmixed)
       /\ Cardinality(mixer.streams) = Len(ghosts) - Cardinality(Unmixed)
  BY <1>3 DEF Counted
<1>24. LeftCount' = refused'
  <2>1. LeftCount' = Cardinality(Unlinked) + Cardinality(OffTee) + Cardinality(Unpeered')
                       + Cardinality(Unmixed') + Cardinality(Unfed) + mixer.cut
    BY <1>4, <1>5, <1>14 DEF LeftCount
  <2>2. LeftCount = Cardinality(Unlinked) + Cardinality(OffTee) + Cardinality(Unpeered)
                       + Cardinality(Unmixed) + Cardinality(Unfed) + mixer.cut
    BY DEF LeftCount
  <2> DEFINE u == Cardinality(Unlinked)
             o == Cardinality(OffTee)
             q == Cardinality(Unpeered)
             m == Cardinality(Unmixed)
             f == Cardinality(Unfed)
             a == IF noMix THEN 1 ELSE 0
             b == IF noGhost THEN 1 ELSE 0
  <2>3. /\ LeftCount' = u + o + (q + b) + (m + a) + f + mixer.cut
        /\ refused = u + o + q + m + f + mixer.cut
        /\ refused' = refused + (a + b)
    BY <1>16, <1>17, <1>18, <1>21, <1>23, <2>1, <2>2
  <2>4. /\ u \in Nat /\ o \in Nat /\ q \in Nat /\ m \in Nat /\ f \in Nat
        /\ a \in Nat /\ b \in Nat
    BY <1>15, <1>22
  <2> HIDE DEF u, o, q, m, f, a, b
  <2> QED
    BY <1>21, <2>3, <2>4
<1>25. Cardinality(UnsetPads') = Cardinality(Unmixed')
  BY <1>18, <1>19, <1>23
<1>26. Cardinality(mixer'.streams) = Len(mixer'.ghosts) - Cardinality(Unmixed')
  <2>1. Len(mixer'.ghosts) = Len(ghosts) + 1
    BY <1>8 DEF g
  <2> DEFINE l == Len(ghosts)
             m == Cardinality(Unmixed)
             n == Cardinality(mixer.streams)
  <2>2. /\ Len(mixer'.ghosts) = l + 1 /\ n = l - m
        /\ Cardinality(Unmixed') = m + (IF noMix THEN 1 ELSE 0)
        /\ Cardinality(mixer'.streams) = n + (IF ~noMix THEN 1 ELSE 0)
        /\ l \in Nat /\ m \in Nat /\ n \in Nat
    BY <1>6, <1>18, <1>20, <1>22, <1>23, <2>1
  <2> HIDE DEF l, m, n
  <2>3. CASE noMix
    BY <2>2, <2>3
  <2>4. CASE ~noMix
    BY <2>2, <2>4
  <2> QED
    BY <2>3, <2>4
<1> QED
  BY <1>3, <1>24, <1>25, <1>26 DEF Counted

\* What grows on branches is counted by the links refused on their two ends
LEMMA CountedBranches ==
  ASSUME Base, Base', NEW G \in SUBSET Inputs, NEW n \in Nat, n # 0, NEW R, Grown(G, n, R),
         NEW S \in SUBSET (G \X {"tee", "sink"}),
         Hit(G, "tee", S) = Hit(G, "tee", R), Hit(G, "sink", S) = Hit(G, "sink", R)
  PROVE  /\ IsFiniteSet(S) /\ Cardinality(S) \in Nat
         /\ Cardinality(Unlinked') + Cardinality(OffTee')
              = Cardinality(Unlinked) + Cardinality(OffTee) + Cardinality(S)
<1>1. /\ Cardinality(Unlinked') = Cardinality(Unlinked) + Cardinality(Hit(G, "sink", R))
      /\ Cardinality(OffTee') = Cardinality(OffTee) + Cardinality(Hit(G, "tee", R))
  BY CountedGrow
<1>2. IsFiniteSet(G)
  BY CountedFinite, FS_Subset
<1>3. /\ IsFiniteSet(S)
      /\ Cardinality(S) = Cardinality(Hit(G, "tee", R)) + Cardinality(Hit(G, "sink", R))
  BY <1>2, RefusedByKind
<1>4. /\ IsFiniteSet(Hit(G, "tee", R)) /\ IsFiniteSet(Hit(G, "sink", R))
  <2>1. Hit(G, "tee", R) \in SUBSET G /\ Hit(G, "sink", R) \in SUBSET G
    BY DEF Hit
  <2> QED
    BY <1>2, <2>1, FS_Subset
<1>5. /\ Cardinality(Hit(G, "tee", R)) \in Nat /\ Cardinality(Hit(G, "sink", R)) \in Nat
      /\ Cardinality(Unlinked) \in Nat /\ Cardinality(OffTee) \in Nat
  BY <1>4, CountedFinite, NatCard
<1> DEFINE t == Cardinality(Hit(G, "tee", R))
           s == Cardinality(Hit(G, "sink", R))
           u == Cardinality(Unlinked)
           o == Cardinality(OffTee)
<1> HIDE DEF t, s, u, o
<1>6. /\ Cardinality(Unlinked') = u + s /\ Cardinality(OffTee') = o + t /\ Cardinality(S) = t + s
      /\ t \in Nat /\ s \in Nat /\ u \in Nat /\ o \in Nat
  BY <1>1, <1>3, <1>5 DEF t, s, u, o
<1>7. Cardinality(Unlinked') + Cardinality(OffTee') = u + o + Cardinality(S) /\ Cardinality(S) \in Nat
  BY <1>6
<1> QED
  BY <1>3, <1>7 DEF u, o

\* The branches of a switch that main has made
LEMMA CountedRequest ==
  ASSUME Base, Base', Fall, Counted, RequestPad
  PROVE  Counted'
<1> DEFINE G == {i \in {0, at} : Gives(i)}
<1>1. /\ at \in Nat /\ at # 0 /\ at \in Inputs /\ 0 \in Inputs
  BY RequestGrows
<1>2. PICK R : RequestPadAt(R) /\ Grown(G, at, R)
  BY RequestGrows
<1>3. /\ Refuse(R) /\ R \subseteq Tried(at) \cup Tried(0)
      /\ UNCHANGED <<state, fed, mixer>> /\ pc = "request" /\ pc' # "failed"
  BY <1>2 DEF RequestPad, RequestPadAt
<1>4. R \in SUBSET (G \X {"tee", "sink"})
  BY <1>3 DEF Tried
<1>5. G \in SUBSET Inputs
  BY <1>1
<1> HIDE DEF G
<1>6. /\ IsFiniteSet(R) /\ Cardinality(R) \in Nat
      /\ Cardinality(Unlinked') + Cardinality(OffTee')
           = Cardinality(Unlinked) + Cardinality(OffTee) + Cardinality(R)
  BY <1>1, <1>2, <1>4, <1>5, CountedBranches
<1>7. /\ Unpeered' = Unpeered /\ Unmixed' = Unmixed /\ Unfed' = Unfed /\ UnsetPads' = UnsetPads
      /\ mixer' = mixer
  BY <1>3 DEF Unpeered, Unmixed, Unfed, UnsetPads
<1>8. /\ Cardinality(Unlinked) \in Nat /\ Cardinality(OffTee) \in Nat /\ Cardinality(Unpeered) \in Nat
      /\ Cardinality(Unmixed) \in Nat /\ Cardinality(Unfed) \in Nat /\ mixer.cut \in Nat
      /\ refused \in Nat
  BY CountedFinite, NatCard
<1>9. IsFiniteSet(Unlinked') /\ IsFiniteSet(OffTee')
  <2>1. (IsFiniteSet(Unlinked) /\ IsFiniteSet(OffTee))'
    <3>1. Base => IsFiniteSet(Unlinked) /\ IsFiniteSet(OffTee)
      BY CountedFinite
    <3> QED
      BY <3>1, CountedFinite, PTL
  <2> QED
    BY <2>1
<1>10. Cardinality(Unlinked') \in Nat /\ Cardinality(OffTee') \in Nat
  BY <1>9, NatCard
<1>11. LeftCount = refused /\ refused' = refused + Cardinality(R)
  BY <1>3 DEF Counted, Refuse
<1>12. LeftCount' = refused'
  <2> DEFINE u == Cardinality(Unlinked)
             v == Cardinality(Unlinked')
             o == Cardinality(OffTee)
             w == Cardinality(OffTee')
             q == Cardinality(Unpeered)
             m == Cardinality(Unmixed)
             f == Cardinality(Unfed)
             r == Cardinality(R)
             c == mixer.cut
  <2>1. /\ LeftCount' = v + w + q + m + f + c
        /\ refused = u + o + q + m + f + c
        /\ refused' = refused + r
        /\ v + w = u + o + r
    BY <1>6, <1>7, <1>11 DEF LeftCount
  <2>2. /\ u \in Nat /\ v \in Nat /\ o \in Nat /\ w \in Nat /\ q \in Nat /\ m \in Nat /\ f \in Nat
        /\ r \in Nat /\ c \in Nat
    BY <1>6, <1>8, <1>10
  <2> HIDE DEF u, v, o, w, q, m, f, r, c
  <2> QED
    BY <2>1, <2>2
<1> QED
  BY <1>3, <1>7, <1>12 DEF Counted

\* A branch of VideoMixerGlvm that falls apart
LEMMA CountedCut ==
  ASSUME Base, Counted, ConnectNothing, Len(Config) <= MaxStream
  PROVE  Counted'
<1>1. /\ UNCHANGED <<state, fed, branch>> /\ pc = "connect" /\ pc' # "failed"
      /\ \/ UNCHANGED <<refused, mixer>>
         \/ Refuse({"branch"}) /\ mixer' = ConnectCut(mixer)
  BY DEF ConnectNothing, NextInput
<1>2. CASE UNCHANGED <<refused, mixer>>
  BY <1>1, <1>2, CountedStay
<1>3. CASE Refuse({"branch"}) /\ mixer' = ConnectCut(mixer)
  <2>1. mixer \in [ghosts : Seq(Ghost), pads : Seq(Region4), streams : SUBSET Nat, cut : Nat]
    BY DEF Base, IInv, TypeOK
  <2>2. /\ mixer'.ghosts = mixer.ghosts /\ mixer'.pads = mixer.pads /\ mixer'.streams = mixer.streams
        /\ mixer'.cut = mixer.cut + 1
    BY <1>3, <2>1 DEF ConnectCut
  <2>3. /\ Unlinked' = Unlinked /\ OffTee' = OffTee /\ Unpeered' = Unpeered
        /\ Unmixed' = Unmixed /\ Unfed' = Unfed /\ UnsetPads' = UnsetPads
    BY <1>1, <2>2 DEF Branches, Unlinked, OffTee, Unpeered, Unmixed, Unfed, UnsetPads
  <2>4. refused' = refused + 1 /\ refused \in Nat /\ mixer.cut \in Nat
    <3>1. Cardinality({"branch"}) = 1
      BY FS_Singleton
    <3> QED
      BY <1>3, <3>1, CountedFinite DEF Refuse
  <2>5. LeftCount = refused
    BY <1>1 DEF Counted
  <2>6. /\ Cardinality(Unlinked) \in Nat /\ Cardinality(OffTee) \in Nat /\ Cardinality(Unpeered) \in Nat
        /\ Cardinality(Unmixed) \in Nat /\ Cardinality(Unfed) \in Nat
    BY CountedFinite, NatCard
  <2>7. LeftCount' = refused'
    <3> DEFINE s == Cardinality(Unlinked) + Cardinality(OffTee) + Cardinality(Unpeered)
                      + Cardinality(Unmixed) + Cardinality(Unfed)
    <3>1. LeftCount = s + mixer.cut /\ LeftCount' = s + mixer'.cut /\ s \in Nat
      BY <2>3, <2>6 DEF LeftCount
    <3> HIDE DEF s
    <3> QED
      BY <2>2, <2>4, <2>5, <3>1
  <2> QED
    BY <1>1, <2>2, <2>3, <2>7 DEF Counted
<1> QED
  BY <1>1, <1>2, <1>3

\* The branch of a decoder that has found its pad
LEMMA CountedPadAdded ==
  ASSUME Base, Base', Fall, Counted, NEW i \in Inputs, PadAdded(i)
  PROVE  Counted'
<1>1. PICK R \in SUBSET {<<i, "source">>, <<i, "tee">>, <<i, "sink">>} :
        /\ Refuse(R)
        /\ fed' = IF <<i, "source">> \in R THEN fed ELSE fed \cup {i}
        /\ Grown({i}, i, R)
  BY PadAddedGrows
<1>2. i \in Nat /\ i # 0
  BY PadAddedGrows
<1>3. /\ pc = "playing" /\ pc' = pc /\ mixer' = mixer
      /\ Type(i) = "uridb" /\ state[i] = "Invalid" /\ state' = [state EXCEPT ![i] = "Ready"]
  BY DEF PadAdded
<1> DEFINE dry == <<i, "source">> \in R
           S == R \ {<<i, "source">>}
<1>4. /\ S \in SUBSET ({i} \X {"tee", "sink"})
      /\ Hit({i}, "tee", S) = Hit({i}, "tee", R) /\ Hit({i}, "sink", S) = Hit({i}, "sink", R)
  BY DEF Hit
<1>5. /\ R = (IF dry THEN S \cup {<<i, "source">>} ELSE S) /\ <<i, "source">> \notin S
      /\ dry \in BOOLEAN
  OBVIOUS
<1>6. /\ Unfed' = (IF dry THEN Unfed \cup {i} ELSE Unfed) /\ i \notin Unfed
  <2>1. \A j \in Inputs : state'[j] = IF j = i THEN "Ready" ELSE state[j]
    BY <1>3 DEF Base, GraphTypes
  <2>2. i \notin fed
    BY <1>3 DEF Fall
  <2> QED
    BY <1>1, <1>3, <2>1, <2>2 DEF Unfed
<1> HIDE DEF dry, S
<1>7. /\ IsFiniteSet(S) /\ Cardinality(S) \in Nat
      /\ Cardinality(Unlinked') + Cardinality(OffTee')
           = Cardinality(Unlinked) + Cardinality(OffTee) + Cardinality(S)
  BY <1>1, <1>2, <1>4, CountedBranches
<1>8. Cardinality(R) = Cardinality(S) + (IF dry THEN 1 ELSE 0)
  BY <1>5, <1>7, CardOneMore
<1>9. Cardinality(Unfed') = Cardinality(Unfed) + (IF dry THEN 1 ELSE 0)
  BY <1>5, <1>6, CountedFinite, CardOneMore
<1>10. Unpeered' = Unpeered /\ Unmixed' = Unmixed /\ UnsetPads' = UnsetPads
  BY <1>3 DEF Unpeered, Unmixed, UnsetPads
<1>11. /\ Cardinality(Unlinked) \in Nat /\ Cardinality(OffTee) \in Nat /\ Cardinality(Unpeered) \in Nat
       /\ Cardinality(Unmixed) \in Nat /\ Cardinality(Unfed) \in Nat /\ mixer.cut \in Nat
       /\ refused \in Nat
  BY CountedFinite, NatCard
<1>12. Cardinality(Unlinked') \in Nat /\ Cardinality(OffTee') \in Nat
  <2>1. Base => IsFiniteSet(Unlinked) /\ IsFiniteSet(OffTee)
    BY CountedFinite
  <2>2. (IsFiniteSet(Unlinked) /\ IsFiniteSet(OffTee))'
    BY <2>1, CountedFinite, PTL
  <2> QED
    BY <2>2, NatCard
<1>13. LeftCount = refused /\ refused' = refused + Cardinality(R)
  BY <1>1, <1>3 DEF Counted, Refuse
<1>14. LeftCount' = refused'
  <2> DEFINE u == Cardinality(Unlinked)
             v == Cardinality(Unlinked')
             o == Cardinality(OffTee)
             w == Cardinality(OffTee')
             q == Cardinality(Unpeered)
             m == Cardinality(Unmixed)
             f == Cardinality(Unfed)
             s == Cardinality(S)
             d == IF dry THEN 1 ELSE 0
             c == mixer.cut
  <2>1. /\ LeftCount' = v + w + q + m + (f + d) + c
        /\ refused = u + o + q + m + f + c
        /\ refused' = refused + (s + d)
        /\ v + w = u + o + s
    BY <1>3, <1>7, <1>8, <1>9, <1>10, <1>13 DEF LeftCount
  <2>2. /\ u \in Nat /\ v \in Nat /\ o \in Nat /\ w \in Nat /\ q \in Nat /\ m \in Nat /\ f \in Nat
        /\ s \in Nat /\ d \in Nat /\ c \in Nat
    BY <1>5, <1>7, <1>11, <1>12
  <2> HIDE DEF u, v, o, w, q, m, f, s, d, c
  <2> QED
    BY <2>1, <2>2
<1> QED
  BY <1>3, <1>10, <1>14 DEF Counted

\* Every action keeps the count of refused links
LEMMA CountedStep ==
  ASSUME Base, Base', Fall, Fall', Counted, Next, Len(Config) <= MaxStream
  PROVE  Counted'
<1>1. ASSUME CreateNosignal \/ Create PROVE Counted'
  <2>1. /\ UNCHANGED <<branch, mixer, refused>>
        /\ pc \in {"nosignal", "create"} /\ pc' \in {"create", "request", "crashed"}
    BY <1>1 DEF CreateNosignal, Create
  <2>2. Unfed = {} /\ Unfed' = {}
    BY <2>1, UnfedNone DEF Fall, Unfed
  <2>3. /\ Unlinked' = Unlinked /\ OffTee' = OffTee /\ Unpeered' = Unpeered
        /\ Unmixed' = Unmixed /\ UnsetPads' = UnsetPads
    BY <2>1 DEF Branches, Unlinked, OffTee, Unpeered, Unmixed, UnsetPads
  <2>4. LeftCount' = LeftCount
    BY <2>1, <2>2, <2>3 DEF LeftCount
  <2> QED
    BY <2>1, <2>3, <2>4 DEF Counted
<1>2. ASSUME RequestPad PROVE Counted'
  BY <1>2, CountedRequest
<1>3. ASSUME RequestNoPad \/ OutputOfBrokenMixer \/ Play PROVE Counted'
  BY <1>3, CountedStay DEF RequestNoPad, OutputOfBrokenMixer, Play, graphVars
<1>4. ASSUME Output PROVE Counted'
  <2>1. Cardinality({"output"}) = 1
    BY FS_Singleton
  <2>2. refused' = refused \/ (pc' = "failed" /\ refused' = refused + 1)
    BY <1>4, <2>1 DEF Output, Refuse
  <2>3. UNCHANGED <<state, fed, branch, mixer>> /\ pc = "output"
    BY <1>4 DEF Output, graphVars
  <2> QED
    BY <2>2, <2>3, CountedStay
<1>5. ASSUME ConnectStream PROVE Counted'
  BY <1>5, CountedJoin
<1>6. ASSUME ConnectNothing PROVE Counted'
  BY <1>6, CountedCut
<1>7. ASSUME NEW i \in Inputs, PadAdded(i) PROVE Counted'
  BY <1>7, CountedPadAdded
<1> QED
  BY <1>1, <1>2, <1>3, <1>4, <1>5, <1>6, <1>7 DEF Next

(***************************************************************************)
(* What failures leave is accounted for: for any list of at most           *)
(* kVideomixMaxStream inputs, whatever plugins are missing and however     *)
(* many links are refused, each refused link has left one thing in the     *)
(* graph, each stream the mixer does not record one pad without a region,  *)
(* and elements are in no bin only when a plugin is missing or the output  *)
(* failed.                                                                 *)
(***************************************************************************)
THEOREM LeftoversExplainedHolds ==
  ASSUME Len(Config) <= MaxStream
  PROVE  Spec => []LeftoversExplained
<1>1. Base /\ Base' /\ Fall /\ Counted /\ [Next]_vars => Fall' /\ Counted'
  <2>1. ASSUME Fall, Counted, UNCHANGED vars PROVE Fall' /\ Counted'
    BY <2>1 DEF vars, graphVars, Fall, Counted, LeftCount, Branches, Unlinked, OffTee, Unpeered,
                Unmixed, Unfed, UnsetPads
  <2>2. ASSUME Base, Base', Fall, Counted, Next PROVE Fall' /\ Counted'
    <3>1. Fall'
      BY <2>2, FallStep
    <3> QED
      BY <2>2, <3>1, CountedStep
  <2> QED
    BY <2>1, <2>2
<1>2. ASSUME Base, Fall, Counted PROVE LeftoversExplained
  <2>1. loose > 0 => missing # {} \/ pc = "failed"
    BY <1>2 DEF Fall
  <2> QED
    BY <1>2, <2>1 DEF Counted, LeftCount, UnsetPads, LeftoversExplained
<1> QED
  BY <1>1, <1>2, InitBase, InitFall, BaseInvariant, PTL DEF Spec
=============================================================================
