------------------------------ MODULE Pipeline ------------------------------
(***************************************************************************)
(* How the pipeline of matrix/ is put together: main makes the mixer and,  *)
(* in MediaMatrix::init, each input with its pad of the input module; the  *)
(* worker of MediaMatrix connects those pads to the mixer and starts the   *)
(* pipeline; the decoder of a URI input finds its pad when it plays.       *)
(*                                                                         *)
(* Two things go wrong: the plugin of an element may be missing, which     *)
(* makes gst_element_factory_make return NULL, and gst_pad_link may be     *)
(* refused.  The code mostly logs both and goes on.  Each action is one    *)
(* operation: the threads follow each other until the pipeline plays, and  *)
(* what they interleave afterwards is in InputModule.  Input 0 is the "no  *)
(* signal" image.                                                          *)
(***************************************************************************)
EXTENDS GhostPads, VideoMixer, InputBins

CONSTANTS
  Config,      \* the types of the inputs, in the order main creates them
  MayLack,     \* the kinds of elements whose plugin may be missing
  MaxLacking,  \* bound on the kinds that are missing
  MaxRefused   \* bound on the pad links that are refused

ASSUME PipelineAssumption ==
  /\ Config \in Seq({"hdmi", "uridb"}) /\ Config # <<>>
  /\ MaxLacking \in Nat /\ MaxRefused \in Nat

Inputs == 0..Len(Config)
Type(i) == IF i = 0 THEN "image" ELSE Config[i]

VARIABLES
  missing,   \* the kinds of elements whose plugin is missing
  usage,     \* the mixer that VideoMixer::create makes
  refused,   \* the number of links refused
  pc,        \* the operation to come, "failed" or "crashed"
  at,        \* the input it is about
  locked,    \* create() has left lock_core_ to main
  state,     \* state_ of each input
  fed,       \* the inputs whose source is linked as far as its tee
  branch,    \* the branches of each input: linked to the tee, and their peer, a sink
             \* <<n, t>> of the selector of switch n: t is 0 main, 1 fallback
  switches,  \* the switches: their input (stream_main_), is_link_mainstream_, and
             \* the selector's active-pad (2 when none was set)
  pads,      \* inpad_video_padmanage_: the module pad of each switch
  mixer,     \* the mixer
  loose      \* the elements that are in no bin

graphVars == <<state, fed, branch, switches, pads, mixer>>
vars == <<missing, usage, refused, pc, at, locked, graphVars, loose>>

Has(elements) == Available(elements, missing)
Forget(elements) == Forgotten(elements, missing)

NoPeer == <<0, 0>>

Init ==
  /\ missing \in {m \in SUBSET MayLack : Cardinality(m) <= MaxLacking}
  /\ usage \in Usages
  /\ refused = 0 /\ pc = "nosignal" /\ at = 1 /\ locked = FALSE
  /\ state = [i \in Inputs |-> "Invalid"]
  /\ fed = {}
  /\ branch = [i \in Inputs |-> <<>>]
  /\ switches = <<>> /\ pads = <<>>
  /\ mixer = NewMixer
  /\ loose = 0

-----------------------------------------------------------------------------
(* main: the input module, the mixer and MediaMatrix::init *)

\* create_indev_nosignal, in the constructor of MediaInputModule, then the init()
\* of the mixer, whose result is ignored: its bin joins the pipeline all the same.
\* When it fails it calls deinit(), which ends without a return statement.
CreateNosignal ==
  LET ok == Has(SourceElements("image"))
  IN  /\ pc = "nosignal"
      /\ pc' \in {"create"} \cup (IF Has(MixerElements(usage)) THEN {} ELSE {"crashed"})
      /\ state' = [state EXCEPT ![0] = StateAfterInit("image", ok)]
      /\ fed' = IF ok THEN {0} ELSE {}
      /\ loose' = Forget(SourceElements("image")) + (IF ok THEN 0 ELSE 1)
                    + Forget(MixerElements(usage))
      /\ UNCHANGED <<missing, usage, refused, at, locked, branch, switches, pads, mixer>>

\* MediaInputModule::create; an input whose init() failed stays out of the bin.
Create ==
  LET elements == SourceElements(Type(at))
      ok == Has(elements)
  IN  /\ pc = "create"
      /\ pc' = "request"
      /\ locked' = (locked \/ ~ok)
      /\ state' = [state EXCEPT ![at] = StateAfterInit(Type(at), ok)]
      /\ fed' = IF ok /\ Type(at) = "hdmi" THEN fed \cup {at} ELSE fed
      /\ loose' = loose + Forget(elements) + (IF ok THEN 0 ELSE 1)
      /\ UNCHANGED <<missing, usage, refused, at, branch, switches, pads, mixer>>

\* get_request_pad of input i gives a pad.
Gives(i) == state[i] # "Invalid" /\ Has(BranchElements(Type(i)))

\* The new branch of input i for sink t of switch n, without the links in R.
Branched(i, n, t, R) ==
  IF Gives(i)
  THEN [branch EXCEPT ![i] =
          Append(@, [tee |-> <<i, "tee">> \notin R,
                     peer |-> IF <<i, "sink">> \in R THEN NoPeer ELSE <<n, t>>])]
  ELSE branch

\* The links tried when input i is connected to a selector.
Tried(i) == IF Gives(i) THEN {<<i, "tee">>, <<i, "sink">>} ELSE {}

\* Some of the links tried are refused.
Refuse(R) ==
  /\ refused + Cardinality(R) <= MaxRefused
  /\ refused' = refused + Cardinality(R)

\* The switch of input i: get_request_pad looks it up by the name of its stream.
SwitchOf(i) == {n \in DOMAIN switches : switches[n].main = i}

\* The sink that active-pad is set to: the main stream once it is linked, the image
\* only without it.
FirstShownMain(main, image) == IF main THEN 0 ELSE 2

FirstShown(main, image) == IF main THEN 0 ELSE IF image THEN 1 ELSE 2

\* create_video_src_pad with a new switch: connect() links the input's pad to
\* sink_0 if the input gives one, and the image's to sink_1.
RequestPadAt(R) ==
  LET n == Len(switches) + 1
      main == Gives(at) /\ <<at, "sink">> \notin R
      image == Gives(0) /\ <<0, "sink">> \notin R
  IN  /\ R \subseteq Tried(at) \cup Tried(0)
      /\ Refuse(R)
      /\ branch' = [Branched(at, n, 0, R) EXCEPT ![0] = Branched(0, n, 1, R)[0]]
      /\ switches' = Append(switches,
           [main |-> at, link |-> main, active |-> FirstShown(main, image)])
      /\ pads' = AddPad(pads, <<"queue", n>>)
      /\ loose' = loose + Forget(BranchElements(Type(at))) * (IF state[at] = "Invalid" THEN 0 ELSE 1)
                    + Forget(BranchElements("image")) * (IF state[0] = "Invalid" THEN 0 ELSE 1)
      /\ pc' = IF at = Len(Config) THEN "output" ELSE "create"
      /\ at' = IF at = Len(Config) THEN at ELSE at + 1
      /\ UNCHANGED <<missing, usage, locked, state, fed, mixer>>

RequestPad ==
  /\ pc = "request"
  /\ SwitchOf(at) = {}
  /\ Has(<<"input-selector", "queue">>)
  /\ \E R \in SUBSET (Inputs \X {"tee", "sink"}) : RequestPadAt(R)

\* A switch without its selector or queue has no pad, whose name is asked for.
RequestNoPad ==
  /\ pc = "request"
  /\ ~Has(<<"input-selector", "queue">>)
  /\ pc' = "crashed"
  /\ loose' = loose + Forget(<<"input-selector", "queue">>)
  /\ UNCHANGED <<missing, usage, refused, at, locked, graphVars>>

OutputElements == <<"kmssink", "tee", "queue", "videoconvert", "capsfilter">>

\* OutputImplKms and the link from the mixer to it, after which main sends
\* IMSG_PIPE_SET_PLAYING; without the plugin, the device or the link, init() fails.
Output ==
  /\ pc = "output"
  /\ Has(MixerElements(usage))
  /\ \/ Has(OutputElements) /\ pc' = "connect" /\ UNCHANGED <<refused, loose>>
     \/ pc' = "failed" /\ loose' = loose + Made(OutputElements, missing) /\ UNCHANGED refused
     \/ /\ Has(OutputElements) /\ pc' = "failed"
        /\ Refuse({"output"}) /\ UNCHANGED loose
  /\ at' = 1
  /\ UNCHANGED <<missing, usage, locked, graphVars>>

\* A mixer whose init() failed early never assigned queue_, which get_request_pad
\* takes the output pad from: it may crash, or find no pad.
OutputOfBrokenMixer ==
  /\ pc = "output"
  /\ ~Has(MixerElements(usage))
  /\ pc' \in {"failed", "crashed"}
  /\ loose' = loose + Forget(OutputElements)
  /\ UNCHANGED <<missing, usage, refused, at, locked, graphVars>>

-----------------------------------------------------------------------------
(* The worker of MediaMatrix: IMSG_PIPE_SET_PLAYING, input by input *)

\* The pad the module gives for the input in hand.
ModulePad == PadOf(pads, <<"queue", CHOOSE n \in SwitchOf(at) : TRUE>>)

NextInput ==
  /\ pc' = IF at = Len(Config) THEN "play" ELSE "connect"
  /\ at' = IF at = Len(Config) THEN at ELSE at + 1

\* connect() and the link of the module's pad to the ghost pad it made, which is
\* tried also when connect() has failed after that.
ConnectStream ==
  /\ pc = "connect" /\ ~locked
  /\ SwitchOf(at) # {}
  /\ Accepts(mixer, ModulePad)
  /\ Has(MixerBranch(usage))
  /\ \E R \in SUBSET {"mix", "ghost"} :
       LET connected == Connect(mixer, ModulePad, ThreeScreen(at - 1), "mix" \in R)
       IN  /\ Refuse(R)
           /\ mixer' = IF "ghost" \in R THEN connected ELSE LinkGhost(connected, ModulePad)
  /\ NextInput
  /\ UNCHANGED <<missing, usage, locked, state, fed, branch, switches, pads, loose>>

\* When connect() fails before it makes a ghost pad, sink_pad_ is what the stack
\* of init() held: NULL, and the input is skipped, or not, and GStreamer is given
\* a pointer to nothing.
ConnectNothing ==
  /\ pc = "connect" /\ ~locked
  /\ SwitchOf(at) # {}
  /\ \/ /\ ~(Accepts(mixer, ModulePad) /\ Has(MixerBranch(usage)))
        /\ loose' = loose + (IF Accepts(mixer, ModulePad) THEN Forget(MixerBranch(usage)) ELSE 0)
        /\ UNCHANGED <<refused, mixer>>
     \/ /\ Accepts(mixer, ModulePad) /\ Has(MixerBranch(usage)) /\ usage = "glvm"
        /\ Refuse({"branch"}) /\ mixer' = ConnectCut(mixer)
        /\ UNCHANGED loose
  /\ NextInput \/ (pc' = "crashed" /\ UNCHANGED at)
  /\ UNCHANGED <<missing, usage, locked, state, fed, branch, switches, pads>>

\* gst_element_set_state(pipeline_, PLAYING)
Play ==
  /\ pc = "play"
  /\ pc' = "playing"
  /\ UNCHANGED <<missing, usage, refused, at, locked, graphVars, loose>>

-----------------------------------------------------------------------------
(* The decoder of a URI input *)

\* on_uridb_pad_added: the pad is linked to videoconvert, whose refusal is logged,
\* and reconnect links a new branch to sink_0 of the input's switch and shows it.
PadAddedLinks(i, R) ==
  LET n == CHOOSE n \in SwitchOf(i) : TRUE
  IN  /\ Refuse(R)
      /\ fed' = IF <<i, "source">> \in R THEN fed ELSE fed \cup {i}
      /\ branch' = [branch EXCEPT ![i] =
           Append(@, [tee |-> <<i, "tee">> \notin R,
                      peer |-> IF <<i, "sink">> \in R THEN NoPeer ELSE <<n, 0>>])]
      /\ switches' = IF <<i, "sink">> \in R THEN switches
                     ELSE [switches EXCEPT ![n].link = TRUE, ![n].active = 0]

PadAdded(i) ==
  /\ pc = "playing"
  /\ Type(i) = "uridb" /\ state[i] = "Invalid"
  /\ state' = [state EXCEPT ![i] = "Ready"]
  /\ \E R \in SUBSET {<<i, "source">>, <<i, "tee">>, <<i, "sink">>} : PadAddedLinks(i, R)
  /\ UNCHANGED <<missing, usage, pc, at, locked, pads, mixer, loose>>

-----------------------------------------------------------------------------
Next ==
  \/ CreateNosignal \/ Create
  \/ RequestPad \/ RequestNoPad
  \/ Output \/ OutputOfBrokenMixer
  \/ ConnectStream \/ ConnectNothing
  \/ Play
  \/ \E i \in Inputs : PadAdded(i)

Spec == Init /\ [][Next]_vars

-----------------------------------------------------------------------------
(* Properties *)

\* The ghost pads through which a module pad reaches a compositor pad.
Routed == {g \in DOMAIN mixer.ghosts : mixer.ghosts[g].peer # 0 /\ mixer.ghosts[g].behind # 0}

Region(g) == mixer.pads[mixer.ghosts[g].behind]

Disjoint(r, s) ==
  r.x + r.w <= s.x \/ s.x + s.w <= r.x \/ r.y + r.h <= s.y \/ s.y + s.h <= r.y

OnScreen(r) == r.x + r.w <= ScreenWidth /\ r.y + r.h <= ScreenHeight

\* Followed from a region of the screen back through the mixer, the module and the
\* selector, each path ends at the input the layout gives that region, or at the
\* image, and regions neither overlap nor leave the screen: the pads that init()
\* and the worker asked for by name are the same, whatever failed in between.
RegionShowsItsInput ==
  /\ \A g \in Routed :
       LET n == pads[mixer.ghosts[g].peer][2]
       IN  /\ Region(g) = ThreeScreen(switches[n].main - 1)
           /\ OnScreen(Region(g))
           /\ \A i \in Inputs : \A b \in DOMAIN branch[i] :
                branch[i][b].peer[1] = n
                  => i = IF branch[i][b].peer[2] = 0 THEN switches[n].main ELSE 0
  /\ \A g, h \in Routed : g # h => Disjoint(Region(g), Region(h))
  /\ pc = "playing" /\ missing = {} /\ refused = 0 => Cardinality(Routed) = Len(Config)

\* The branches of input i on sink t of switch n.
On(i, n, t) == {b \in DOMAIN branch[i] : branch[i][b].peer = <<n, t>>}

ImageElements == Kinds(SourceElements("image")) \cup Kinds(BranchElements("image"))

\* A selector is set to a sink that one branch is linked to, its switch knows
\* whether the main one is, and as long as the image can be decoded and no link
\* was refused that branch delivers: what connect() with its fallback is for.
SelectorHasStream ==
  \A n \in DOMAIN switches :
     LET s == switches[n]
         shown == IF s.active = 0 THEN s.main ELSE 0
     IN  /\ s.link <=> On(s.main, n, 0) # {}
         /\ s.active # 2 => Cardinality(On(shown, n, s.active)) = 1
         /\ ImageElements \cap missing = {} /\ refused = 0
              => /\ s.active # 2
                 /\ shown \in fed
                 /\ \A b \in On(shown, n, s.active) : branch[shown][b].tee

Branches == {x \in Inputs \X (1..Len(Config)) : x[2] \in DOMAIN branch[x[1]]}
Unlinked == {x \in Branches : branch[x[1]][x[2]].peer = NoPeer}
OffTee == {x \in Branches : ~branch[x[1]][x[2]].tee}

Unpeered == {g \in DOMAIN mixer.ghosts : mixer.ghosts[g].peer = 0}
Unmixed == {g \in DOMAIN mixer.ghosts : mixer.ghosts[g].behind = 0}
Unfed == {i \in Inputs : Type(i) = "uridb" /\ state[i] = "Ready" /\ i \notin fed}

\* Nothing is undone when a step fails, but what a failure leaves is one thing: an
\* unlinked pad for each refused link, a compositor pad without region for each
\* stream the mixer does not record, and elements in no bin only when a plugin or
\* the output is missing.
LeftoversExplained ==
  /\ Cardinality(Unlinked) + Cardinality(OffTee) + Cardinality(Unpeered)
       + Cardinality(Unmixed) + Cardinality(Unfed) + mixer.cut
       \in IF pc = "failed" THEN {refused, refused - 1} ELSE {refused}
  /\ Cardinality({p \in DOMAIN mixer.pads : mixer.pads[p] = Unset}) = Cardinality(Unmixed)
  /\ Cardinality(mixer.streams) = Len(mixer.ghosts) - Cardinality(Unmixed)
  /\ loose > 0 => missing # {} \/ pc = "failed"

\* A refused link or a missing plugin does not end the program by a pointer that is
\* NULL or was never set, but for the elements of a switch, those of the mixer and
\* a branch of VideoMixerGlvm that falls apart.
CrashesOnlyIf ==
  pc = "crashed" =>
    \/ mixer.cut > 0
    \/ ({"input-selector"} \cup Kinds(MixerElements(usage)) \cup Kinds(MixerBranch(usage)))
          \cap missing # {}
=============================================================================
