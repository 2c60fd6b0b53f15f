---------------------------- MODULE InputModule ----------------------------
(***************************************************************************)
(* The input module of matrix/: MediaInputModule, an InputPadSwitch for    *)
(* each input, which shows the input's stream or the "no signal" image,    *)
(* and the inputs, a URI decoder or an HDMI capture.                       *)
(*                                                                         *)
(* Five kinds of threads meet here: main, which creates the inputs; the    *)
(* worker of MediaMatrix, which requests their pads; the streaming thread  *)
(* of a decoder, which reports a new pad or the end of the stream; the bus *)
(* thread, which handles errors; the worker of MediaInputModule, which     *)
(* restarts a failed input.  Only create and create_video_src_pad take     *)
(* lock_core_; a step is what a thread does between two accesses to what   *)
(* another one uses.  GStreamer is external: when a source finds its pad,  *)
(* ends or fails is a free choice.                                         *)
(***************************************************************************)
EXTENDS Naturals, Sequences, FiniteSets

CONSTANTS
  Uridb,        \* the inputs of type MediaInputImplUridb
  Hdmi,         \* the inputs of type MediaInputImplHdmi
  InitMayFail,  \* the inputs whose init() may fail
  MaxErrors     \* bound on the error messages the sources post

Inputs == Uridb \cup Hdmi

ASSUME InputsAssumption ==
  /\ Uridb \cap Hdmi = {}
  /\ InitMayFail \subseteq Inputs
  /\ MaxErrors \in Nat

VARIABLES
  created,      \* the inputs main has created
  inited,       \* those whose init() succeeded: they are in the bin
  requested,    \* those whose pad main has requested: they have a switch
  lockCore,     \* lock_core_: "free", or "main" when create() left it locked
  todo,         \* the pads the worker of MediaMatrix has still to connect
  mpc,          \* that worker: "idle", "connect" or "playing"
  state,        \* state_ of each input
  source,       \* what its source is doing
  fed,          \* the source's pad is linked to the rest of the input
  videoLinked,  \* video_linked_
  paused,       \* its bin_ is set to PAUSED: whatever the source does stands still
  cb,           \* where the pad-added callback of the input is, or that it crashed
  linkMain,     \* is_link_mainstream_ of the input's switch
  currMain,     \* is_curr_mainstream_
  sinks,        \* the sink pads of its selector that are linked, 0 main 1 fallback
  active,       \* its active-pad: 2 when none was set
  bus,          \* the errors on the bus, by the input they come from
  bpc,          \* where the bus thread is
  retry,        \* the IMSG_INPUT_DEVICE_RETRY messages on their way, per input
  wpc,          \* where the worker of MediaInputModule is: with which input
  errors,       \* the number of errors posted
  overlap       \* history: an error was handled while the callback was running

setupVars == <<created, inited, requested, lockCore, todo, mpc>>
inputVars == <<source, fed, videoLinked, paused, cb>>
switchVars == <<linkMain, currMain, sinks, active>>
vars == <<setupVars, inputVars, switchVars, state, bus, bpc, retry, wpc, errors, overlap>>

Init ==
  /\ created = {} /\ inited = {} /\ requested = {}
  /\ lockCore = "free" /\ todo = {} /\ mpc = "idle"
  /\ state = [i \in Inputs |-> "Invalid"]
  /\ source = [i \in Inputs |-> "off"]
  /\ fed = [i \in Inputs |-> FALSE]
  /\ videoLinked = [i \in Inputs |-> FALSE]
  /\ paused = [i \in Inputs |-> FALSE]
  /\ cb = [i \in Inputs |-> "idle"]
  /\ linkMain = [i \in Inputs |-> FALSE]
  /\ currMain = [i \in Inputs |-> FALSE]
  /\ sinks = [i \in Inputs |-> {}]
  /\ active = [i \in Inputs |-> 2]
  /\ bus = <<>> /\ bpc = <<"idle">>
  /\ retry = [i \in Inputs |-> 0]
  /\ wpc = <<"idle">>
  /\ errors = 0
  /\ overlap = [i \in Inputs |-> FALSE]

-----------------------------------------------------------------------------
(* main: MediaMatrix::init creates each input and requests its pad *)

\* lock_core_ is recursive: what main has left locked does not stop main.  A URI
\* input stays Invalid until it has a pad.
Create(i, ok) ==
  /\ created \subseteq requested
  /\ i \notin created
  /\ ok \/ i \in InitMayFail
  /\ created' = created \cup {i}
  /\ inited' = IF ok THEN inited \cup {i} ELSE inited
  /\ lockCore' = IF ok THEN lockCore ELSE "main"
  /\ state' = IF ok /\ i \in Hdmi THEN [state EXCEPT ![i] = "Ready"] ELSE state
  /\ UNCHANGED <<requested, todo, mpc, inputVars, switchVars, bus, bpc, retry, wpc,
                 errors, overlap>>

\* create_video_src_pad for a new input: a switch, the input connected to its
\* sink_0 if the input has a pad to give, the image to sink_1.  The last one is
\* followed by IMSG_PIPE_SET_PLAYING.
RequestPad(i) ==
  LET main == state[i] # "Invalid"
  IN  /\ i \in created \ requested
      /\ requested' = requested \cup {i}
      /\ linkMain' = [linkMain EXCEPT ![i] = main]
      /\ currMain' = [currMain EXCEPT ![i] = main]
      /\ sinks' = [sinks EXCEPT ![i] = IF main THEN {0, 1} ELSE {1}]
      /\ active' = [active EXCEPT ![i] = IF main THEN 0 ELSE 1]
      /\ IF requested' = Inputs
         THEN mpc' = "connect" /\ todo' = Inputs
         ELSE UNCHANGED <<mpc, todo>>
      /\ UNCHANGED <<created, inited, lockCore, inputVars, state, bus, bpc, retry, wpc,
                     errors, overlap>>

-----------------------------------------------------------------------------
(* The worker of MediaMatrix: IMSG_PIPE_SET_PLAYING *)

\* create_video_src_pad for an input that has its switch.
RequestAgain(i) ==
  /\ mpc = "connect"
  /\ i \in todo
  /\ lockCore = "free"
  /\ todo' = todo \ {i}
  /\ UNCHANGED <<created, inited, requested, lockCore, mpc, inputVars, switchVars,
                 state, bus, bpc, retry, wpc, errors, overlap>>

\* gst_element_set_state(pipeline_, PLAYING) starts the sources.
StartPipeline ==
  /\ mpc = "connect"
  /\ todo = {}
  /\ mpc' = "playing"
  /\ source' = [i \in Inputs |-> IF i \notin inited THEN "off"
                                 ELSE IF i \in Uridb THEN "decoding" ELSE "flowing"]
  /\ UNCHANGED <<created, inited, requested, lockCore, todo, fed, videoLinked, paused, cb,
                 switchVars, state, bus, bpc, retry, wpc, errors, overlap>>

-----------------------------------------------------------------------------
(* The streaming thread of a URI decoder *)

\* on_uridb_pad_added; a decoder that was restarted exposes a new pad.
PadAddedStateLate(i) ==
  /\ source[i] = "decoding"
  /\ i \in Uridb
  /\ source' = [source EXCEPT ![i] = IF videoLinked[i] THEN "flowing" ELSE "exposing"]
  /\ cb' = [cb EXCEPT ![i] = IF videoLinked[i] THEN "idle" ELSE "handle"]
  /\ overlap' = [overlap EXCEPT ![i] = @ \/ bpc = <<"invalidate", i>>]
  /\ UNCHANGED <<setupVars, fed, videoLinked, paused, switchVars, state, bus, bpc,
                 retry, wpc, errors>>

PadAdded(i) ==
  /\ source[i] = "decoding"
  /\ i \in Uridb
  /\ state' = [state EXCEPT ![i] = "Ready"]
  /\ source' = [source EXCEPT ![i] = IF videoLinked[i] THEN "flowing" ELSE "exposing"]
  /\ cb' = [cb EXCEPT ![i] = IF videoLinked[i] THEN "idle" ELSE "handle"]
  /\ overlap' = [overlap EXCEPT ![i] = @ \/ bpc = <<"invalidate", i>>]
  /\ UNCHANGED <<setupVars, fed, videoLinked, paused, switchVars, bus, bpc, retry,
                 wpc, errors>>

\* inter_handle_video_pad links the pad to videoconvert.
HandleVideoPad(i) ==
  /\ cb[i] = "handle"
  /\ fed' = [fed EXCEPT ![i] = TRUE]
  /\ cb' = [cb EXCEPT ![i] = "request"]
  /\ UNCHANGED <<setupVars, source, videoLinked, paused, switchVars, state, bus, bpc,
                 retry, wpc, errors, overlap>>

\* reconnect asks the input for a pad: get_request_pad refuses when the state is
\* Invalid.
Reconnect(i) ==
  /\ cb[i] = "request"
  /\ cb' = [cb EXCEPT ![i] = IF state[i] = "Invalid" THEN "linked" ELSE "video_pad"]
  /\ UNCHANGED <<setupVars, source, fed, videoLinked, paused, switchVars, state, bus,
                 bpc, retry, wpc, errors, overlap>>

\* inter_get_video_pad when a pad it did not make is taken for linked.
GetVideoPadIgnored(i) ==
  /\ cb[i] = "video_pad"
  /\ sinks' = IF state[i] = "Invalid" THEN sinks ELSE [sinks EXCEPT ![i] = @ \cup {0}]
  /\ cb' = [cb EXCEPT ![i] = "switch"]
  /\ UNCHANGED <<setupVars, source, fed, videoLinked, paused, linkMain, currMain,
                 active, state, bus, bpc, retry, wpc, errors, overlap>>

\* inter_get_video_pad reads the state again and, when it has become Invalid,
\* returns a pointer it never assigned.  GStreamer refuses to link it when it is
\* NULL, no pad or a pad that is linked, as the one an earlier call left on the
\* stack; when it cannot be read at all the program ends here.
GetVideoPad(i) ==
  /\ cb[i] = "video_pad"
  /\ IF state[i] = "Invalid"
     THEN /\ \E outcome \in {"linked", "crashed"} : cb' = [cb EXCEPT ![i] = outcome]
          /\ UNCHANGED sinks
     ELSE /\ sinks' = [sinks EXCEPT ![i] = @ \cup {0}]
          /\ cb' = [cb EXCEPT ![i] = "switch"]
  /\ UNCHANGED <<setupVars, source, fed, videoLinked, paused, linkMain, currMain, active,
                 state, bus, bpc, retry, wpc, errors, overlap>>

ReconnectSwitch(i) ==
  /\ cb[i] = "switch"
  /\ linkMain' = [linkMain EXCEPT ![i] = TRUE]
  /\ currMain' = [currMain EXCEPT ![i] = TRUE]
  /\ active' = [active EXCEPT ![i] = 0]
  /\ cb' = [cb EXCEPT ![i] = "linked"]
  /\ UNCHANGED <<setupVars, source, fed, videoLinked, paused, sinks, state, bus, bpc,
                 retry, wpc, errors, overlap>>

\* The signal has returned.
VideoLinked(i) ==
  /\ cb[i] = "linked"
  /\ videoLinked' = [videoLinked EXCEPT ![i] = TRUE]
  /\ source' = [source EXCEPT ![i] = "flowing"]
  /\ cb' = [cb EXCEPT ![i] = "idle"]
  /\ UNCHANGED <<setupVars, fed, paused, switchVars, state, bus, bpc, retry, wpc,
                 errors, overlap>>

\* on_handle_end_of_stream: the probe drops the event and the switch falls back.
EndOfStream(i) ==
  /\ source[i] = "flowing"
  /\ fed[i]
  /\ source' = [source EXCEPT ![i] = "ended"]
  /\ active' = [active EXCEPT ![i] = 1]
  /\ UNCHANGED <<setupVars, fed, videoLinked, paused, cb, linkMain, currMain, sinks,
                 state, bus, bpc, retry, wpc, errors, overlap>>

\* The program has not crashed.
Alive == \A i \in Inputs : cb[i] # "crashed"

Callback(i) ==
  /\ Alive
  /\ \/ PadAdded(i) \/ HandleVideoPad(i)
     \/ Reconnect(i) \/ GetVideoPad(i) \/ ReconnectSwitch(i)
     \/ VideoLinked(i)

-----------------------------------------------------------------------------
(* Errors: the bus thread *)

\* An element of the input posts an error; its streaming stops, unless it is
\* another stream that fails while the callback runs.
SourceError(i) ==
  /\ source[i] \in {"decoding", "exposing", "flowing", "failed"}
  /\ errors < MaxErrors
  /\ errors' = errors + 1
  /\ bus' = Append(bus, i)
  /\ source' = IF source[i] = "exposing" THEN source
               ELSE [source EXCEPT ![i] = "failed"]
  /\ UNCHANGED <<setupVars, fed, videoLinked, paused, cb, switchVars, state, bpc,
                 retry, wpc, overlap>>

\* MediaInputModule::handle_bus_msg_error, first the switch.
ErrorSwitchForgotten ==
  /\ bpc = <<"idle">>
  /\ bus # <<>>
  /\ bpc' = <<"invalidate", Head(bus)>>
  /\ bus' = Tail(bus)
  /\ overlap' = [overlap EXCEPT ![Head(bus)] = @ \/ cb[Head(bus)] # "idle"]
  /\ UNCHANGED <<setupVars, inputVars, switchVars, state, retry, wpc, errors>>

ErrorSwitch ==
  /\ bpc = <<"idle">>
  /\ bus # <<>>
  /\ bpc' = <<"invalidate", Head(bus)>>
  /\ bus' = Tail(bus)
  /\ active' = [active EXCEPT ![Head(bus)] = 1]
  /\ overlap' = [overlap EXCEPT ![Head(bus)] = @ \/ cb[Head(bus)] # "idle"]
  /\ UNCHANGED <<setupVars, inputVars, linkMain, currMain, sinks, state, retry, wpc,
                 errors>>

\* handle_bus_msg_error of the input: the state, and bin_ to PAUSED.
ErrorInvalidate(i) ==
  /\ bpc = <<"invalidate", i>>
  /\ state' = [state EXCEPT ![i] = "Invalid"]
  /\ paused' = [paused EXCEPT ![i] = TRUE]
  /\ overlap' = [overlap EXCEPT ![i] = @ \/ cb[i] # "idle"]
  /\ bpc' = <<"retry", i>>
  /\ UNCHANGED <<setupVars, source, fed, videoLinked, cb, switchVars, bus, retry, wpc,
                 errors>>

\* The retry message, delayed by 5 s; then the pipeline is set to PLAYING, which
\* reaches the bins in it up to the first that fails and may set a failed capture
\* going again.
ErrorRetryForgotten(i) ==
  /\ bpc = <<"retry", i>>
  /\ bpc' = <<"idle">>
  /\ UNCHANGED <<setupVars, inputVars, switchVars, state, bus, retry, wpc, errors,
                 overlap>>

ErrorRetry(i) ==
  /\ bpc = <<"retry", i>>
  /\ retry' = [retry EXCEPT ![i] = @ + 1]
  /\ \E playing \in SUBSET Inputs :
       /\ paused' = [j \in Inputs |-> paused[j] /\ j \notin playing]
       /\ \/ UNCHANGED source
          \/ /\ i \in Hdmi \cap playing /\ source[i] = "failed"
             /\ source' = [source EXCEPT ![i] = "flowing"]
  /\ bpc' = <<"idle">>
  /\ UNCHANGED <<setupVars, fed, videoLinked, cb, switchVars, state, bus, wpc,
                 errors, overlap>>

BusStep ==
  /\ Alive
  /\ ErrorSwitch \/ \E i \in Inputs : ErrorInvalidate(i) \/ ErrorRetry(i)

-----------------------------------------------------------------------------
(* The worker of MediaInputModule: IMSG_INPUT_DEVICE_RETRY calls start() *)

\* A state change that fails posts an error, as the elements of GStreamer do.
PostError(i) ==
  /\ errors < MaxErrors
  /\ errors' = errors + 1
  /\ bus' = Append(bus, i)

\* bin_ is PLAYING.
Plays(i) == paused' = [paused EXCEPT ![i] = FALSE]

\* MediaInputImplHdmi::start sets the state first, to PLAYING after it
RetryHdmiStateless(i) ==
  /\ wpc = <<"idle">>
  /\ i \in Hdmi /\ retry[i] > 0
  /\ retry' = [retry EXCEPT ![i] = @ - 1]
  /\ wpc' = <<"start", i>>
  /\ UNCHANGED <<setupVars, inputVars, switchVars, state, bus, bpc, errors, overlap>>

RetryHdmiUnasked(i) ==
  /\ wpc = <<"idle">>
  /\ i \in Hdmi
  /\ retry' = [retry EXCEPT ![i] = @ - 1]
  /\ state' = [state EXCEPT ![i] = "Playing"]
  /\ wpc' = <<"start", i>>
  /\ UNCHANGED <<setupVars, inputVars, switchVars, bus, bpc, errors, overlap>>

RetryHdmi(i) ==
  /\ wpc = <<"idle">>
  /\ i \in Hdmi /\ retry[i] > 0
  /\ retry' = [retry EXCEPT ![i] = @ - 1]
  /\ state' = [state EXCEPT ![i] = "Playing"]
  /\ wpc' = <<"start", i>>
  /\ UNCHANGED <<setupVars, inputVars, switchVars, bus, bpc, errors, overlap>>

\* the bin and then the source, either of which may fail.
StartHdmi(i) ==
  /\ wpc = <<"start", i>>
  /\ i \in Hdmi
  /\ \/ /\ source' = [source EXCEPT ![i] = "flowing"]
        /\ Plays(i)
        /\ UNCHANGED <<bus, errors>>
     \/ PostError(i) /\ UNCHANGED source /\ (Plays(i) \/ UNCHANGED paused)
  /\ wpc' = <<"idle">>
  /\ UNCHANGED <<setupVars, fed, videoLinked, cb, switchVars, state, bpc,
                 retry, overlap>>

\* MediaInputImplUridb::start sets the bin to PLAYING and gives up when that fails;
RetryUridb(i) ==
  /\ wpc = <<"idle">>
  /\ i \in Uridb /\ retry[i] > 0
  /\ retry' = [retry EXCEPT ![i] = @ - 1]
  /\ \/ wpc' = <<"reset", i>> /\ Plays(i) /\ UNCHANGED <<bus, errors>>
     \/ PostError(i) /\ UNCHANGED <<wpc, paused>>
  /\ UNCHANGED <<setupVars, source, fed, videoLinked, cb, switchVars, state, bpc, overlap>>

\* then its source to READY, which waits for the callback and takes the pads of
\* the decoder away, and gives up when that fails;
ResetUridb(i) ==
  /\ wpc = <<"reset", i>>
  /\ cb[i] = "idle"
  /\ \/ /\ source' = [source EXCEPT ![i] = "off"]
        /\ fed' = [fed EXCEPT ![i] = FALSE]
        /\ wpc' = <<"start", i>>
        /\ UNCHANGED <<bus, errors>>
     \/ /\ PostError(i)
        /\ source' = [source EXCEPT ![i] = "failed"]
        /\ wpc' = <<"idle">>
        /\ UNCHANGED fed
  /\ UNCHANGED <<setupVars, videoLinked, paused, cb, switchVars, state, bpc, retry,
                 overlap>>

\* then to PLAYING, whose failure is only logged;
StartUridb(i) ==
  /\ wpc = <<"start", i>>
  /\ i \in Uridb
  /\ \/ source' = [source EXCEPT ![i] = "decoding"] /\ UNCHANGED <<bus, errors>>
     \/ PostError(i) /\ source' = [source EXCEPT ![i] = "failed"]
  /\ wpc' = <<"started", i>>
  /\ UNCHANGED <<setupVars, fed, videoLinked, paused, cb, switchVars, state, bpc,
                 retry, overlap>>

\* then the state.
StartedUridb(i) ==
  /\ wpc = <<"started", i>>
  /\ state' = [state EXCEPT ![i] = "Playing"]
  /\ wpc' = <<"idle">>
  /\ UNCHANGED <<setupVars, inputVars, switchVars, bus, bpc, retry, errors, overlap>>

WorkerStep ==
  /\ Alive
  /\ \E i \in Inputs :
       \/ RetryHdmi(i) \/ StartHdmi(i)
       \/ RetryUridb(i) \/ ResetUridb(i) \/ StartUridb(i) \/ StartedUridb(i)

-----------------------------------------------------------------------------
MainStep ==
  /\ Alive
  /\ \E i \in Inputs : RequestPad(i) \/ \E ok \in BOOLEAN : Create(i, ok)

MatrixStep ==
  /\ Alive
  /\ StartPipeline \/ \E i \in Inputs : RequestAgain(i)

SourceStep ==
  /\ Alive
  /\ \E i \in Inputs : EndOfStream(i) \/ SourceError(i)

Next ==
  \/ MainStep \/ MatrixStep
  \/ \E i \in Inputs : Callback(i)
  \/ SourceStep
  \/ BusStep \/ WorkerStep

Spec == Init /\ [][Next]_vars

\* The threads are scheduled and a decoder that does not fail finds its pad; no
\* stream has to end or to fail.
Fairness ==
  /\ WF_vars(MainStep)
  /\ WF_vars(MatrixStep)
  /\ \A i \in Inputs : WF_vars(Callback(i))
  /\ WF_vars(BusStep)
  /\ WF_vars(WorkerStep)

FairSpec == Spec /\ Fairness

-----------------------------------------------------------------------------
(* Properties *)

\* The types of the state; no retry is taken that was not sent.
TypeOK ==
  /\ requested \subseteq created /\ created \subseteq Inputs
  /\ inited \subseteq created
  /\ lockCore \in {"free", "main"}
  /\ todo \subseteq Inputs
  /\ mpc \in {"idle", "connect", "playing"}
  /\ state \in [Inputs -> {"Invalid", "Ready", "Playing"}]
  /\ source \in [Inputs -> {"off", "decoding", "exposing", "flowing", "failed", "ended"}]
  /\ fed \in [Inputs -> BOOLEAN] /\ videoLinked \in [Inputs -> BOOLEAN]
  /\ paused \in [Inputs -> BOOLEAN]
  /\ cb \in [Inputs -> {"idle", "handle", "request", "video_pad", "switch", "linked",
                       "crashed"}]
  /\ linkMain \in [Inputs -> BOOLEAN] /\ currMain \in [Inputs -> BOOLEAN]
  /\ sinks \in [Inputs -> SUBSET {0, 1}]
  /\ active \in [Inputs -> 0..2]
  /\ bus \in Seq(Inputs)
  /\ bpc \in {<<"idle">>} \cup ({"invalidate", "retry"} \X Inputs)
  /\ wpc \in {<<"idle">>} \cup ({"start", "reset", "started"} \X Inputs)
  /\ retry \in [Inputs -> Nat]
  /\ errors \in 0..MaxErrors
  /\ overlap \in [Inputs -> BOOLEAN]

\* Whatever the order of the callback, the error handler and the restart, a
\* selector shows the input only through a pad that is linked to it, and its
\* switch knows: what reconnect() must ensure before it sets active-pad.
MainShownIsLinked ==
  \A i \in Inputs : active[i] = 0 => 0 \in sinks[i] /\ linkMain[i] /\ currMain[i]

\* An input that has failed is not shown: its selector is on the image, unless an
\* error was handled while the pad-added callback of the same input was running
\* (nothing keeps sswitch() and reconnect() apart).
FallbackWhileInvalid ==
  \A i \in requested : state[i] = "Invalid" /\ ~overlap[i] => active[i] = 1

\* As long as nothing failed, an input that delivers frames is the one shown:
\* the pads main requested before the stream was ready have been reconnected.
MainUntilError ==
  errors = 0 => \A i \in Inputs : source[i] = "flowing" => active[i] = 0

\* A source that failed, or that the error handler set to PAUSED, is set going
\* again, however errors, callbacks and earlier restarts interleave, unless the
\* program crashes; IMSG_INPUT_DEVICE_RETRY is what it rests on.
Stopped(i) == source[i] = "failed" \/ paused[i]

FailedIsRestarted ==
  \A i \in Inputs : Stopped(i) ~> (~Stopped(i) \/ ~Alive)

\* Once the pipeline plays, an input that main could initialise does not stay
\* Invalid, unless the program crashes.
InvalidIsTemporary ==
  \A i \in Inputs :
     (mpc = "playing" /\ i \in inited /\ state[i] = "Invalid") ~>
     (state[i] # "Invalid" \/ ~Alive)

\* What the comments say of the module (media_input_module.cpp:428 and :447): when
\* the stream is ready, the fallback is switched back to the main stream.
StreamReady(i) == state[i] # "Invalid" /\ source[i] = "flowing" /\ ~paused[i]

BackToMain ==
  \A i \in Inputs : StreamReady(i) ~> (active[i] = 0 \/ ~StreamReady(i) \/ ~Alive)

\* What the comment says of create_video_src_pad (media_input_module.cpp:539): it
\* gives a pad, with the fallback on it when the input cannot be connected.
PadRequestReturns == mpc = "connect" ~> (mpc = "playing" \/ ~Alive)
=============================================================================
