---------------------------- MODULE PlayControl ----------------------------
(***************************************************************************)
(* How MediaMatrix brings its pipeline to PLAYING and keeps it there: its  *)
(* worker polls after IMSG_PIPE_SET_PLAYING until the pipeline plays or a  *)
(* time-out, and resets the pipeline; the thread of handle_bus_msg reports *)
(* state changes and handles errors and lost clocks; the input module asks *)
(* for a reset when a stream is ready.                                     *)
(*                                                                         *)
(* The worker and the bus thread call gst_element_set_state concurrently;  *)
(* the state lock of the pipeline makes each call a step.  GStreamer is    *)
(* external: a change upwards may complete later, and may fail.  What the  *)
(* bus orders is kept: a sender has one kind of message on its way, so the *)
(* inbox is a bag.  Pad requests and the restart of an input on an error   *)
(* are in InputModule.                                                     *)
(***************************************************************************)
EXTENDS Naturals, Sequences

CONSTANTS
  PollLimit,  \* polls without success before a time-out, 100 in the code
  MayFail,    \* whether gst_element_set_state may fail
  MaxEvents   \* bound on the events of the streams: errors, lost clocks, ready, EOS

ASSUME PlayAssumption ==
  PollLimit \in Nat \ {0} /\ MayFail \in BOOLEAN /\ MaxEvents \in Nat

VARIABLES
  cur,      \* the state of the pipeline
  target,   \* the state it is going to
  bus,      \* the messages on its bus that handle_bus_msg acts on
  bmsg,     \* the message it holds, "none", or "lost" between the two changes
  busDone,  \* handle_bus_msg has returned
  inbox,    \* the messages to the worker of MediaMatrix, by kind
  wpc,      \* "idle", or "reset" between the two state changes of a reset
  playing,  \* pipe_playing_
  cnt,      \* pipe_playpend_cnt_
  events,   \* the events so far
  played,   \* history: the pipeline has reached PLAYING
  failed    \* history: a gst_element_set_state has failed

pipeVars == <<cur, target, bus, played, failed>>
busVars == <<bmsg, busDone>>
workerVars == <<inbox, wpc, playing, cnt>>
vars == <<pipeVars, busVars, workerVars, events>>

Kinds == {"SET_PLAYING", "PENDING", "TIMEOUT", "SUCCESS", "RESET"}

Init ==
  /\ cur = "NULL" /\ target = "NULL" /\ bus = <<>>
  /\ bmsg = "none" /\ busDone = FALSE
  /\ inbox = [k \in Kinds |-> IF k = "SET_PLAYING" THEN 1 ELSE 0]
  /\ wpc = "idle" /\ playing = FALSE /\ cnt = 0
  /\ events = 0 /\ played = FALSE /\ failed = FALSE

-----------------------------------------------------------------------------
(* The pipeline: gst_element_set_state and what it posts *)

\* The pipeline is in state s, which STATE_CHANGED reports when it is new.
Arrive(s) ==
  /\ cur' = s
  /\ bus' = IF s = "PLAYING" /\ cur # s THEN Append(bus, "playing") ELSE bus
  /\ played' = (played \/ s = "PLAYING")

\* GST_STATE_CHANGE_SUCCESS, or ASYNC on the way up.
SetState(s) ==
  /\ target' = s
  /\ \/ Arrive(s)
     \/ cur # "PLAYING" /\ cur # s /\ UNCHANGED <<cur, bus, played>>
  /\ UNCHANGED failed

\* GST_STATE_CHANGE_FAILURE
SetStateFails ==
  /\ MayFail
  /\ target' = cur
  /\ failed' = TRUE
  /\ UNCHANGED <<cur, bus, played>>

Reach ==
  /\ cur # target
  /\ Arrive(target)
  /\ UNCHANGED <<target, failed, busVars, workerVars, events>>

\* An element posts an error, the pipeline its end of stream or a lost clock.
StreamEvent ==
  /\ events < MaxEvents
  /\ events' = events + 1
  /\ \E e \in {"error", "eos", "clock_lost"} :
       /\ e = "error" => target # "NULL"
       /\ e # "error" => cur = "PLAYING"
       /\ bus' = Append(bus, e)
  /\ UNCHANGED <<cur, target, played, failed, busVars, workerVars>>

\* IMSG_INPUT_STREAM_IS_READY makes the input module ask for a reset.
StreamReady ==
  /\ events < MaxEvents
  /\ events' = events + 1
  /\ inbox' = [inbox EXCEPT !["RESET"] = @ + 1]
  /\ UNCHANGED <<pipeVars, busVars, wpc, playing, cnt>>

-----------------------------------------------------------------------------
(* handle_bus_msg *)

BusPop ==
  /\ ~busDone
  /\ bmsg = "none"
  /\ bus # <<>>
  /\ bmsg' = Head(bus)
  /\ bus' = Tail(bus)
  /\ UNCHANGED <<cur, target, played, failed, busDone, workerVars, events>>

\* The end of stream ends the thread.
BusEos ==
  /\ bmsg = "eos"
  /\ bmsg' = "none"
  /\ busDone' = TRUE
  /\ UNCHANGED <<pipeVars, workerVars, events>>

BusError ==
  /\ bmsg = "error"
  /\ bmsg' = "none"
  /\ SetState("PLAYING") \/ SetStateFails
  /\ UNCHANGED <<busDone, workerVars, events>>

BusStateChanged ==
  /\ bmsg = "playing"
  /\ bmsg' = "none"
  /\ inbox' = [inbox EXCEPT !["SUCCESS"] = @ + 1]
  /\ UNCHANGED <<pipeVars, busDone, wpc, playing, cnt, events>>

\* GST_MESSAGE_CLOCK_LOST: PAUSED, then PLAYING, whatever the first returned.
ClockLostPause ==
  /\ bmsg = "clock_lost"
  /\ bmsg' = "lost"
  /\ SetState("PAUSED") \/ SetStateFails
  /\ UNCHANGED <<busDone, workerVars, events>>

ClockLostPlayForgotten ==
  /\ bmsg = "lost"
  /\ bmsg' = "none"
  /\ UNCHANGED <<pipeVars, busDone, workerVars, events>>

ClockLostPlay ==
  /\ bmsg = "lost"
  /\ bmsg' = "none"
  /\ SetState("PLAYING") \/ SetStateFails
  /\ UNCHANGED <<busDone, workerVars, events>>

BusStep ==
  BusPop \/ BusEos \/ BusError \/ BusStateChanged \/ ClockLostPause \/ ClockLostPlay

-----------------------------------------------------------------------------
(* handle_message of MediaMatrix *)

\* The worker takes a message of kind k and sends the messages of kinds ks.
Handle(k, ks) ==
  /\ wpc = "idle"
  /\ inbox[k] > 0
  /\ inbox' = [x \in Kinds |-> inbox[x] - (IF x = k THEN 1 ELSE 0)
                                        + (IF x \in ks THEN 1 ELSE 0)]

HandleSetPlaying ==
  /\ \/ Handle("SET_PLAYING", {"PENDING"}) /\ SetState("PLAYING")
     \/ Handle("SET_PLAYING", {}) /\ SetStateFails
  /\ UNCHANGED <<busVars, wpc, playing, cnt, events>>

\* IMSG_PIPE_SET_PLAYING_PENDING, every 100 ms.
HandlePendingUncounted ==
  /\ Handle("PENDING", IF playing THEN {} ELSE {"PENDING"})
  /\ UNCHANGED <<pipeVars, busVars, wpc, playing, cnt, events>>

HandlePendingAgain ==
  /\ IF playing
     THEN Handle("PENDING", {}) /\ UNCHANGED cnt
     ELSE IF cnt + 1 > PollLimit
     THEN Handle("PENDING", {"TIMEOUT", "PENDING"}) /\ cnt' = 0
     ELSE Handle("PENDING", {"PENDING"}) /\ cnt' = cnt + 1
  /\ UNCHANGED <<pipeVars, busVars, wpc, playing, events>>

HandlePendingUnreset ==
  /\ IF playing
     THEN Handle("PENDING", {}) /\ UNCHANGED cnt
     ELSE /\ Handle("PENDING", {IF cnt + 1 > PollLimit THEN "TIMEOUT" ELSE "PENDING"})
          /\ cnt' = cnt + 1
  /\ UNCHANGED <<pipeVars, busVars, wpc, playing, events>>

HandlePending ==
  /\ IF playing
     THEN Handle("PENDING", {}) /\ UNCHANGED cnt
     ELSE IF cnt + 1 > PollLimit
     THEN Handle("PENDING", {"TIMEOUT"}) /\ cnt' = 0
     ELSE Handle("PENDING", {"PENDING"}) /\ cnt' = cnt + 1
  /\ UNCHANGED <<pipeVars, busVars, wpc, playing, events>>

HandleTimeout ==
  /\ Handle("TIMEOUT", {"RESET"})
  /\ UNCHANGED <<pipeVars, busVars, wpc, playing, cnt, events>>

HandleSuccess ==
  /\ Handle("SUCCESS", {})
  /\ playing' = TRUE
  /\ UNCHANGED <<pipeVars, busVars, wpc, cnt, events>>

\* IMSG_PIPE_RESET_PLAYING: PAUSED, then PLAYING, only of a pipeline that plays.
HandleResetAlways ==
  /\ Handle("RESET", {})
  /\ SetState("PAUSED") /\ wpc' = "reset"
  /\ UNCHANGED <<busVars, playing, cnt, events>>

HandleReset ==
  /\ Handle("RESET", {})
  /\ \/ ~playing /\ UNCHANGED <<pipeVars, wpc>>
     \/ playing /\ SetState("PAUSED") /\ wpc' = "reset"
     \/ playing /\ SetStateFails /\ UNCHANGED wpc
  /\ UNCHANGED <<busVars, playing, cnt, events>>

ResetPlay ==
  /\ wpc = "reset"
  /\ wpc' = "idle"
  /\ SetState("PLAYING") \/ SetStateFails
  /\ UNCHANGED <<busVars, inbox, playing, cnt, events>>

WorkerStep ==
  \/ HandleSetPlaying \/ HandlePending \/ HandleTimeout \/ HandleSuccess
  \/ HandleReset \/ ResetPlay

-----------------------------------------------------------------------------
Next == Reach \/ StreamEvent \/ StreamReady \/ BusStep \/ WorkerStep

Spec == Init /\ [][Next]_vars

\* The two threads run and the bus delivers, a delayed poll included; no pipeline
\* has to reach its target.  The worker's choice among its messages is the order
\* in which they arrive: a message is not passed over for ever.
Fairness ==
  /\ WF_vars(BusStep)
  /\ WF_vars(HandleSetPlaying) /\ WF_vars(HandlePending) /\ WF_vars(HandleTimeout)
  /\ WF_vars(HandleSuccess) /\ WF_vars(HandleReset) /\ WF_vars(ResetPlay)

FairSpec == Spec /\ Fairness

-----------------------------------------------------------------------------
(* Properties *)

\* The types of the state; the poll counter never passes its limit between messages.
TypeOK ==
  /\ cur \in {"NULL", "PAUSED", "PLAYING"} /\ target \in {"NULL", "PAUSED", "PLAYING"}
  /\ bus \in Seq({"playing", "error", "eos", "clock_lost"})
  /\ bmsg \in {"none", "playing", "error", "eos", "clock_lost", "lost"}
  /\ busDone \in BOOLEAN
  /\ inbox \in [Kinds -> Nat]
  /\ wpc \in {"idle", "reset"}
  /\ playing \in BOOLEAN
  /\ cnt \in 0..PollLimit
  /\ events \in 0..MaxEvents
  /\ played \in BOOLEAN /\ failed \in BOOLEAN

\* There is one chain of polls: SET_PLAYING, a poll or its time-out is on its way,
\* never two of them.
OneChain == inbox["SET_PLAYING"] + inbox["PENDING"] + inbox["TIMEOUT"] <= 1

\* The pipeline is only ever paused after it has played: a stream that is ready
\* early, an early time-out or a lost clock does not stop it on its way up.
PausedOnlyAfterPlaying == target = "PAUSED" => played

\* The polling ends: the pipeline is known to play, or the time-out is sent, or
\* the first change of state has failed.
SetPlayingResolves ==
  inbox["SET_PLAYING"] > 0 ~> (playing \/ inbox["TIMEOUT"] > 0 \/ failed)

\* However a reset of the worker, a lost clock and an error interleave, the
\* pipeline is not left PAUSED, unless a change of state failed.
NotLeftPaused == target = "PAUSED" ~> (target = "PLAYING" \/ failed)
=============================================================================
