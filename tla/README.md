# A verification development of gstreamer_test ("media matrix")

The program shows several video inputs (network or file streams, HDMI captures, images) on one
screen. It is a GStreamer pipeline built and steered by C++ classes in `matrix/`, with a
`rgacompositor` element (in `rgacompositor/`) that composes the frames with the Rockchip RGA, and a
separate `rgavideoconvert` element. This directory holds TLA+ models of its control logic, TLC
configurations and TLAPS proofs. Paths below are relative to `src/`.

Checking everything:

    tlc -workers 2 -config MCMessageBus_delivery.cfg MCMessageBus     (and the other .cfg files)
    tlapm MessageBusProofs.tla                                        (and the other *Proofs.tla)

`PROJECT.json` lists, for each definition, the lines it models; for each property, the run that checks
it and a mutation of the model that breaks it; the hazards of the code and what covers each of them.

## 1. The system

| component | state it keeps | operations | talks to |
|---|---|---|---|
| **Message bus** (`matrix/imessage*.cpp`) | main queue (lock-free MPMC), delayed priority queue, timerfd, one queue per worker, exit flag | `IMessage::send`, the manager's `thread_loop` (timer) and `distribute_messages`, the worker's `thread_loop`, `stop` | every other class of `matrix/` |
| **IThread** (`matrix/ithread.cpp`) | `thread_running_`, `thread_exit_pending_`, `thread_id_`, a detached pthread | `start`, `thread_entry_impl`, `stop`, `stop_wait`, `join` | base of the bus's threads |
| **Process start and exit** (`matrix/main.cpp`) | – | creates the modules, `MediaMatrix::init`, joins the worker of `MediaMatrix`; the handler of SIGINT and SIGTERM stops the manager and the two workers | bus, input module, play control |
| **Input module** (`matrix/media_input_module.cpp`, `media_input_impl_uridb.cpp`, `..._hdmi.cpp`) | the inputs, `state_` and `video_linked_` of each, one `InputPadSwitch` per requested pad (input-selector, sinks, `is_link_mainstream_`, `is_curr_mainstream_`), `lock_core_` | `create`, `create_video_src_pad`, `reconnect`, `sswitch`, `handle_bus_msg_error`, `on_handle_end_of_stream`, `IMSG_INPUT_DEVICE_RETRY` → `start` | bus (retry), play control (pads, errors), streaming threads (signals) |
| **Image and RTSP inputs** (`media_input_impl_image.cpp`, `..._rtsp.*`) | as an input; the image is the fallback of every switch | `init`, `get_request_pad` | input module |
| **Play control** (`matrix/media_matrix.cpp`) | `pipe_playing_`, the poll counter, the pipeline's state | `init`, the messages `IMSG_PIPE_*`, the GStreamer bus thread | bus, input module, mixers, output |
| **Ghost pads** (`ighost_pad_manager.cpp`) | the pads of a bin and the next free name | `add_pad`, `del_pad` | input module, inputs |
| **Video mixers** (`video_mixer*.cpp`) | the mixer's request pads, their style and layout | `connect`, `set_style`, `init`, `deinit` | play control |
| **rgacompositor element** (`rgacompositor/rgacompositor.cpp`) | per pad: geometry, crop, converter; output state | negotiation, `prepare_frame`, `clean_frame`, `aggregate_frames`, obscuring | GStreamer's aggregator, RGA contexts |
| **RGA contexts and DMA buffers** (`rkrga.cpp`, `rga_dma_alloc.cpp`) | handles of imported buffers, rectangles | import, `setRect`, blit, release; allocate, map, free | rgacompositor |
| **Pad probes** (`ipad_prober.cpp`) | per pad: probe id, last frame time | frame-rate and event probes | inputs, output |
| **KMS output** (`output_impl_kms.cpp`) | the sink bin, the DRM connector found | construction, `sink_pad`, `refresh` | play control |
| **Console** (`console_*.cpp`) | – | a thread that spins until it is stopped | – |
| **rgavideoconvert** | a caps pair | one transform | – |
| **Vendored**: moodycamel `ConcurrentQueue`, `sigslot` | – | – | bus, inputs |

How they meet. `MediaMatrix` and `MediaInputModule` are *workers* of the bus (`IMessageThread`): each
handles its messages on a thread of its own. `main` builds everything and sends the first message.
GStreamer adds threads: the pipeline's bus thread (`MediaMatrix::handle_bus_msg_*`), and the streaming
threads, on which decoders call `on_uridb_pad_added` and pads push frames or an end of stream. Nearly
all shared fields are plain variables without a lock.

What is hard:

- *Concurrency in the bus.* `notify_one` is called without the mutex of the wait; the delayed queue is
  read without its lock; the timer is written by senders, the manager and `stop()`.
- *Time.* Delays, timers that can fire for another message, a poll that re-sends itself with a limit.
- *Failure.* An error may hit an input before, during or after its pad is exposed; its retry runs 5 s
  later on another thread; several errors may be on their way; state changes fail or stay pending.
- *Ordering.* Pads requested before and after their stream is ready take different paths.
- *Partial failure.* Missing plugins, refused links and failing allocations are logged and passed over; what
  follows works on what happens to be there.
- *Exit.* A signal handler joins threads, on whatever thread it interrupted, while `main` waits to tear down.
- *Memory of the compositor.* Contexts are reused from frame to frame, jobs run on several cores, pad
  properties change while a frame is composed, a renegotiation replaces the background.

What makes each component correct: the **bus** delivers at most once, in order, not before time,
always, and stops; the **input module** shows an input exactly when it has something to show, and
restarts what failed; **play control** has one chain of polls that ends, and does not leave the
pipeline paused; **IThread** returns from `stop` exactly when the thread is over; **ghost pads** never
hand out a name twice; **mixers** release what they requested and give each input one place; the
**compositor** draws every frame with pixels not covered by an opaque one above it, in z order, inside
the output; **contexts and buffers** are released once.

## 2. The modules

| module | models |
|---|---|
| `MessageDelivery` | abstract: what the bus promises (a set of pending messages, deliver, lose, order, time) |
| `MessageBus` | the bus, every thread a program counter |
| `MCMessageBus` | its instances for TLC |
| `MessageBusProofs`, `MessageDeliveryProofs` | its theorems; the bus implements `MessageDelivery` |
| `InputModule` | inputs, switches, pad requests, errors, restarts |
| `MCInputModule`, `InputModuleProofs` | its instances, its theorems |
| `PlayControl` | `MediaMatrix`: playing, polling, resets, the bus thread |
| `PlayControlProofs` | its theorems |
| `ProcessExit`, `ProcessExitProofs` | `IThread`, the signal handler, `main` from `init` to the static destructors; its theorems |
| `GhostPads` | names of the ghost pads of a bin (operators) |
| `VideoMixer` | layout, `connect` and records of the two mixers (operators) |
| `InputBins` | the elements of inputs and branches, and what a missing one leaves (operators) |
| `Pipeline` | composes the three: how the pipeline is put together, with failures |
| `MCPipeline`, `PipelineProofs` | its instance, its theorems |
| `CompositorGeometry` | output size, clamping, hiding, fixation, pointer events of `rgacompositor` (operators) |
| `CompositorPads` | its pads: requests, properties, caps, negotiation, over `CompositorGeometry` |
| `MCCompositorPads`, `CompositorPadsProofs` | its instance, its theorems |
| `RgaContext` | `RkrgaContext` and the DMA allocator: handles, mappings, descriptors (operators) |
| `RgaCompositor` | the frame cycle, over `CompositorGeometry` and `RgaContext` |
| `RgaCompositorProofs`, `MCRgaCompositor` | its theorems, its instances |

Definitions whose names extend another's (`PadAddedStateLate`, `ErrorRetryForgotten`, ...) are mutations:
no specification uses them; `PROJECT.json` "mutants" says which property each of them violates.

### 2.1 MessageBus

A step is what a thread does between two points where another can interfere. Code to model:

- `IMessage::send` (`imessage.cpp`) → `SendNow`+`SendNotify`, or `SendDelayed`+`SendSetTimer`; the
  time in between is real. `SendDelayed` takes `msg_delayed_lock_` and `SendSetTimer` releases it.
- `IMessageThreadManager::thread_loop` → `ManagerCompute` (the unlocked reading of the delayed queue at
  `imessage_thread_manager.cpp:127` and of the clock), `ManagerSetTimer`, `EpollExpired` /
  `EpollInterrupted`, `ReadTimer`, `DrainBegin`, `DrainOne`, `DrainNotify`, `DrainEnd`.
- `distribute_messages` → `DistributorPredicate` … `DistributorNotify`; the "towait" value of `dpc` is
  the gap between the predicate and the wait, in which a notification is lost.
- `IMessageThread::thread_loop` → `WorkerPredicate`, `WorkerBlock`, `HandlerReturn`. What handlers send
  is bounded by `Routes`.
- `stop` → `StopRequest`, `StopTimer`, `StopNotify`, `StopJoin`.

The main queue is a FIFO *per producing thread*, and a dequeue may take from any of them: that is what
moodycamel's queue promises. `missed` is a history variable: it says that a notification fell into such
a gap ("notification"), or that the manager set a timer value older than the one it replaced ("timer").
`DistributorRoute` tests a worker's queue and appends to it in one step: only the distributor appends, and
what a worker takes out in between makes the queue shorter. Left out: registration of
workers (it precedes every send in the program), the attributes of a message, a failing `thread_init`,
errors of `epoll_wait` other than EINTR, the exit of the workers (nothing stops them). `size_approx` is
read as an exact value, and the unlocked `top()` as one atomic read: in C++ both are racy, and an
implementation may do worse.

### 2.2 InputModule

`state`, `videoLinked`, `linkMain`, `currMain`, `active`, `lockCore` are the fields of the classes;
`source`, `fed` and `bus` stand for GStreamer. Threads: `main` (`Create`, `RequestPad`), the worker of
`MediaMatrix` (`RequestAgain`, `StartPipeline`), a decoder's streaming thread (`PadAdded`,
`HandleVideoPad`, `Reconnect`, `GetVideoPad`, `ReconnectSwitch`, `VideoLinked`, `EndOfStream`), the bus
thread (`ErrorSwitch`, `ErrorInvalidate`, `ErrorRetry`), the worker of `MediaInputModule` (`RetryHdmi`,
`StartHdmi`, `RetryUridb`, `ResetUridb`, `StartUridb`, `StartedUridb`). `overlap` is a history
variable: an error of an input was handled while its callback ran. `paused` says that the error handler
has set `bin_` to PAUSED, which holds the frames of a URI input back until something sets it to PLAYING
again. The pad that `GetVideoPad` returns on the second reading of `state_` is whatever was on the stack:
GStreamer refuses it or the program crashes (`cb = "crashed"`, after which nothing moves; `Alive`).

What is assumed of GStreamer: a state change that fails posts an error message; a source set to READY
first waits for its streaming thread; an element that failed sends nothing until it is restarted. Setting
the pipeline to PLAYING after an error (`media_matrix.cpp:378`) may or may not set a failed capture
going again: `ErrorRetry` chooses. The fallback image is ready. `destroy`, `disconnect` and
`pause` exist in the classes and nothing calls them. The retry is a message of the bus: that it arrives
is what `MessageBus` is about, here it always does.

### 2.3 PlayControl

`cur` and `target` are GStreamer's states of the pipeline, `inbox` the messages on their way to the
worker, `playing` and `cnt` the fields `pipe_playing_` and the poll counter. A state change succeeds,
fails, or stays pending until `Reach`. The bus thread handles one message at a time (`BusStep`), the
worker its messages in any order: each sender has at most one kind of message on its way, and the bus
orders only the messages of one sender. `played` and
`failed` are history variables. `StreamReady` is the reset that the input module asks for on
`IMSG_INPUT_STREAM_IS_READY`. Not modelled: the state READY, which nothing sets or tests, and the pads
that `IMSG_PIPE_SET_PLAYING` connects (they are in `InputModule`).

### 2.4 ProcessExit

One program counter for each thread of the process after `inst_all_modules`: the manager, its
distributor, the workers of `MediaMatrix` and of the inputs, the bus thread, `main`. `handler[h]` is where
`handle_signal` is on thread `h`; that thread does nothing else until the handler returns. Code to model:

- `IThread::thread_entry_impl` → `Returned`, `Closed` and `Retest`, the two readings of
  `thread_exit_pending_`; when the flag is set between them the thread is `"gone"`: it has left without clearing
  `thread_running_`. At `"closing"` it holds `thread_lock_`, also while a signal handler runs on it.
- `IMessageThreadManager::thread_loop` → `ThreadInit` (which may fail), `ManagerCheck`,
  `UpdateDelayedTimer`, `EpollWait` (which a signal on the manager interrupts once: `interrupted`), `Drain`;
  the loops of the workers and of the distributor →
  `MatrixCheck`, `DistributorCheck`, `Wait`, `Notified`; delayed sends hold `msg_delayed_lock_`
  (`SendDelayed`, `SentDelayed`).
- `exit_all_modules` → `StopManager`, `WakeManager`, `TestJoinable`, `JoinDistributor`, `JoinManager`,
  `StopWorker`; a failing `join` of a `std::thread` ends the process.
- `main` → `MediaMatrixInit`, `Join`, `StopWait`, `JoinMatrix`, `JoinBus`, `Free`, `Exit`.

`disturbed` is a history variable: `init` failed, a signal came before the distributor existed, two
handlers ran at a time, or a thread went to sleep after it should have been woken. Here a message only wakes
somebody; what becomes of it is in `MessageBus`. `deinit` stops the worker by
`IMessageThread::stop_wait`, which sets `thread_exit_pending_` for good. A signal during
`inst_all_modules`, when the singletons are half constructed, is left out; so are signals in the static
destructors: `"returned"` is the end of `main` before them.

### 2.5 Pipeline, with GhostPads, VideoMixer, InputBins

The operations that put the pipeline together, in program order: `CreateNosignal` (constructor of
`MediaInputModule`, `mixer_->init()`), for each input `Create` and `RequestPad`, `Output`, then on the worker
of `MediaMatrix` `ConnectStream` / `ConnectNothing` for each input and `Play`, later `PadAdded` for a URI
input. `missing` is the set of kinds of elements whose plugin is not installed, chosen in `Init`; each link may
be refused. The graph is kept as far as the properties follow it: branch → tee and selector sink, switch →
module pad, module pad → ghost pad → compositor pad → region. Three actions end in `"crashed"`, each where the
code uses what was never set: a switch without selector (`GST_PAD_NAME` of NULL,
`media_input_module.cpp:565`), `sink_pad_` read uninitialised after a `connect` that failed early
(`media_matrix.cpp:451`), and a mixer whose `init` failed (`deinit` flows off its end,
`video_mixer_rgac.cpp:82`; `queue_` is unset, `:286`). `VideoMixerRgac` makes an element by the factory
`compositor` and names it `rgacompositor`; the model follows the factory.

Left out: refused links inside the fixed chains of a bin (logged, and the chain is dead), except the branch of
`VideoMixerGlvm`, where it decides whether there is a ghost pad; DRM calls of the output; threads, which
follow each other here and interleave in `InputModule`.

### 2.6 CompositorGeometry and CompositorPads

Operators for `_mixer_pad_get_output_size` (sizing policies, pixel aspect ratios, integer rounding as
GStreamer's utilities do it), `clamp_rectangle`, `_pad_obscures_rectangle`, `_fixate_caps`,
`_rga_async_process_bg_composite` (its rectangle) and `src_pad_mouse_event`. `CompositorPads` reaches their
arguments as the element does: pads requested and released, caps, properties changing one at a time (bounded by
`MaxChanges`), `zero-size-is-unscaled`, negotiation with an open or a fixed size. What the parent class
converts a frame to is `create_conversion_info`. `alpha` is in hundredths.

### 2.7 RgaContext and RgaCompositor

`RgaContext` has the fields of `RkrgaContext` and the process's table of RGA handles, mapped buffers and DMA
memories; each operator returns the context, the table and the result, with every call inside it allowed to
fail; so may `improcess`, `imsync`, `imfill` and `imcopy`. `RgaCompositor` is the streaming thread's cycle:
`Negotiate` (`set_functions`), `StartFrame`, `PrepareFrameStart` pad by pad, `WrapOutput` (with the growth of
the vectors, which destroys and unwraps the old contexts), `CollectFrame` / `SkipUnprepared`, `Submit` /
`SubmitUnset` / `SubmitDone`, `SyncProcess`, `BgFill`, `BgCopy`, `Unwrap`, `Finish`, `Stop`, `Finalize`. New
entries of the fences are 0, as `resize` makes them (`Descriptor0`), and are waited for. Where the background is
still mapped from a buffer that has been freed (`Dangling`), `FinalizeDangling` unmaps it, fails to, or ends the
process. Two environments run beside it: `SetProperty` (the application, without a lock) and `RunJob` (the RGA's
cores, in any order). An entry of `pads_info` that was not written is memory of `alloca`: `SubmitUnset` lets it
be any rectangle or the end of the process. The picture is one row of pixels, which is enough for covering,
hiding and stale content; the second dimension is in `CompositorGeometry`.

## 3. The runs

Deadlock is not checked: the environments (sends, errors, signals, frames, stream events) are bounded, the
bus and the process are stopped on purpose. That nothing waits for ever where it should not is what the
liveness properties say.

| run | instance | what it shows |
|---|---|---|
| `bus_delivery` (1,326,721 states, 2 min) | two workers in a chain, one client, 2 messages, delay 1, queue limit 1 | types; the bus implements `MessageDelivery`: at most once, only to the destination, not before time, in order |
| `bus_liveness` (790,293 states, 2 min) | one worker that sends to itself, one client, `stop()` at any moment | a stopped bus is quiet; the manager does not wait without a timer somebody needs (`WokenWhenNeeded`), messages arrive and `stop()` returns, unless something was overtaken |
| `bus_distribute` | one message | violation: see findings |
| `input_switch` (101,457 states) | a URI input and a capture whose `init()` may fail, 4 errors | switch, fallback and state agree; failures are followed by a restart |
| `input_back`, `input_lock` | one error | violations |
| `play_control` (16,595 states) | 2 polls, 3 stream events, changes that fail or are slow | one chain of polls, which ends; a pause never precedes the first playing and does not last |
| `exit` (573,258 states, 150 s) | signals on the manager, the worker of `MediaMatrix` or the distributor, two of them | at the release only the worker of the inputs can still use the pipeline; abnormal ends and threads left behind only in the listed cases; a signal ends the process |
| `pipeline` (18,893 states) | the program's three inputs, both mixers, 2 of 11 plugins missing, 2 refused links | regions lead back to their inputs, selectors to a stream, leftovers are explained by failures |
| `compositor` (927,187 states) | 2 pads, row of 3 pixels, 2 frames, 2 negotiations, 1 property change, 1 failing call | an opaque frame on top that fits is shown, slots, jobs and buffers consistent, crashes only after a failed wrap or allocation |
| `compositor_uncovered` | the same | violation |
| `geometry` (179,294 states) | 2 pads, 2 frame shapes, sizes and positions around and outside the output, 4 changes | clamping, sizing, fixation, hiding and pointer events agree with what is drawn |

Why the bounds are enough. *Bus*: two messages are the least that can be reordered, overtake each
other's timer or meet a full queue, and a queue limit of 1 reaches the limit with them (the code's 100
needs 101); the clock reaches the sum of two delays. The chain client → worker → worker is the program's
own (`MediaInputModule` sends to `MediaMatrix`), the self-route is its retry. *Inputs*: inputs of
different kinds meet only in `lock_core_`, the bus queue and the worker; four errors allow an error
before, during and after a callback and during a restart.
*Play control*: two polls distinguish the first, a later one and the limit; three events allow an
error, a lost clock and a ready stream in every order. *Exit*: two signals are the least for two handlers at a
time or one after the other; the three threads are the one that `stop()` joins by `std::thread`, the one it
joins by `IThread::join`, and one it only asks; the theorems hold for every set of threads. *Pipeline*: the three
inputs are the program's, and two failures meet in one branch, in two branches of one switch, or in an input and
the mixer. *Compositor*: two pads are the least with an order; the second frame meets what the first left in
slots, background and memory, the second negotiation what the first wrapped; the row has a pixel under both
pads, under one and under none, and the scenes include a translucent pad and one that reaches beyond the
output. *Geometry*: ratios that round in both directions, positions left of and beyond
the output, a size of zero.

**Fairness.** Weak fairness for each thread's steps: the operating system runs every thread that can
run; clocks advance and an expired timer is reported; a message on its way in `PlayControl` is handled
in the end (it is in a FIFO, so others pass it finitely often). A decoder that does not fail exposes its
pad. In `ProcessExit`, weak fairness for each loop, each running handler and `main`, and strong fairness for
`Drain` only: the manager gets `msg_delayed_lock_`, which a sender releases again after each message, in
the end. There is no fairness for sending, for `stop()`, signals, errors, ends of streams, interrupted
system calls, spurious wake-ups, or for a pending state change to complete. `RgaCompositor`, `CompositorPads` and
`Pipeline` state safety only.

### Findings

1. `bus_distribute` – a notification without `msg_lock_` (`:76`, `:226`) can fall between predicate and
   wait: the message waits for the next notification.
2. `input_back` – nothing switches back to the main stream after an error or end of stream
   (`media_input_impl_uridb.cpp:246`), although the comments say so.
3. `input_lock` – `create()` leaves `lock_core_` locked when `init()` fails
   (`media_input_module.cpp:329`), and the worker of `MediaMatrix` blocks on it for ever.
4. `compositor_uncovered` – the background is filled only for a frame without any pad
   (`rgacompositor.cpp:1790`); the documentation of the element says uncovered areas show it.

Further observations. The models show them as states a property excuses or leaves to the text; each is a
disagreement with a document, or something a reader of the code should know.

*Bus.*

- The manager computes the timer value at `imessage_thread_manager.cpp:127` without `msg_delayed_lock_` and may
  set it after a sender has armed the timer: a delayed message then waits until something else is sent with a
  delay. `WokenWhenNeeded` and the liveness properties excuse exactly this and the lost notification.

*Inputs.*

- The bus thread can switch to the fallback while a callback of the same input is in `reconnect()`
  (`media_input_module.cpp:525`), and the switch ends on the main stream of an Invalid input:
  `FallbackWhileInvalid` excuses it by `overlap`.
- `inter_get_video_pad` returns an uninitialised pointer when the state has become Invalid between its
  two reads (`media_input_impl_uridb.cpp:325`); the program may crash on it.
- After an end of stream the bus thread is over (`media_matrix.cpp:325`): no later error is handled.
- A capture whose `init` failed still announces itself, and everything a failed `init` has made is left in no
  bin: `loose` counts it.

*Play control.*

- The time-out of the polling asks for a reset, which does nothing because a reset requires a pipeline that
  plays (`media_matrix.cpp:494`). A reset whose second state change fails leaves the pipeline paused (`:499`).

*Exit.*

- Nobody stops the worker of the inputs before the pipeline goes, and nobody joins it: a restart it has begun
  (`media_input_module.cpp:385`, `media_input_impl_uridb.cpp:115`) sets states of bins that belong to the pipeline
  while `deinit` releases it (`media_matrix.cpp:291`). The model reaches this state; `OnlyInputUsesReleased` says
  that no other thread is in that position.
- `SignalEnds` lists what can keep a signalled process alive: a notification or a timer overtaken, a manager
  that left between the two tests of its flag (`ithread.cpp:125`, `:131`), a handler that waits for a lock its
  own thread holds, `msg_delayed_lock_` or `thread_lock_` (`ithread.cpp:126`).

*Compositor.*

- The element promises transparency (`rgacompositor.cpp:41`, `:46`, the property at `:711`), but the blend flags are
  commented out (`:1672`): a translucent frame is drawn opaque, and `alpha` decides only whether a pad is drawn
  and whether it may hide another. Where a translucent pad is on top the pixel shows that pad's frame alone, not
  a mixture; `TopmostShown` claims nothing there.
- Clamping is used for hiding only; what is drawn is the unclamped rectangle (`:1674`), so the RGA refuses a pad
  that reaches beyond the output, while the pads it hides are left out. `TopmostShown` claims only rectangles
  that fit.
- With keep-aspect-ratio the geometry centres the image and the blit stretches it over the configured
  rectangle (`:1674`): `ObscuringIsDrawn` needs both sizes to be configured, and the fixated
  output can be one pixel short of what is drawn (`FixatedHoldsPads`).
- Jobs of one frame are not ordered: where a lower frame is drawn after a higher one the picture is wrong until the
  next frame (`overtaken`).
- A frame that cannot be wrapped is skipped and still counted (`:1777`): the last entry of `pads_info` is used
  unset, and its fence, when the vector has just grown, is descriptor 0, for which `imsync` waits (`:1766`, `:1609`).
- Whether `imfill` or `imcopy` worked is not looked at (`:1812`, `:1711`): the frame is passed on as it is.
- A renegotiation wraps a new background over the old one, which is not released
  (`:852`): `FinalizedReleases` allows the backgrounds of earlier negotiations. Without DMA memory
  the background is mapped from a buffer that stop or the renegotiation frees (`:1537`, `:839`) before it is unmapped.

## 4. The proofs

TLAPS proves, for every value of the constants that satisfies the named assumption of the module, each invariant
and each action property a run checks without an expected violation, and the refinement. The assumptions
(`ConstantsAssumption`, `InputsAssumption`, `PlayAssumption`, `HostsAssumption`, `PipelineAssumption`,
`PadsAssumption`, `SizesAssumption`, `ScenesAssumption`) give the constants their types; TLC evaluates them in
every run.

| module | theorem | argument |
|---|---|---|
| `MessageBusProofs` | `TypeCorrect` (`TypeOK`) | `TypeInv` adds `HoldsWhileBusy`: the distributor and a worker hold a message exactly at the steps that use it, which gives the queues their type |
| | `ManagerIsWoken` (`WokenWhenNeeded`) | `SettimeAlone`: a sender between its insertion and the timer holds the lock, so it is alone there and the manager does not drain; `DisarmedSafely` carries the property back to the step where the manager holds the value "disarmed" and has not set it yet; `StopOrder` says where `stop()` is |
| | `NotEarly` | `NeverEarly`: no message leaves the delayed queue before its time, part of the refinement by a formula of its own; `EarlyInv` adds that the clock of the drain, `mnow`, is not ahead of `now` |
| | `StopQuiet` (`StoppedBusIsQuiet`) | `StopOrder`: what `stop()` has joined is done, and a distributor that had not been started when it was tested finds the exit flag set |
| `MessageDeliveryProofs` | `KeepsDelivery` (`ImplementsDelivery`) | `Places`: a message is where its kind, its sender and its destination say, with an id already given. `Order`: no message is in two places of the way delayed queue → main queue → distributor → worker's queue → worker, and none that must come first is behind another on it. Each action then maps to `Send`, `Deliver`, `Lose`, `Tick` or a stutter |
| `InputModuleProofs` | `TypeCorrect` | a thread's program counter names the input it works for |
| | `LinkedShown` (`MainShownIsLinked`) | `Linked`: the pad is in `sinks` from `GetVideoPad` on, `linkMain` and `currMain` change together with `active`; nothing takes a pad out |
| | `FallbackShown` (`FallbackWhileInvalid`) | `Quiet` (before the pipeline plays no source, callback or error exists) and `Fallback`, which relates state, selector and the program counters of callback and bus thread |
| | `FirstShown` (`MainUntilError`) | `FirstRun`: the stages of the first start of each kind of input while `errors = 0` |
| `PlayControlProofs` | `TypeCorrect`, `ChainIsOne` (`OneChain`) | a poll is sent only by the handler that consumed the previous one |
| | `PausedAfterPlaying` (`PausedOnlyAfterPlaying`) | `AfterPlaying`: `playing`, a SUCCESS message and a handled `playing` message all imply `played` |
| `ProcessExitProofs` | `TypeCorrect`, `OnlyInputUsesReleasedHolds`, `TerminatesOnlyIfHolds`, `LeftBehindHolds`, `NeverMisroutedHolds` | `HandlerOrder`, `StopOrder` and `TeardownOrder` are the order of `exit_all_modules` read backwards: `MediaMatrix` is told to stop only after the handler has joined the distributor and the manager has ended, and `main` passes its join only after that; this holds while the handler runs once at a time on a distributor that exists |
| `PipelineProofs` | `CrashesOnlyIfHolds` (`CrashesOnlyIf`) | `Numbered` and `Progress`: the n-th input is the main stream of the n-th switch, whose pad is the n-th of the module, so the mixer is asked neither twice for a pad nor for more than `kVideomixMaxStream` |
| | `RegionShowsItsInputHolds` | `Base` adds `Peers` (a branch is linked to its own selector, the image's to any, each to a sink of its own) and `Stages`; `Routes`: a ghost pad of the mixer with a peer has the region of that peer's number, and no two have the same peer |
| | `SelectorHasStreamHolds` | `Selected`: the switch's flag is true exactly when a branch is on its main sink, and the active sink has one; `Delivers`: without refused links an input that is Ready is fed and its branches are on the tee |
| | `LeftoversExplainedHolds` | `Fall`: what has not been made yet is Invalid and unfed; `Counted`: the six kinds of leftovers add up to the refused links, by the cardinalities each link changes |
| `CompositorPadsProofs` | `ClampRectangleIntersects`, `CenterRectInside` | integer arithmetic, dimension by dimension |
| | `TypeCorrect` (`TypeOK`), `ClampShowsVisible` (`ClampIsIntersection`), `PolicyHonoured` (`SizeHonoursPolicy`), `HidingIsDrawn` (`ObscuringIsDrawn`), `OutputHoldsPads` (`FixatedHoldsPads`), `PointerTranslated` (`PointerInFrame`) | `PadsInv`, the types, is all that depends on the history; the rest is about `OutputSize`: ratios reduced by a common divisor stay exact (`DivExact`, `ReducedRatio`), the sizes are natural numbers, and the two halves of a padding differ by at most one pixel. The maximum `_fixate_caps` takes over all pads exists because the pads are finitely many |
| `RgaCompositorProofs` | `TypeCorrect`, `SlotsAreRight` (`SlotsHoldTheirFrames`), `JobsEnd`, `FramesAreReleased`, `NothingReleasedTwice` (`ContextsHold`), `BackgroundIsTheLast`, `FinalizeReleases`, `CrashNeedsFailure` (`CrashesOnlyAfterFailure`) | `Filled`: while a frame is composed the slots filled so far are the first ones, in the order of the pads, each with the frame of its own pad, and all others are empty, so two never hold the same frame; `Collecting` counts the prepared pads already passed, so a slot is always free, and unset only after a failed wrap; `Held` tells who may hold what; `Jobs` ties each pending job to the fence of its slot, which the wait has not passed yet |
| | `TopmostIsSeen` (`TopmostShown`) | `TopInv`: the frames prepared are those of the pads that are seen (`Chosen`); this frame's jobs are the youngest, in the order of the slots (`Queued`); a pixel waits for the job of the last slot that covers it or has been drawn by it, and then no job left covers it (`Painted`). A pad is left out only where a higher one covers all of it (`TopmostIsShown`), so the last slot at a pixel is the topmost pad there. It is shown if it is opaque and fits, which is when the RGA takes its job |

Each theorem about a specification is Init ⇒ Inv, Inv ∧ [Next] ⇒ Inv′ with one step per action, Inv ⇒
property. The properties are not inductive by themselves: an invalid input shows the image only because of where
the bus thread and the callback are, a pause follows playing only because of what the messages under way
mean, the pipeline is released after its users only because of what `main` has waited for, a pixel is right at
the end only because of the jobs still queued before. The strengthenings were model-checked first.

What the theorems assume beyond types:

- The theorems of `PipelineProofs` assume `Len(Config) <= MaxStream` (`kVideomixMaxStream`, 8): with more the
  mixer refuses the request and the worker uses a pad it did not get. `RegionShowsItsInputHolds` assumes
  at most 3 inputs, because the layout of three screens has no region for a fourth; `main` makes three.
- `PadsAssumption`: finitely many pads; frames and outputs have a positive width, height and pixel aspect ratio,
  as GStreamer's caps guarantee; positions and sizes are any integers.
- `ScenesAssumption`: positions and widths are any integers, alpha a percentage
  (`rgacompositor.cpp:695`).

The properties were the first thing the proofs tested, the model the second: proving `TypeCorrect` of
`CompositorPads` showed that `OutputSize` had two overlapping cases for a width of 0 with sizing policy
`none`; it now decides in the order of the code's early returns.

Only model-checked: liveness (`ArrivesUnlessOvertaken`, `StopReturnsUnlessOvertaken`,
`FailedIsRestarted`, `InvalidIsTemporary`, `SetPlayingResolves`, `NotLeftPaused`, `SignalEnds`), which is beyond
the prover, and the violations, which need a single behaviour. The proofs use
of `Gcd` only that it is a common divisor; that it is the greatest, so that ratios are reduced, is left to the
`geometry` run.

## 5. What remains

1. The theorem of `RegionShowsItsInput` covers the layout that `main` chooses; the layouts without a caller
   have no model.
2. Liveness of `ProcessExit` with the signal also on `main` and the bus thread: the theorems cover every set of
   threads, the liveness run three of them.
3. Lemmas about `GhostPads` and `InputBins` for every sequence of requests, which `Pipeline` uses only as far
   as the program goes.

### Not modelled

- *Pad probes*: statistics for log lines; the one probe that acts is in `InputModule`.
- *Console*: two stubs; `rgavideoconvert` and its test: not in the top-level build, one blit without state.
- *KMS output* beyond its construction: calls into DRM; no state of its own afterwards.
- *Vendored libraries*: the queue is modelled by what its users rely on, signals are calls.
- *Operations without a caller*: `destroy`, `pause`, `disconnect`, `del_pad`, `set_style`, the layouts of one, two
  and four screens, `MediaInputModule::deinit`. Nothing can be said about how they are used.
- *Inside rgacompositor*: formats, crossfading, `converter-config`, the software paths that are commented
  out, seeking and QoS events; inside inputs: `get_info`, `set_property`.
