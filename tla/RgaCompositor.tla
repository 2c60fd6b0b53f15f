---------------------------- MODULE RgaCompositor ----------------------------
(***************************************************************************)
(* The frame cycle of rgacompositor: the streaming thread negotiates a     *)
(* background buffer, prepares the frames of its pads, wraps them and the  *)
(* output buffer for the RGA, submits one asynchronous job per frame into  *)
(* the background, waits for their fences, copies the background to the    *)
(* output and releases what it wrapped. Meanwhile the application sets pad *)
(* properties without a lock and the RGA runs jobs on its cores.           *)
(*                                                                         *)
(* The picture is one row of pixels; a pixel holds the frame drawn there.  *)
(***************************************************************************)
EXTENDS Integers, FiniteSets, Sequences

CONSTANTS
  None,
  NumPads,          \* in the order of sinkpads, the topmost last
  OutWidth,
  Scenes,           \* pad properties [x, w, alpha] the application may set
  DmabufPads,       \* pads whose frames are dma-bufs
  OutIsDmabuf,
  MaxFrames,        \* bounds: frames, negotiations,
  MaxNegotiations,
  MaxChanges,       \* changes of a pad by the application,
  MaxFaults         \* and failing calls

ASSUME SizesAssumption ==
  /\ NumPads \in Nat /\ OutWidth \in Nat \ {0} /\ OutIsDmabuf \in BOOLEAN
  /\ MaxFrames \in Nat /\ MaxNegotiations \in Nat /\ MaxChanges \in Nat /\ MaxFaults \in Nat
  /\ None \notin Nat /\ None \notin Nat \X Nat

Pads   == 1 .. NumPads
Pixels == 0 .. OutWidth - 1

\* Buffers: a frame of a pad, an output buffer, the background of a
\* negotiation as DMA memory ("dma") or as a GstBuffer ("mem")
Frame(p, n)   == << "frame", p, n >>
OutBuffer(n)  == << "out", 0, n >>
Memory(k)     == << "mem", 0, k >>
Dma(k)        == << "dma", 0, k >>
NoBuffer      == << "none", 0, 0 >>

FrameBuffers  == {Frame(p, n) : p \in Pads, n \in 1 .. MaxFrames}
OutBuffers    == {OutBuffer(n) : n \in 1 .. MaxFrames}
Backgrounds   == {Memory(k) : k \in 1 .. MaxNegotiations} \cup {Dma(k) : k \in 1 .. MaxNegotiations}

Ctx == INSTANCE RgaContext
         WITH Buffers <- FrameBuffers \cup OutBuffers \cup Backgrounds, None <- NoBuffer

\* The row is one pixel high, the pixels are square
Info == [w |-> OutWidth, h |-> 1, par |-> << 1, 1 >>, alpha |-> FALSE]

\* the properties are ints and a ratio, given in percent
ASSUME ScenesAssumption ==
  /\ Scenes \subseteq [x : Int, w : Int, alpha : 0 .. 100]
  /\ None # Info

Geo == INSTANCE CompositorGeometry WITH NoInfo <- None

VARIABLES
  scene,        \* Pads -> pad properties, written by the application
  pc, i, slot,  \* the streaming thread: where, at which pad, at which slot
  frame,        \* number of the frame being composed
  negotiations,
  fed,          \* pads whose current buffer holds an image
  prepared,     \* pads with a prepared frame
  nPads,        \* n_pads
  slots,        \* src_.ctxs
  fences,       \* src_.release_fence_fds: a job, None for -1, or Descriptor0
  padInfo,      \* pads_info: slot -> pad, None where nothing was stored
  dst,          \* dst_ctx
  background,   \* background_ctx
  bgMemory,     \* background_frame
  table,        \* resources of the process
  pending,      \* jobs the RGA has not finished, in the order of submission
  bgRow, outRow,
  changes,
  faults,       \* calls that failed so far (history)
  spoiled       \* what disturbed this frame (history)

threadVars == << pc, i, slot, frame, negotiations, fed, prepared, nPads, padInfo >>
rgaVars    == << slots, fences, dst, background, bgMemory, table >>
rowVars    == << pending, bgRow, outRow >>
envVars    == << scene, changes >>
vars       == << threadVars, rgaVars, rowVars, envVars, faults, spoiled >>

Faults == {"wrap", "import output", "dma", "submit", "sync", "fill", "copy"}

\* the file descriptor 0, which resize() puts into a new entry of the fences
Descriptor0 == << 0, 0 >>

Job == [id : (1 .. MaxFrames) \X Pads, src : FrameBuffers, px : SUBSET Pixels]

Pixel == FrameBuffers \cup {<< "black", 0, 0 >>, << "junk", 0, 0 >>}
Black == << "black", 0, 0 >>
Junk  == << "junk", 0, 0 >>

TypeOK ==
  /\ scene \in [Pads -> Scenes]
  /\ pc \in {"idle", "prepare", "wrap output", "collect", "submit", "sync", "fill", "copy",
             "unwrap", "delivered", "stopped", "crashed", "finalized"}
  /\ i \in Nat /\ slot \in Nat /\ nPads \in 0 .. Cardinality(Pads)
  /\ frame \in 0 .. MaxFrames /\ negotiations \in 0 .. MaxNegotiations
  /\ fed \subseteq Pads /\ prepared \subseteq fed
  /\ \A s \in DOMAIN slots : slots[s] \in Ctx!Contexts
  /\ \A s \in DOMAIN fences : fences[s] \in ((1 .. MaxFrames) \X Pads) \cup {None, Descriptor0}
  /\ padInfo \in [Pads -> Pads \cup {None}]
  /\ dst \in Ctx!Contexts /\ background \in Ctx!Contexts
  /\ bgMemory \in Backgrounds \cup {NoBuffer}
  /\ table \in Ctx!Tables
  /\ \A j \in DOMAIN pending : pending[j] \in Job
  /\ bgRow \in [Pixels -> Pixel] /\ outRow \in [Pixels -> Pixel]
  /\ changes \in 0 .. MaxChanges
  /\ faults \subseteq Faults /\ spoiled \subseteq Faults \cup {"changed", "overtaken"}

Init ==
  /\ scene \in [Pads -> Scenes]
  /\ pc = "stopped" /\ i = 0 /\ slot = 0 /\ frame = 0 /\ negotiations = 0
  /\ fed = {} /\ prepared = {} /\ nPads = 0
  /\ slots = << >> /\ fences = << >> /\ padInfo = [s \in Pads |-> None]
  /\ dst = Ctx!Empty /\ background = Ctx!Empty /\ bgMemory = NoBuffer
  /\ table = Ctx!NothingHeld
  /\ pending = << >>
  /\ bgRow = [x \in Pixels |-> Junk] /\ outRow = [x \in Pixels |-> Junk]
  /\ changes = 0 /\ faults = {} /\ spoiled = {}

\* A call that may fail: MaxFaults of them do
Works    == UNCHANGED << faults, spoiled >>
Fails(f) == /\ Cardinality(faults) < MaxFaults
            /\ faults' = faults \cup {f}
            /\ spoiled' = spoiled \cup {f}

Pad(p) ==
  [xpos |-> scene[p].x, ypos |-> 0, width |-> scene[p].w, height |-> 1,
   alpha |-> scene[p].alpha, policy |-> "none", info |-> Info]

Placed(p)    == Geo!PlacedRect(Pad(p), Geo!OutputSize(Pad(p), << 1, 1 >>, TRUE))
Clamped(p)   == Geo!ClampRectangle(Placed(p), OutWidth, 1)
DrawnRect(p) == Geo!BlitRect(Pad(p), << 1, 1 >>, TRUE)

-----------------------------------------------------------------------------
(***************************************************************************)
(* The application: gst_compositor_pad_set_property, at any time           *)
(***************************************************************************)
SetProperty(p, s) ==
  /\ changes < MaxChanges /\ scene[p] # s
  /\ scene' = [scene EXCEPT ![p] = s]
  /\ changes' = changes + 1
  /\ spoiled' = spoiled \cup {"changed"}
  /\ UNCHANGED << threadVars, rgaVars, rowVars, faults >>

(***************************************************************************)
(* The RGA: several cores, each job alone, any order. pending[1] is the    *)
(* oldest; a younger job over the same pixels overtakes it.                *)
(***************************************************************************)
Others(j) == [k \in 1 .. Len(pending) - 1 |-> IF k < j THEN pending[k] ELSE pending[k + 1]]

RunJob(j) ==
  /\ j \in DOMAIN pending
  /\ bgRow' = [x \in Pixels |-> IF x \in pending[j].px THEN pending[j].src ELSE bgRow[x]]
  /\ pending' = Others(j)
  /\ spoiled' = IF \E k \in 1 .. j - 1 : pending[k].px \cap pending[j].px # {}
                THEN spoiled \cup {"overtaken"} ELSE spoiled
  /\ UNCHANGED << threadVars, rgaVars, outRow, envVars, faults >>

-----------------------------------------------------------------------------
(***************************************************************************)
(* set_functions, called by _negotiated_caps: forget the background memory *)
(* and wrap new DMA memory, or a GstBuffer if there is none. The context   *)
(* is not unwrapped first.                                                 *)
(***************************************************************************)
SetFunctions(k, outcome, imports) ==
  LET d == Ctx!WrapDmabuf(background, table, Dma(k), outcome)
      m == Ctx!WrapBuffer(d.ctx, d.table, Memory(k), FALSE, imports)
  IN  IF d.ok THEN [ctx |-> d.ctx, table |-> d.table, memory |-> NoBuffer]
              ELSE [ctx |-> m.ctx, table |-> m.table, memory |-> Memory(k)]

Negotiate ==
  /\ pc \in {"idle", "stopped"} /\ negotiations < MaxNegotiations
  /\ negotiations' = negotiations + 1
  /\ \E outcome \in Ctx!DmaOutcomes, imports \in BOOLEAN :
       LET r == SetFunctions(negotiations + 1, outcome, imports)
       IN  /\ outcome = "ok" => imports    \* the second call is not made
           /\ IF outcome = "ok" /\ imports THEN Works ELSE Fails("dma")
           /\ background' = r.ctx /\ table' = r.table /\ bgMemory' = r.memory
  /\ bgRow' = [x \in Pixels |-> Junk]
  /\ pc' = "idle"
  /\ UNCHANGED << i, slot, frame, fed, prepared, nPads, padInfo,
                  slots, fences, dst, pending, outRow, envVars >>

\* GstVideoAggregator has collected the buffers of a frame
StartFrame(images) ==
  /\ pc = "idle" /\ frame < MaxFrames
  /\ frame' = frame + 1 /\ fed' = images /\ prepared' = {}
  /\ pc' = "prepare" /\ i' = 1
  /\ spoiled' = {}
  /\ UNCHANGED << slot, negotiations, nPads, padInfo, rgaVars, rowVars, envVars, faults >>

\* mutant: lets a lower pad hide a higher one
IsObscuredByAny(p) ==
  \E q \in Pads \ {p} :
    Geo!PadObscuresRectangle(Pad(q), q \in fed, Clamped(p), << 1, 1 >>, TRUE)

(***************************************************************************)
(* gst_compositor_pad_prepare_frame_start: skip a pad that is transparent, *)
(* outside the output, or hidden by a higher pad with an image             *)
(***************************************************************************)
IsObscured(p) ==
  \E q \in Pads :
    /\ q > p
    /\ Geo!PadObscuresRectangle(Pad(q), q \in fed, Clamped(p), << 1, 1 >>, TRUE)

IsShown(p) ==
  /\ p \in fed /\ scene[p].alpha # 0
  /\ Clamped(p).w # 0 /\ Clamped(p).h # 0
  /\ ~IsObscured(p)

PrepareFrameStart ==
  /\ pc = "prepare"
  /\ IF i \in Pads
       THEN /\ prepared' = IF IsShown(i) THEN prepared \cup {i} ELSE prepared
            /\ i' = i + 1 /\ pc' = pc
       ELSE pc' = "wrap output" /\ UNCHANGED << prepared, i >>
  /\ UNCHANGED << slot, frame, negotiations, fed, nPads, padInfo,
                  rgaVars, rowVars, envVars, faults, spoiled >>

-----------------------------------------------------------------------------
(***************************************************************************)
(* gst_compositor_aggregate_frames, first part: wrap the output (no output *)
(* format makes that return false), count the prepared frames, grow the    *)
(* vectors. Growing copies the contexts and destroys the old ones, which   *)
(* unwraps what they hold. pads_info is fresh, unset memory.               *)
(***************************************************************************)
\* mutant: counts the pads with a buffer, prepared or not
CountedAll == Cardinality(fed)

Counted == Cardinality(prepared)

Grown(seq, n, new) == [s \in 1 .. n |-> IF s \in DOMAIN seq THEN seq[s] ELSE new]

AfterGrowth(t) ==
  [t EXCEPT !.handles = @ \ {slots[s].handle : s \in DOMAIN slots},
            !.maps    = @ \ {slots[s].buffer : s \in DOMAIN slots}]

WrapOutput ==
  /\ pc = "wrap output"
  /\ \E imports \in BOOLEAN :
       LET r == Ctx!WrapBuffer(dst, table, OutBuffer(frame), OutIsDmabuf, imports)
           n == Counted
       IN  /\ IF imports THEN Works ELSE Fails("import output")
           /\ dst' = r.ctx /\ nPads' = n
           /\ IF n > Len(slots)
                THEN /\ slots' = Grown(slots, n, Ctx!Empty)
                     /\ fences' = Grown(fences, n, Descriptor0)
                     /\ table' = AfterGrowth(r.table)
                ELSE table' = r.table /\ UNCHANGED << slots, fences >>
  /\ padInfo' = [s \in Pads |-> None]
  /\ outRow' = [x \in Pixels |-> Junk]
  /\ pc' = "collect" /\ i' = 1 /\ slot' = 1
  /\ UNCHANGED << frame, negotiations, fed, prepared, background, bgMemory, pending, bgRow, envVars >>

(***************************************************************************)
(* Under the object lock: wrap each prepared frame into the next slot. A   *)
(* frame that cannot be wrapped is left out, its slot goes to the next     *)
(* one, and n_pads stays.                                                  *)
(***************************************************************************)
\* mutant: the slot is used up although nothing was stored in it
NextSlotAlways(wrapped) == slot + 1

NextSlot(wrapped) == IF wrapped THEN slot + 1 ELSE slot

CollectFrame ==
  /\ pc = "collect" /\ i \in prepared
  /\ \E imports \in BOOLEAN :
       LET r == Ctx!WrapFrame(slots[slot], table, Frame(i, frame), i \in DmabufPads, imports)
       IN  /\ IF imports THEN Works ELSE Fails("wrap")
           /\ slots' = [slots EXCEPT ![slot] = r.ctx]
           /\ table' = r.table
           /\ IF r.ok THEN /\ fences' = [fences EXCEPT ![slot] = None]
                           /\ padInfo' = [padInfo EXCEPT ![slot] = i]
                      ELSE UNCHANGED << fences, padInfo >>
           /\ slot' = NextSlot(r.ok)
  /\ i' = i + 1
  /\ UNCHANGED << pc, frame, negotiations, fed, prepared, nPads,
                  dst, background, bgMemory, rowVars, envVars >>

SkipUnprepared ==
  /\ pc = "collect" /\ i \notin prepared
  /\ IF i \in Pads THEN i' = i + 1 /\ UNCHANGED << pc, slot >>
                   ELSE /\ pc' = IF nPads > 0 THEN "submit" ELSE "fill"
                        /\ slot' = 1 /\ UNCHANGED i
  /\ UNCHANGED << frame, negotiations, fed, prepared, nPads, padInfo,
                  rgaVars, rowVars, envVars, faults, spoiled >>

(***************************************************************************)
(* _rga_async_process_bg_composite: the rectangle is read from the pad's   *)
(* properties now, without a lock; imcheck or improcess may refuse the     *)
(* job, which is then forgotten.                                           *)
(***************************************************************************)
HandleLive(c) == c.rgabuf \in table.handles

Columns(r) == {x \in Pixels : x >= r.x /\ x < r.x + r.w}

JobAccepted(c, r) ==
  HandleLive(c) /\ HandleLive(background) /\ Geo!BlitAccepted(r, OutWidth, 1)

Submitted(r) ==
  /\ fences' = [fences EXCEPT ![slot] = << frame, slot >>]
  /\ pending' = Append(pending, [id |-> << frame, slot >>, src |-> slots[slot].rgabuf,
                                 px |-> Columns(r)])

Submit ==
  /\ pc = "submit" /\ slot <= nPads /\ padInfo[slot] # None
  /\ LET r == DrawnRect(padInfo[slot])
     IN  \/ JobAccepted(slots[slot], r) /\ Submitted(r) /\ Works
         \/ ~JobAccepted(slots[slot], r) /\ UNCHANGED << fences, pending >> /\ Works
         \/ Fails("submit") /\ UNCHANGED << fences, pending >>
  /\ slot' = slot + 1
  /\ UNCHANGED << pc, i, frame, negotiations, fed, prepared, nPads, padInfo,
                  slots, dst, background, bgMemory, table, bgRow, outRow, envVars >>

\* An entry of pads_info nobody wrote: any pointer, so any rectangle or the
\* end of the process
SubmitUnset ==
  /\ pc = "submit" /\ slot <= nPads /\ padInfo[slot] = None
  /\ \/ pc' = "crashed" /\ UNCHANGED << slot, fences, pending >>
     \/ UNCHANGED << pc, fences, pending >> /\ slot' = slot + 1
     \/ \E x \in Pixels, w \in 1 .. OutWidth :
          /\ JobAccepted(slots[slot], Geo!Rect(x, 0, w, 1))
          /\ Submitted(Geo!Rect(x, 0, w, 1))
          /\ slot' = slot + 1 /\ UNCHANGED pc
  /\ UNCHANGED << i, frame, negotiations, fed, prepared, nPads, padInfo,
                  slots, dst, background, bgMemory, table, bgRow, outRow, envVars, faults, spoiled >>

SubmitDone ==
  /\ pc = "submit" /\ slot > nPads
  /\ pc' = "sync" /\ slot' = 1
  /\ UNCHANGED << i, frame, negotiations, fed, prepared, nPads, padInfo,
                  rgaVars, rowVars, envVars, faults, spoiled >>

\* mutant: waits for the fence of the first slot only
SignalledFirst(f) == f[2] = 1 => \A j \in DOMAIN pending : pending[j].id # f

(***************************************************************************)
(* _rga_sync_process: wait for each fence; a failing imsync is logged. An  *)
(* entry that was never written is waited for as well: no job has          *)
(* descriptor 0, so it holds nothing back.                                 *)
(***************************************************************************)
Signalled(f) == \A j \in DOMAIN pending : pending[j].id # f

SyncProcess ==
  /\ pc = "sync" /\ slot <= nPads
  /\ \/ fences[slot] = None /\ Works
     \/ fences[slot] # None /\ Signalled(fences[slot]) /\ Works
     \/ fences[slot] # None /\ Fails("sync")
  /\ slot' = slot + 1
  /\ UNCHANGED << pc, i, frame, negotiations, fed, prepared, nPads, padInfo,
                  rgaVars, rowVars, envVars >>

SyncDone ==
  /\ pc = "sync" /\ slot > nPads
  /\ pc' = "copy"
  /\ UNCHANGED << i, slot, frame, negotiations, fed, prepared, nPads, padInfo,
                  rgaVars, rowVars, envVars, faults, spoiled >>

(***************************************************************************)
(* imfill black if no pad had a frame, then imcopy to the output, both     *)
(* synchronous, both refused without handles and both able to fail: imfill *)
(* is not even asked, a failing imcopy is logged. Then everything wrapped  *)
(* for the frame is unwrapped and GST_FLOW_OK returned.                    *)
(***************************************************************************)
BgFill ==
  /\ pc = "fill"
  /\ \/ HandleLive(background) /\ bgRow' = [x \in Pixels |-> Black] /\ Works
     \/ ~HandleLive(background) /\ UNCHANGED bgRow /\ Works
     \/ Fails("fill") /\ UNCHANGED bgRow
  /\ pc' = "copy"
  /\ UNCHANGED << i, slot, frame, negotiations, fed, prepared, nPads, padInfo,
                  rgaVars, pending, outRow, envVars >>

BgCopy ==
  /\ pc = "copy"
  /\ LET live == HandleLive(background) /\ HandleLive(dst)
     IN  \/ live /\ outRow' = bgRow /\ Works
         \/ ~live /\ UNCHANGED outRow /\ Works
         \/ Fails("copy") /\ UNCHANGED outRow
  /\ pc' = "unwrap"
  /\ UNCHANGED << i, slot, frame, negotiations, fed, prepared, nPads, padInfo,
                  rgaVars, pending, bgRow, envVars >>

\* mutant: forgets the output buffer
WrappedSlots == {slots[s] : s \in 1 .. nPads}

Wrapped == {slots[s] : s \in 1 .. nPads} \cup {dst}

Unwrap ==
  /\ pc = "unwrap"
  /\ slots' = [s \in DOMAIN slots |-> IF s <= nPads THEN Ctx!Unwrapped(slots[s]) ELSE slots[s]]
  /\ dst' = Ctx!Unwrapped(dst)
  /\ table' = [table EXCEPT !.handles = @ \ {c.handle : c \in Wrapped},
                            !.maps    = @ \ {c.buffer : c \in Wrapped}]
  /\ pc' = "delivered"
  /\ UNCHANGED << i, slot, frame, negotiations, fed, prepared, nPads, padInfo,
                  fences, background, bgMemory, rowVars, envVars, faults, spoiled >>

\* the frame goes downstream; the class waits for the next one
Finish ==
  /\ pc = "delivered"
  /\ pc' = "idle"
  /\ UNCHANGED << i, slot, frame, negotiations, fed, prepared, nPads, padInfo,
                  rgaVars, rowVars, envVars, faults, spoiled >>

-----------------------------------------------------------------------------
\* gst_composior_stop
Stop ==
  /\ pc = "idle"
  /\ bgMemory' = NoBuffer
  /\ pc' = "stopped"
  /\ UNCHANGED << i, slot, frame, negotiations, fed, prepared, nPads, padInfo,
                  slots, fences, dst, background, table, rowVars, envVars, faults, spoiled >>

(***************************************************************************)
(* gst_compositor_finalize unwraps the background. The GstBuffer it is     *)
(* mapped from has been freed by then, by stop or a renegotiation: the     *)
(* unmapping works, is refused because what was the buffer no longer looks *)
(* like one, or ends the process.                                          *)
(***************************************************************************)
Dangling == background.buffer # NoBuffer /\ background.buffer # bgMemory

FinalizeUnchanged ==
  UNCHANGED << i, slot, frame, negotiations, fed, prepared, nPads, padInfo,
               slots, fences, dst, bgMemory, rowVars, envVars, faults, spoiled >>

Finalize ==
  /\ pc = "stopped" /\ pending = << >>
  /\ background' = Ctx!Unwrapped(background)
  /\ table' = Ctx!Without(table, background)
  /\ pc' = "finalized"
  /\ FinalizeUnchanged

FinalizeDangling ==
  /\ pc = "stopped" /\ pending = << >> /\ Dangling
  /\ \/ /\ background' = Ctx!Unwrapped(background)
        /\ table' = [Ctx!Without(table, background) EXCEPT !.maps = table.maps]
        /\ pc' = "finalized"
     \/ pc' = "crashed" /\ UNCHANGED << background, table >>
  /\ FinalizeUnchanged

Thread ==
  \/ PrepareFrameStart \/ WrapOutput \/ CollectFrame \/ SkipUnprepared
  \/ Submit \/ SubmitUnset \/ SubmitDone \/ SyncProcess \/ SyncDone
  \/ BgFill \/ BgCopy \/ Unwrap \/ Finish

Rga == \E j \in DOMAIN pending : RunJob(j)

Next ==
  \/ Negotiate \/ Stop \/ Finalize \/ FinalizeDangling
  \/ \E images \in SUBSET Pads : StartFrame(images)
  \/ Thread
  \/ Rga
  \/ \E p \in Pads, s \in Scenes : SetProperty(p, s)

Spec == Init /\ [][Next]_vars
-----------------------------------------------------------------------------
Undisturbed == spoiled = {} /\ HandleLive(background)

Shows(x) == {p \in fed : scene[p].alpha # 0 /\ x \in Columns(DrawnRect(p))}

(***************************************************************************)
(* A frame in whose composition no call failed, no property changed and no *)
(* job was overtaken, drawn into a background the RGA accepts, shows, at   *)
(* every pixel, the current frame of the topmost pad with an image there,  *)
(* if that pad is opaque and its rectangle fits the output: leaving hidden *)
(* frames out hides nothing that should be seen, and a slot never draws an *)
(* older frame. Nothing is claimed where the topmost pad is translucent,   *)
(* for the code does not blend, or where the RGA refuses its rectangle.    *)
(***************************************************************************)
TopmostShown ==
  pc = "delivered" /\ Undisturbed =>
    \A x \in Pixels : \A p \in Shows(x) :
      /\ \A q \in Shows(x) : q <= p
      /\ scene[p].alpha = 100 /\ Geo!BlitAccepted(DrawnRect(p), OutWidth, 1)
      => outRow[x] = Frame(p, frame)

(***************************************************************************)
(* Where no image is drawn the picture shows the background, as the class  *)
(* documentation says. The background is filled only for a frame without   *)
(* any image, and is otherwise what earlier frames left in it.             *)
(***************************************************************************)
UncoveredIsBackground ==
  pc = "delivered" /\ Undisturbed /\ faults = {} =>
    \A x \in Pixels : Shows(x) = {} => outRow[x] \notin FrameBuffers

(***************************************************************************)
(* The process ends in the element only after a call has failed: a wrap in *)
(* this composition, which leaves entries of pads_info unwritten because   *)
(* the pads were counted before, or the allocation of DMA memory, without  *)
(* which the background is mapped from a buffer that is freed too early.   *)
(***************************************************************************)
CrashesOnlyAfterFailure ==
  pc = "crashed" => "wrap" \in spoiled \/ "dma" \in faults

(***************************************************************************)
(* A job that is submitted reads the frame of the pad its slot is about,   *)
(* of the current composition: slots are filled without gaps also when a   *)
(* frame cannot be wrapped, and no slot still holds an earlier frame.      *)
(***************************************************************************)
SlotsHoldTheirFrames ==
  pc \in {"submit", "sync", "copy"} =>
    /\ \A s \in 1 .. nPads :
         padInfo[s] # None => /\ padInfo[s] \in prepared
                              /\ slots[s].rgabuf = Frame(padInfo[s], frame)
                              /\ slots[s].handle = slots[s].rgabuf
    /\ \A s \in 2 .. nPads : padInfo[s] # None => padInfo[s - 1] # None
    /\ "wrap" \notin spoiled => \A s \in 1 .. nPads : padInfo[s] # None

(***************************************************************************)
(* Unless imsync failed, no job of the RGA outlives its composition: none  *)
(* is pending when the background is copied, so none writes it during or   *)
(* after the copy, and none reads a frame that has been unwrapped.         *)
(***************************************************************************)
JobsEndBeforeCopy ==
  pending # << >> /\ "sync" \notin faults =>
    /\ pc \in {"submit", "sync"} \/ pc = "crashed"
    /\ \A j \in DOMAIN pending : pending[j].id[1] = frame /\ pending[j].src \in table.handles

(***************************************************************************)
(* Between two compositions nothing of a frame or an output buffer is held *)
(* but mappings of frames the RGA refused to import: a slot that goes to   *)
(* the next frame forgets them.                                            *)
(***************************************************************************)
FrameResourcesReleased ==
  pc \in {"delivered", "idle", "stopped", "finalized"} =>
    /\ table.handles \cap (FrameBuffers \cup OutBuffers) = {}
    /\ table.maps \cap OutBuffers = {}
    /\ "wrap" \notin faults => table.maps \cap FrameBuffers = {}

(***************************************************************************)
(* Every context points only at resources the process still holds, and no  *)
(* two contexts at the same one: nothing is released twice.                *)
(***************************************************************************)
ContextsHold ==
  LET all == {dst, background} \cup {slots[s] : s \in DOMAIN slots}
  IN  pc # "finalized" =>
        /\ \A c \in all : Ctx!Holds(c, table)
        /\ \A s, t \in DOMAIN slots :
             s # t => \/ slots[s].handle = NoBuffer
                      \/ slots[s].handle # slots[t].handle

(***************************************************************************)
(* While DMA memory can be had, the background the jobs draw into is the   *)
(* one of the output negotiated last, however often it is renegotiated,    *)
(* and the size its release will unmap is its own. Memory from a GstBuffer *)
(* is there while it is mapped, until the first renegotiation or stop.     *)
(***************************************************************************)
BackgroundIsCurrent ==
  pc \notin {"stopped", "finalized", "crashed"} =>
    /\ "dma" \notin faults => /\ background.rgabuf = Dma(negotiations)
                             /\ background.size = background.dma
                             /\ HandleLive(background)
    /\ negotiations = 1 => background.buffer \in {NoBuffer, bgMemory}

(***************************************************************************)
(* When the element is gone, all that is left are the backgrounds of       *)
(* earlier negotiations (set_functions wraps over them) and what a failed  *)
(* call left behind.                                                       *)
(***************************************************************************)
FinalizedReleases ==
  pc = "finalized" /\ faults = {} =>
    /\ table.handles \cup table.dmas \subseteq {Dma(k) : k \in 1 .. negotiations - 1}
    /\ table.maps = {} /\ table.strays = 0
=============================================================================
