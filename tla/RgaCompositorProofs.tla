------------------------- MODULE RgaCompositorProofs -------------------------
(***************************************************************************)
(* The safety properties of RgaCompositor about contexts, slots, jobs and  *)
(* the picture, for any number of pads, frames, negotiations and failing   *)
(* calls.                                                                  *)
(*                                                                         *)
(* Filled is the heart of it: while a frame is composed, the slots filled  *)
(* so far are the first ones, in the order of the pads, each holding the   *)
(* frame of its own pad, and every other slot is empty. So two slots never *)
(* hold the same buffer, and what a composition wraps it also unwraps.     *)
(*                                                                         *)
(* TopInv is the picture while it is composed: a pixel waits for the job   *)
(* of the last slot that covers it or has been drawn by it, and then no    *)
(* job that is left would draw over it (Painted). Jobs may run in any      *)
(* order because the jobs of a frame are queued in the order of its slots  *)
(* (Queued) and those that share a pixel do not overtake each other.       *)
(***************************************************************************)
EXTENDS RgaCompositor, FiniteSetTheorems, SequenceTheorems, TLAPS

\* The contexts that are only ever given buffers of B
ContextsOf(B, dmas) ==
  [handle : B \cup {NoBuffer}, buffer : B \cup {NoBuffer}, dma : dmas, size : dmas,
   rgabuf : B \cup {NoBuffer}]

Clean(c) == c.handle = NoBuffer /\ c.buffer = NoBuffer

Composing == {"collect", "submit", "sync", "fill", "copy", "unwrap"}

FenceValues == ((1 .. MaxFrames) \X Pads) \cup {None, Descriptor0}

Before(n) == {p \in prepared : p < n}

Types ==
  /\ TypeOK
  /\ slots \in Seq(ContextsOf(FrameBuffers, {NoBuffer}))
  /\ fences \in Seq(FenceValues)
  /\ Len(fences) = Len(slots)
  /\ dst \in ContextsOf(OutBuffers, {NoBuffer})
  /\ background \in ContextsOf(Backgrounds, Backgrounds \cup {NoBuffer})
  /\ pending \in Seq(Job)
  /\ pc \in {"submit", "sync"} => slot >= 1
  /\ spoiled \cap Faults \subseteq faults
  /\ pc \in Composing \cup {"prepare", "wrap output"} => frame \in 1 .. MaxFrames

Distinct ==
  \A s, t \in DOMAIN slots :
    s # t => slots[s].handle = NoBuffer \/ slots[s].handle # slots[t].handle

\* Who holds what; a process that has crashed is past cleaning up
Held ==
  /\ \A s \in DOMAIN slots : Ctx!Holds(slots[s], table)
  /\ Ctx!Holds(dst, table) /\ Ctx!Holds(background, table)
  /\ table.handles \subseteq Backgrounds \cup {dst.handle} \cup {slots[s].handle : s \in DOMAIN slots}
  /\ table.maps \cap OutBuffers \subseteq {dst.buffer}
  /\ "wrap" \notin faults =>
       table.maps \cap FrameBuffers \subseteq {slots[s].buffer : s \in DOMAIN slots}
  /\ pc \notin Composing /\ pc # "crashed" => Clean(dst) /\ \A s \in DOMAIN slots : Clean(slots[s])
  /\ pc = "crashed" => Distinct

\* The slots while a frame is composed
Slot(s) ==
  IF padInfo[s] = None THEN slots[s].handle = NoBuffer
  ELSE /\ padInfo[s] \in prepared
       /\ slots[s].handle = Frame(padInfo[s], frame)
       /\ slots[s].rgabuf = Frame(padInfo[s], frame)

Filled ==
  pc \in Composing =>
    /\ nPads = Cardinality(prepared) /\ nPads <= Len(slots)
    /\ \A s \in 1 .. nPads : Slot(s)
    /\ \A s \in DOMAIN slots : s > nPads => Clean(slots[s])
    /\ \A s, t \in Pads : s < t /\ padInfo[t] # None =>
         padInfo[s] # None /\ padInfo[s] < padInfo[t]

Collecting ==
  IF pc = "collect"
    THEN /\ i \in 1 .. NumPads + 1 /\ slot \in 1 .. nPads + 1
         /\ slot - 1 <= Cardinality(Before(i))
         /\ "wrap" \notin spoiled => slot - 1 = Cardinality(Before(i))
         /\ \A s \in Pads : padInfo[s] # None <=> s < slot
         /\ \A s \in Pads : padInfo[s] # None => padInfo[s] < i
         /\ \A s \in DOMAIN slots : s > slot \/ (s = slot /\ "wrap" \notin spoiled) => Clean(slots[s])
    ELSE pc \in Composing /\ "wrap" \notin spoiled => \A s \in 1 .. nPads : padInfo[s] # None

\* The jobs of the RGA and the fences they have been given
Jobs ==
  "sync" \notin faults =>
    /\ pending # << >> => pc \in {"submit", "sync", "crashed"}
    /\ \A j \in DOMAIN pending :
         /\ pending[j].id[1] = frame /\ pending[j].src \in table.handles
         /\ pending[j].id[2] \in 1 .. nPads
         /\ fences[pending[j].id[2]] = pending[j].id
         /\ pc = "submit" => pending[j].id[2] < slot
         /\ pc = "sync" => pending[j].id[2] >= slot

\* The background and its negotiations
Negotiated ==
  /\ pc \notin {"stopped", "finalized", "crashed"} => negotiations >= 1
  /\ negotiations = 0 => background.buffer = NoBuffer
  /\ "dma" \notin faults /\ negotiations >= 1 /\ pc # "finalized" =>
       /\ background.handle = Dma(negotiations) /\ background.rgabuf = Dma(negotiations)
       /\ background.dma = Dma(negotiations) /\ background.size = Dma(negotiations)
  /\ negotiations = 1 /\ pc \notin {"stopped", "finalized", "crashed"} =>
       background.buffer \in {NoBuffer, bgMemory}
  /\ "dma" \notin faults => background.buffer = NoBuffer
  /\ faults = {} =>
       /\ table.dmas \cup (table.handles \cap Backgrounds) \subseteq {Dma(k) : k \in 1 .. negotiations}
       /\ table.maps \cap Backgrounds = {} /\ table.strays = 0
  /\ FinalizedReleases

IInv == Types /\ Held /\ Filled /\ Collecting /\ Jobs /\ Negotiated

-----------------------------------------------------------------------------
\* The buffers are four disjoint kinds, and a frame tells its pad
Buffers == FrameBuffers \cup OutBuffers \cup Backgrounds

LEMMA BuffersDiffer ==
  /\ FrameBuffers \cap OutBuffers = {} /\ FrameBuffers \cap Backgrounds = {}
  /\ OutBuffers \cap Backgrounds = {} /\ NoBuffer \notin Buffers
  /\ \A n \in 1 .. MaxFrames : OutBuffer(n) \in OutBuffers
  /\ \A k \in 1 .. MaxNegotiations : Dma(k) \in Backgrounds /\ Memory(k) \in Backgrounds
  /\ \A p \in Pads, n \in 1 .. MaxFrames : Frame(p, n) \in FrameBuffers
  /\ \A p, q \in Pads, n \in 1 .. MaxFrames : Frame(p, n) = Frame(q, n) => p = q
  /\ \A k, l : Dma(k) # Memory(l)
<1>1. /\ \A b \in FrameBuffers : b[1] = "frame"
      /\ \A b \in OutBuffers : b[1] = "out"
      /\ \A b \in Backgrounds : b[1] \in {"mem", "dma"}
      /\ NoBuffer[1] = "none"
  BY DEF FrameBuffers, OutBuffers, Backgrounds, Frame, OutBuffer, Dma, Memory, NoBuffer
<1>2. \A p, q \in Pads, n \in 1 .. MaxFrames : Frame(p, n) = Frame(q, n) => p = q
  BY DEF Frame
<1>3. \A k, l : Dma(k) # Memory(l)
  BY DEF Dma, Memory
<1>4. /\ \A n \in 1 .. MaxFrames : OutBuffer(n) \in OutBuffers
      /\ \A k \in 1 .. MaxNegotiations : Dma(k) \in Backgrounds /\ Memory(k) \in Backgrounds
      /\ \A p \in Pads, n \in 1 .. MaxFrames : Frame(p, n) \in FrameBuffers
  BY DEF FrameBuffers, OutBuffers, Backgrounds
<1>5. FrameBuffers \cap OutBuffers = {} /\ FrameBuffers \cap Backgrounds = {}
  BY <1>1
<1>6. OutBuffers \cap Backgrounds = {} /\ NoBuffer \notin Buffers
  BY <1>1 DEF Buffers
<1> QED
  BY <1>2, <1>3, <1>4, <1>5, <1>6

\* A function on 1..n is a sequence of length n
LEMMA FunctionIsSequence ==
  ASSUME NEW S, NEW n \in Nat, NEW f \in [1 .. n -> S]
  PROVE  f \in Seq(S) /\ Len(f) = n
<1>1. f \in Seq(S)
  BY SeqDef
<1>2. DOMAIN f = 1 .. Len(f) /\ Len(f) \in Nat
  BY <1>1, LenProperties
<1>3. 1 .. n = 1 .. Len(f)
  BY <1>2
<1> QED
  BY <1>1, <1>2, <1>3

LEMMA PadsAreCounted ==
  ASSUME prepared \subseteq Pads
  PROVE  /\ IsFiniteSet(prepared) /\ Cardinality(prepared) \in Nat
         /\ Cardinality(Pads) = NumPads /\ Cardinality(prepared) <= NumPads
<1>1. IsFiniteSet(Pads) /\ Cardinality(Pads) = NumPads
  BY SizesAssumption, FS_Interval DEF Pads
<1> QED
  BY <1>1, FS_Subset, FS_CardinalityType

\* The prepared pads the collecting loop has passed
LEMMA BeforeCounts ==
  ASSUME prepared \subseteq Pads, NEW n \in 1 .. NumPads + 1
  PROVE  /\ Before(1) = {} /\ Cardinality(Before(1)) = 0
         /\ Before(NumPads + 1) = prepared
         /\ Cardinality(Before(n)) \in Nat /\ Cardinality(Before(n)) <= Cardinality(prepared)
         /\ n \in prepared => /\ Cardinality(Before(n + 1)) = Cardinality(Before(n)) + 1
                              /\ Cardinality(Before(n)) < Cardinality(prepared)
         /\ n \notin prepared => Before(n + 1) = Before(n)
<1>1. IsFiniteSet(prepared) /\ \A p \in prepared : p \in 1 .. NumPads
  BY PadsAreCounted DEF Pads
<1>2. Before(1) = {} /\ Cardinality(Before(1)) = 0
  BY <1>1, FS_EmptySet DEF Before
<1>3. Before(NumPads + 1) = prepared
  BY <1>1, SizesAssumption DEF Before
<1>4. /\ IsFiniteSet(Before(n)) /\ Cardinality(Before(n)) \in Nat
      /\ Cardinality(Before(n)) <= Cardinality(prepared)
      /\ Cardinality(Before(n)) = Cardinality(prepared) => Before(n) = prepared
  <2>1. Before(n) \in SUBSET prepared
    BY DEF Before
  <2> QED
    BY <1>1, <2>1, FS_Subset, FS_CardinalityType
<1>5. n \notin prepared => Before(n + 1) = Before(n)
  BY <1>1 DEF Before
<1>6. ASSUME n \in prepared
      PROVE  /\ Cardinality(Before(n + 1)) = Cardinality(Before(n)) + 1
             /\ Cardinality(Before(n)) < Cardinality(prepared)
  <2>1. Before(n + 1) = Before(n) \cup {n} /\ n \notin Before(n)
    <3>1. \A p \in prepared : p < n + 1 <=> p < n \/ p = n
      BY <1>1
    <3>2. ~(n < n)
      BY <1>1, <1>6
    <3> QED
      BY <1>6, <3>1, <3>2 DEF Before
  <2>2. Cardinality(Before(n) \cup {n}) = Cardinality(Before(n)) + 1
    BY <1>4, <2>1, FS_AddElement
  <2>3. Cardinality(prepared) \in Nat
    BY <1>1, FS_CardinalityType
  <2>4. Cardinality(Before(n)) # Cardinality(prepared)
    BY <1>4, <1>6, <2>1
  <2>5. Cardinality(Before(n + 1)) = Cardinality(Before(n)) + 1
    BY <2>1, <2>2
  <2>6. Cardinality(Before(n)) < Cardinality(prepared)
    BY <1>4, <2>3, <2>4
  <2> QED
    BY <2>5, <2>6
<1> QED
  BY <1>2, <1>3, <1>4, <1>5, <1>6

-----------------------------------------------------------------------------
LEMMA Initially == Init => IInv
<1> SUFFICES ASSUME Init PROVE IInv
  OBVIOUS
<1>1. /\ slots = << >> /\ fences = << >> /\ pending = << >>
      /\ Len(slots) = 0 /\ Len(fences) = 0 /\ Len(pending) = 0
      /\ DOMAIN slots = {} /\ DOMAIN fences = {} /\ DOMAIN pending = {}
  BY DEF Init
<1>2. TypeOK
  <2>1. /\ scene \in [Pads -> Scenes] /\ i \in Nat /\ slot \in Nat /\ nPads \in 0 .. Cardinality(Pads)
        /\ frame \in 0 .. MaxFrames /\ negotiations \in 0 .. MaxNegotiations /\ changes \in 0 .. MaxChanges
    BY SizesAssumption, PadsAreCounted DEF Init
  <2>2. /\ dst \in Ctx!Contexts /\ background \in Ctx!Contexts /\ table \in Ctx!Tables
        /\ bgMemory \in Backgrounds \cup {NoBuffer}
    BY DEF Init, Ctx!Contexts, Ctx!Tables, Ctx!Empty, Ctx!NothingHeld
  <2>3. /\ padInfo \in [Pads -> Pads \cup {None}]
        /\ bgRow \in [Pixels -> Pixel] /\ outRow \in [Pixels -> Pixel]
    BY DEF Init, Pixel, Junk
  <2>4. /\ pc \in {"idle", "prepare", "wrap output", "collect", "submit", "sync", "fill", "copy", "unwrap",
             "delivered", "stopped", "crashed", "finalized"}
        /\ fed \subseteq Pads /\ prepared \subseteq fed
        /\ faults \subseteq Faults /\ spoiled \subseteq Faults \cup {"changed", "overtaken"}
    BY DEF Init
  <2> QED
    BY <1>1, <2>1, <2>2, <2>3, <2>4 DEF TypeOK
<1>3. Types
  <2>1. /\ slots \in Seq(ContextsOf(FrameBuffers, {NoBuffer}))
        /\ fences \in Seq(FenceValues)
        /\ pending \in Seq(Job)
    BY <1>1, EmptySeq
  <2>2. /\ dst \in ContextsOf(OutBuffers, {NoBuffer})
        /\ background \in ContextsOf(Backgrounds, Backgrounds \cup {NoBuffer})
    BY DEF Init, Ctx!Empty, ContextsOf
  <2>3. pc \notin Composing \cup {"prepare", "wrap output", "submit", "sync"} /\ spoiled \cap Faults \subseteq faults
    BY DEF Init, Composing
  <2> QED
    BY <1>1, <1>2, <2>1, <2>2, <2>3 DEF Types
<1>4. Held
  BY <1>1 DEF Init, Held, Ctx!Holds, Ctx!Empty, Ctx!NothingHeld, Clean, Composing
<1>5. Filled /\ Collecting /\ Jobs
  BY <1>1 DEF Init, Filled, Collecting, Jobs, Composing
<1>6. Negotiated
  <2>1. FinalizedReleases
    BY DEF Init, FinalizedReleases
  <2> QED
    BY <2>1 DEF Init, Negotiated, Ctx!Empty, Ctx!NothingHeld
<1> QED
  BY <1>3, <1>4, <1>5, <1>6 DEF IInv

-----------------------------------------------------------------------------
(***************************************************************************)
(* The application and the RGA                                             *)
(***************************************************************************)
LEMMA SetPropertyKeeps ==
  ASSUME IInv, NEW p \in Pads, NEW s \in Scenes, SetProperty(p, s)
  PROVE  IInv'
<1> USE DEF SetProperty, threadVars, rgaVars, rowVars, envVars
<1>1. Types'
  <2>1. TypeOK'
    <3>1. scene' \in [Pads -> Scenes] /\ changes' \in 0 .. MaxChanges
      <4>1. scene \in [Pads -> Scenes] /\ changes \in 0 .. MaxChanges
        BY DEF IInv, Types, TypeOK
      <4>2. scene' \in [Pads -> Scenes]
        BY <4>1
      <4>3. changes' \in 0 .. MaxChanges
        BY <4>1, SizesAssumption
      <4> QED
        BY <4>2, <4>3
    <3>2. spoiled' \subseteq Faults \cup {"changed", "overtaken"}
      BY DEF IInv, Types, TypeOK
    <3> QED
      BY <3>1, <3>2 DEF IInv, Types, TypeOK
  <2>2. spoiled' \cap Faults \subseteq faults
    BY DEF IInv, Types, Faults
  <2> QED
    BY <2>1, <2>2 DEF IInv, Types
<1>2. Held'
  BY DEF IInv, Held, Distinct
<1>3. Filled'
  BY DEF IInv, Filled, Slot
<1>4. Collecting'
  BY DEF IInv, Collecting, Before
<1>5. Jobs'
  BY DEF IInv, Jobs
<1>6. Negotiated'
  BY DEF IInv, Negotiated, FinalizedReleases
<1> QED
  BY <1>1, <1>2, <1>3, <1>4, <1>5, <1>6 DEF IInv

LEMMA RunJobKeeps ==
  ASSUME IInv, NEW j \in DOMAIN pending, RunJob(j)
  PROVE  IInv'
<1> USE DEF RunJob, threadVars, rgaVars, envVars
<1>1. /\ pending \in Seq(Job) /\ Len(pending) \in Nat /\ DOMAIN pending = 1 .. Len(pending)
      /\ \A k \in DOMAIN pending : pending[k] \in Job
  BY LenProperties, ElementOfSeq DEF IInv, Types
<1>2. /\ pending' \in Seq(Job) /\ DOMAIN pending' = 1 .. Len(pending) - 1
      /\ \A k \in DOMAIN pending' :
           \E l \in DOMAIN pending : pending'[k] = pending[l]
      /\ pending # << >>
  <2>1. pending # << >>
    BY <1>1
  <2>2. Len(pending) - 1 \in Nat
    BY <1>1
  <2>3. \A k \in 1 .. Len(pending) - 1 :
          (IF k < j THEN pending[k] ELSE pending[k + 1]) \in Job
    BY <1>1
  <2>4. Others(j) \in [1 .. Len(pending) - 1 -> Job]
    BY <2>3 DEF Others
  <2>5. pending' \in Seq(Job)
    BY <2>2, <2>4, FunctionIsSequence
  <2>6. DOMAIN pending' = 1 .. Len(pending) - 1
    BY DEF Others
  <2>7. ASSUME NEW k \in 1 .. Len(pending) - 1
        PROVE  \E l \in DOMAIN pending : pending'[k] = pending[l]
    <3>1. k \in 1 .. Len(pending) /\ k + 1 \in 1 .. Len(pending)
      BY <1>1
    <3>2. pending'[k] = IF k < j THEN pending[k] ELSE pending[k + 1]
      BY DEF Others
    <3> QED
      BY <1>1, <3>1, <3>2
  <2> QED
    BY <2>1, <2>5, <2>6, <2>7
<1>3. Types'
  <2>1. bgRow' \in [Pixels -> Pixel]
    <3>1. pending[j].src \in Pixel
      BY <1>1 DEF Job, Pixel
    <3> QED
      BY <3>1 DEF IInv, Types, TypeOK
  <2>2. \A k \in DOMAIN pending' : pending'[k] \in Job
    BY <1>1, <1>2
  <2>3. /\ spoiled' \subseteq Faults \cup {"changed", "overtaken"}
        /\ spoiled' \cap Faults \subseteq faults
    BY DEF IInv, Types, TypeOK, Faults
  <2>4. TypeOK'
    BY <2>1, <2>2, <2>3 DEF IInv, Types, TypeOK
  <2> QED
    BY <1>2, <2>3, <2>4 DEF IInv, Types
<1>4. Held'
  BY DEF IInv, Held, Distinct
<1>5. Filled'
  BY DEF IInv, Filled, Slot
<1>6. Collecting'
  <2>1. spoiled \subseteq spoiled' /\ ("wrap" \in spoiled' => "wrap" \in spoiled)
    OBVIOUS
  <2> QED
    BY <2>1 DEF IInv, Collecting, Before
<1>7. Jobs'
  <2> SUFFICES ASSUME "sync" \notin faults
               PROVE  /\ pc \in {"submit", "sync", "crashed"}
                      /\ \A k \in DOMAIN pending' :
                           /\ pending'[k].id[1] = frame /\ pending'[k].src \in table.handles
                           /\ pending'[k].id[2] \in 1 .. nPads
                           /\ fences[pending'[k].id[2]] = pending'[k].id
                           /\ pc = "submit" => pending'[k].id[2] < slot
                           /\ pc = "sync" => pending'[k].id[2] >= slot
    BY DEF Jobs
  <2> QED
    BY <1>2 DEF IInv, Jobs
<1>8. Negotiated'
  BY DEF IInv, Negotiated, FinalizedReleases
<1> QED
  BY <1>3, <1>4, <1>5, <1>6, <1>7, <1>8 DEF IInv

-----------------------------------------------------------------------------
(***************************************************************************)
(* The beginning of a frame                                                *)
(***************************************************************************)
LEMMA StartFrameKeeps ==
  ASSUME IInv, NEW images \in SUBSET Pads, StartFrame(images)
  PROVE  IInv'
<1> USE DEF StartFrame, rgaVars, rowVars, envVars
<1>1. /\ pc = "idle" /\ pc' = "prepare" /\ pc \notin Composing /\ pc' \notin Composing /\ pc # "crashed" /\ pc' # "crashed"
      /\ frame' \in 1 .. MaxFrames
  BY SizesAssumption DEF IInv, Types, TypeOK, Composing
<1>2. Types'
  <2>1. TypeOK'
    BY <1>1 DEF IInv, Types, TypeOK
  <2> QED
    BY <1>1, <2>1 DEF IInv, Types
<1>3. Held'
  BY <1>1 DEF IInv, Held
<1>4. Filled' /\ Collecting'
  BY <1>1 DEF Filled, Collecting
<1>5. Jobs'
  BY <1>1, EmptySeq DEF IInv, Jobs
<1>6. Negotiated'
  <2>1. FinalizedReleases'
    BY <1>1 DEF FinalizedReleases
  <2> QED
    BY <1>1, <2>1 DEF IInv, Negotiated
<1> QED
  BY <1>2, <1>3, <1>4, <1>5, <1>6 DEF IInv

LEMMA PrepareFrameStartKeeps ==
  ASSUME IInv, PrepareFrameStart
  PROVE  IInv'
<1> USE DEF PrepareFrameStart, rgaVars, rowVars, envVars
<1>1. /\ pc = "prepare" /\ pc' \in {"prepare", "wrap output"}
      /\ pc \notin Composing /\ pc' \notin Composing /\ pc # "crashed" /\ pc' # "crashed"
  BY DEF Composing
<1>2. prepared' \subseteq fed /\ i' \in Nat
  <2>1. prepared \subseteq fed /\ i \in Nat
    BY DEF IInv, Types, TypeOK
  <2>2. prepared' \subseteq fed
    BY <2>1 DEF IsShown
  <2>3. i' = i \/ i' = i + 1
    OBVIOUS
  <2> HIDE DEF PrepareFrameStart
  <2>4. i' \in Nat
    BY <2>1, <2>3
  <2> QED
    BY <2>2, <2>4
<1>3. Types'
  <2>1. TypeOK'
    BY <1>1, <1>2 DEF IInv, Types, TypeOK
  <2> QED
    BY <1>1, <2>1 DEF IInv, Types
<1>4. Held'
  BY <1>1 DEF IInv, Held
<1>5. Filled' /\ Collecting'
  BY <1>1 DEF Filled, Collecting
<1>6. Jobs'
  BY <1>1, EmptySeq DEF IInv, Jobs
<1>7. Negotiated'
  <2>1. FinalizedReleases'
    BY <1>1 DEF FinalizedReleases
  <2> QED
    BY <1>1, <2>1 DEF IInv, Negotiated
<1> QED
  BY <1>3, <1>4, <1>5, <1>6, <1>7 DEF IInv

\* A context that wrap of a GstBuffer has pointed at the buffer b
LEMMA WrapBufferResult ==
  ASSUME NEW B, NEW D, NEW c \in ContextsOf(B, D), NEW t \in Ctx!Tables, NEW b \in B \cap Buffers,
         NEW isDmabuf \in BOOLEAN, NEW imports \in BOOLEAN, Ctx!Holds(c, t),
         NEW r, r = Ctx!WrapBuffer(c, t, b, isDmabuf, imports)
  PROVE  /\ r.ctx \in ContextsOf(B, D) /\ r.table \in Ctx!Tables
         /\ r.ctx.dma = c.dma /\ r.ctx.size = c.size
         /\ r.table.dmas = t.dmas /\ r.table.strays = t.strays
         /\ t.handles \subseteq r.table.handles /\ t.maps \subseteq r.table.maps
         /\ r.table.handles \subseteq t.handles \cup {b}
         /\ r.table.maps \subseteq t.maps \cup {b}
         /\ c.handle = NoBuffer =>
              /\ r.table.handles \subseteq t.handles \cup {r.ctx.handle}
              /\ r.ctx.buffer \in {b, c.buffer}
              /\ c.buffer = NoBuffer => r.table.maps \subseteq t.maps \cup {r.ctx.buffer}
         /\ c.handle # NoBuffer => r.ctx = c /\ r.table = t
         /\ Ctx!Holds(r.ctx, r.table)
<1>1. CASE c.handle # NoBuffer
  <2>1. r.ctx = c /\ r.table = t
    BY <1>1 DEF Ctx!WrapBuffer, Ctx!Result
  <2> QED
    BY <1>1, <2>1
<1>2. CASE c.handle = NoBuffer /\ imports
  <2>1. /\ r.ctx = [(IF isDmabuf THEN c ELSE [c EXCEPT !.buffer = b]) EXCEPT !.handle = b, !.rgabuf = b]
        /\ r.table = [(IF isDmabuf THEN t ELSE [t EXCEPT !.maps = @ \cup {b}])
                        EXCEPT !.handles = @ \cup {b}]
    BY <1>2 DEF Ctx!WrapBuffer, Ctx!Result, Ctx!Imported, Ctx!Mapped, Ctx!MappedTable
  <2>2. /\ r.ctx \in ContextsOf(B, D) /\ r.ctx.handle = b
        /\ r.ctx.buffer = IF isDmabuf THEN c.buffer ELSE b
        /\ r.ctx.dma = c.dma /\ r.ctx.size = c.size
    BY <2>1 DEF ContextsOf
  <2>3. /\ r.table \in Ctx!Tables /\ r.table.handles = t.handles \cup {b}
        /\ r.table.maps = IF isDmabuf THEN t.maps ELSE t.maps \cup {b}
        /\ r.table.dmas = t.dmas /\ r.table.strays = t.strays
    BY <2>1 DEF Ctx!Tables, Buffers
  <2>4. Ctx!Holds(r.ctx, r.table)
    BY <2>2, <2>3 DEF Ctx!Holds
  <2> QED
    BY <1>2, <2>2, <2>3, <2>4
<1>3. CASE c.handle = NoBuffer /\ ~imports
  <2>1. /\ r.ctx = [(IF isDmabuf THEN c ELSE [c EXCEPT !.buffer = b]) EXCEPT !.rgabuf = NoBuffer]
        /\ r.table = IF isDmabuf THEN t ELSE [t EXCEPT !.maps = @ \cup {b}]
    BY <1>3 DEF Ctx!WrapBuffer, Ctx!Result, Ctx!Mapped, Ctx!MappedTable
  <2>2. /\ r.ctx \in ContextsOf(B, D) /\ r.ctx.handle = c.handle
        /\ r.ctx.buffer = IF isDmabuf THEN c.buffer ELSE b
        /\ r.ctx.dma = c.dma /\ r.ctx.size = c.size
    BY <2>1 DEF ContextsOf
  <2>3. /\ r.table \in Ctx!Tables /\ r.table.handles = t.handles
        /\ r.table.maps = IF isDmabuf THEN t.maps ELSE t.maps \cup {b}
        /\ r.table.dmas = t.dmas /\ r.table.strays = t.strays
    BY <2>1 DEF Ctx!Tables, Buffers
  <2>4. Ctx!Holds(r.ctx, r.table)
    BY <2>2, <2>3 DEF Ctx!Holds
  <2> QED
    BY <1>3, <2>2, <2>3, <2>4
<1> QED
  BY <1>1, <1>2, <1>3

-----------------------------------------------------------------------------
(***************************************************************************)
(* Wrapping the output and the frames                                      *)
(***************************************************************************)
\* Before the output is wrapped every slot is clean, so growing releases nothing
LEMMA GrowthReleasesNothing ==
  ASSUME IInv, pc = "wrap output", NEW t \in Ctx!Tables
  PROVE  AfterGrowth(t) = t
<1>1. /\ \A s \in DOMAIN slots : slots[s].handle = NoBuffer /\ slots[s].buffer = NoBuffer
      /\ NoBuffer \notin t.handles /\ NoBuffer \notin t.maps
  BY BuffersDiffer DEF IInv, Held, Composing, Clean, Ctx!Tables, Buffers
<1>2. /\ t.handles \ {slots[s].handle : s \in DOMAIN slots} = t.handles
      /\ t.maps \ {slots[s].buffer : s \in DOMAIN slots} = t.maps
  BY <1>1
<1>3. t = [t EXCEPT !.handles = t.handles, !.maps = t.maps]
  BY DEF Ctx!Tables
<1> QED
  BY <1>2, <1>3 DEF AfterGrowth

\* Between two compositions nothing of a frame or of an output is held
LEMMA NothingWrapped ==
  ASSUME IInv, pc \notin Composing, pc # "crashed"
  PROVE  /\ table.handles \subseteq Backgrounds /\ table.maps \cap OutBuffers = {}
         /\ "wrap" \notin faults => table.maps \cap FrameBuffers = {}
<1>1. /\ \A b \in table.handles : b # NoBuffer
      /\ \A b \in table.maps : b # NoBuffer
  BY BuffersDiffer DEF IInv, Types, TypeOK, Ctx!Tables, Buffers
<1>2. /\ dst.handle = NoBuffer /\ dst.buffer = NoBuffer
      /\ \A s \in DOMAIN slots : slots[s].handle = NoBuffer /\ slots[s].buffer = NoBuffer
  BY DEF IInv, Held, Clean
<1>3. /\ table.handles \subseteq Backgrounds \cup {NoBuffer}
      /\ table.maps \cap OutBuffers \subseteq {NoBuffer}
      /\ "wrap" \notin faults => table.maps \cap FrameBuffers \subseteq {NoBuffer}
  BY <1>2 DEF IInv, Held
<1> QED
  BY <1>1, <1>3

LEMMA WrapOutputKeeps ==
  ASSUME IInv, WrapOutput
  PROVE  IInv'
<1> DEFINE n == Counted
           out == OutBuffer(frame)
           Slots == Seq(ContextsOf(FrameBuffers, {NoBuffer}))
           Fences == Seq(FenceValues)
<1>1. PICK imports \in BOOLEAN :
        /\ IF imports THEN Works ELSE Fails("import output")
        /\ LET r == Ctx!WrapBuffer(dst, table, out, OutIsDmabuf, imports)
           IN  /\ dst' = r.ctx
               /\ IF n > Len(slots)
                    THEN /\ slots' = Grown(slots, n, Ctx!Empty)
                         /\ fences' = Grown(fences, n, Descriptor0)
                         /\ table' = AfterGrowth(r.table)
                    ELSE table' = r.table /\ UNCHANGED << slots, fences >>
  BY DEF WrapOutput
<1> DEFINE r == Ctx!WrapBuffer(dst, table, out, OutIsDmabuf, imports)
<1>2. /\ pc = "wrap output" /\ pc' = "collect" /\ i' = 1 /\ slot' = 1 /\ nPads' = n
      /\ padInfo' = [s \in Pads |-> None] /\ outRow' = [x \in Pixels |-> Junk]
      /\ UNCHANGED << frame, negotiations, fed, prepared, background, bgMemory, pending, bgRow,
                      scene, changes >>
      /\ pc \notin Composing /\ pc' \in Composing /\ pc # "crashed" /\ pc' # "crashed"
  BY DEF WrapOutput, envVars, Composing
<1>3. /\ slots \in Slots /\ fences \in Fences /\ Len(slots) \in Nat /\ Len(fences) = Len(slots)
      /\ DOMAIN slots = 1 .. Len(slots) /\ DOMAIN fences = 1 .. Len(slots)
      /\ slots \in [1 .. Len(slots) -> ContextsOf(FrameBuffers, {NoBuffer})]
      /\ fences \in [1 .. Len(slots) -> FenceValues]
  BY LenProperties DEF IInv, Types
<1>4. /\ prepared \subseteq Pads /\ n \in Nat /\ n <= NumPads /\ n \in 0 .. Cardinality(Pads)
      /\ frame \in 1 .. MaxFrames /\ out \in OutBuffers /\ out \in Buffers
  <2>1. prepared \subseteq Pads /\ frame \in 1 .. MaxFrames
    BY <1>2 DEF IInv, Types, TypeOK
  <2>2. n \in Nat /\ n <= NumPads /\ Cardinality(Pads) = NumPads
    BY <2>1, PadsAreCounted DEF Counted
  <2> QED
    BY <2>1, <2>2, BuffersDiffer, SizesAssumption DEF Buffers
<1>5. /\ dst \in ContextsOf(OutBuffers, {NoBuffer}) /\ table \in Ctx!Tables
      /\ Ctx!Holds(dst, table) /\ Clean(dst) /\ \A s \in DOMAIN slots : Clean(slots[s])
  BY <1>2 DEF IInv, Types, TypeOK, Held
<1>6. /\ r.ctx \in ContextsOf(OutBuffers, {NoBuffer}) /\ r.table \in Ctx!Tables
      /\ r.table.dmas = table.dmas /\ r.table.strays = table.strays
      /\ table.handles \subseteq r.table.handles /\ table.maps \subseteq r.table.maps
      /\ r.table.handles \subseteq table.handles \cup {out}
      /\ r.table.maps \subseteq table.maps \cup {out}
      /\ r.table.handles \subseteq table.handles \cup {r.ctx.handle}
      /\ r.table.maps \subseteq table.maps \cup {r.ctx.buffer}
      /\ Ctx!Holds(r.ctx, r.table)
  BY <1>4, <1>5, WrapBufferResult, SizesAssumption DEF Clean
<1> HIDE DEF r, out
<1>7. /\ dst' = r.ctx /\ table' = r.table
  <2>1. AfterGrowth(r.table) = r.table
    BY <1>2, <1>6, GrowthReleasesNothing
  <2> QED
    BY <1>1, <2>1 DEF r, out
<1>8. /\ slots' \in Slots /\ fences' \in Fences /\ Len(fences') = Len(slots')
      /\ Len(slots') \in Nat /\ n <= Len(slots') /\ DOMAIN slots' = 1 .. Len(slots')
      /\ DOMAIN slots \subseteq DOMAIN slots'
      /\ \A s \in DOMAIN slots : slots'[s] = slots[s]
      /\ \A s \in DOMAIN slots' \ DOMAIN slots : slots'[s] = Ctx!Empty
  <2>1. CASE n > Len(slots)
    <3>1. slots' = Grown(slots, n, Ctx!Empty) /\ fences' = Grown(fences, n, Descriptor0)
      BY <1>1, <2>1
    <3>2. Ctx!Empty \in ContextsOf(FrameBuffers, {NoBuffer})
      BY DEF Ctx!Empty, ContextsOf
    <3>3. slots' \in [1 .. n -> ContextsOf(FrameBuffers, {NoBuffer})]
      BY <1>3, <3>1, <3>2 DEF Grown
    <3>4. fences' \in [1 .. n -> FenceValues]
      BY <1>3, <3>1 DEF Grown, FenceValues
    <3>5. slots' \in Slots /\ Len(slots') = n /\ fences' \in Fences /\ Len(fences') = n
      <4>1. n \in Nat
        BY <1>4
      <4> HIDE DEF n
      <4>2. slots' \in Slots /\ Len(slots') = n
        BY <4>1, <3>3, FunctionIsSequence
      <4>3. fences' \in Fences /\ Len(fences') = n
        BY <4>1, <3>4, FunctionIsSequence
      <4> QED
        BY <4>2, <4>3
    <3>6. DOMAIN slots' = 1 .. n /\ DOMAIN slots \subseteq 1 .. n
      BY <1>3, <1>4, <2>1, <3>3
    <3>7. /\ \A s \in DOMAIN slots : slots'[s] = slots[s]
          /\ \A s \in (1 .. n) \ DOMAIN slots : slots'[s] = Ctx!Empty
      BY <3>1, <3>6 DEF Grown
    <3> QED
      BY <1>4, <3>5, <3>6, <3>7
  <2>2. CASE ~(n > Len(slots))
    <3>1. slots' = slots /\ fences' = fences
      BY <1>1, <2>2
    <3> QED
      BY <1>3, <1>4, <2>2, <3>1
  <2> QED
    BY <2>1, <2>2
<1>9. /\ \A s \in DOMAIN slots' : Clean(slots'[s]) /\ slots'[s].dma = NoBuffer
  <2>1. \A s \in DOMAIN slots : slots[s].dma = NoBuffer
    BY <1>3 DEF ContextsOf
  <2> QED
    BY <1>5, <1>8, <2>1 DEF Clean, Ctx!Empty
<1>10. /\ faults \subseteq faults' /\ faults' \subseteq Faults
       /\ ("wrap" \in faults' => "wrap" \in faults) /\ ("sync" \in faults' => "sync" \in faults)
       /\ ("dma" \in faults' => "dma" \in faults)
       /\ spoiled' \subseteq Faults \cup {"changed", "overtaken"} /\ spoiled' \cap Faults \subseteq faults'
  BY <1>1 DEF Works, Fails, IInv, Types, TypeOK, Faults
<1>11. Types'
  <2>1. \A s \in DOMAIN slots' : slots'[s] \in Ctx!Contexts
    <3>1. \A s \in DOMAIN slots' : slots'[s] \in ContextsOf(FrameBuffers, {NoBuffer})
      BY <1>8, ElementOfSeq
    <3> QED
      BY <3>1 DEF ContextsOf, Ctx!Contexts
  <2>2. \A s \in DOMAIN fences' : fences'[s] \in FenceValues
    BY <1>8, LenProperties, ElementOfSeq
  <2>3. dst' \in Ctx!Contexts /\ table' \in Ctx!Tables
    BY <1>6, <1>7 DEF ContextsOf, Ctx!Contexts
  <2>4. padInfo' \in [Pads -> Pads \cup {None}] /\ outRow' \in [Pixels -> Pixel]
    BY <1>2 DEF Pixel, Junk
  <2>5. TypeOK'
    BY <1>2, <1>4, <1>10, <2>1, <2>2, <2>3, <2>4 DEF IInv, Types, TypeOK, FenceValues
  <2> QED
    BY <1>2, <1>4, <1>6, <1>7, <1>8, <1>10, <2>5 DEF IInv, Types
<1>12. Held'
  <2>1. /\ \A s \in DOMAIN slots' : Ctx!Holds(slots'[s], table')
        /\ Ctx!Holds(dst', table') /\ Ctx!Holds(background, table')
    BY <1>6, <1>7, <1>9 DEF IInv, Held, Ctx!Holds, Clean
  <2>2. table'.handles \subseteq Backgrounds \cup {dst'.handle} \cup {slots'[s].handle : s \in DOMAIN slots'}
    <3>1. table.handles \subseteq Backgrounds
      BY <1>2, NothingWrapped
    <3> QED
      BY <1>6, <1>7, <3>1
  <2>3. table'.maps \cap OutBuffers \subseteq {dst'.buffer}
    <3>1. table.maps \cap OutBuffers = {}
      BY <1>2, NothingWrapped
    <3> QED
      BY <1>6, <1>7, <3>1
  <2>4. "wrap" \notin faults' =>
          table'.maps \cap FrameBuffers \subseteq {slots'[s].buffer : s \in DOMAIN slots'}
    <3>1. "wrap" \notin faults => table.maps \cap FrameBuffers = {}
      BY <1>2, NothingWrapped
    <3> QED
      BY <1>4, <1>6, <1>7, <1>10, <3>1, BuffersDiffer
  <2> QED
    BY <1>2, <2>1, <2>2, <2>3, <2>4 DEF Held
<1>13. Filled'
  <2>1. \A s \in 1 .. n : s \in Pads /\ s \in DOMAIN slots' /\ padInfo'[s] = None
    <3>1. /\ n \in Nat /\ n <= NumPads /\ NumPads \in Nat /\ Len(slots') \in Nat
          /\ n <= Len(slots') /\ DOMAIN slots' = 1 .. Len(slots')
      BY <1>4, <1>8, SizesAssumption
    <3> HIDE DEF n
    <3>2. 1 .. n \subseteq Pads /\ 1 .. n \subseteq DOMAIN slots'
      BY <3>1 DEF Pads
    <3> QED
      BY <1>2, <3>2
  <2>2. \A s \in 1 .. n : Slot(s)'
    BY <1>9, <2>1 DEF Slot, Clean
  <2> QED
    BY <1>2, <1>8, <1>9, <2>2 DEF Filled, Counted
<1>14. Collecting'
  <2>1. Cardinality(Before(1)) = 0
    BY <1>4, BeforeCounts, SizesAssumption
  <2>2. Before(1)' = Before(1)
    BY <1>2 DEF Before
  <2>3. i' \in 1 .. NumPads + 1 /\ slot' \in 1 .. nPads' + 1
    <3>1. 1 \in 1 .. NumPads + 1
      BY SizesAssumption
    <3>2. i' = 1 /\ slot' = 1 /\ nPads' \in Nat
      BY <1>2, <1>4
    <3>3. ASSUME NEW k \in Nat
          PROVE  1 \in 1 .. k + 1
      OBVIOUS
    <3> QED
      BY <3>1, <3>2, <3>3
  <2>4. Cardinality(Before(i))' = 0
    BY <1>2, <2>1 DEF Before
  <2>5. \A s \in Pads : padInfo'[s] = None
    BY <1>2
  <2>6. \A s \in Pads : ~(s < 1)
    BY SizesAssumption DEF Pads
  <2>7. pc' = "collect" /\ i' = 1 /\ slot' = 1
    BY <1>2
  <2>8. 1 - 1 <= Cardinality(Before(i))' /\ 1 - 1 = Cardinality(Before(i))'
    BY <2>4
  <2> QED
    BY <1>9, <2>3, <2>5, <2>6, <2>7, <2>8 DEF Collecting
<1>15. Jobs'
  <2>1. "sync" \notin faults => pending = << >>
    BY <1>2 DEF IInv, Jobs
  <2>2. "sync" \notin faults' => pending' = << >>
    BY <1>2, <1>10, <2>1
  <2>3. DOMAIN << >> = {}
    OBVIOUS
  <2> QED
    BY <2>2, <2>3 DEF Jobs
<1>16. Negotiated'
  <2>1. FinalizedReleases'
    BY <1>2 DEF FinalizedReleases
  <2>2. /\ table'.dmas = table.dmas /\ table'.strays = table.strays
        /\ table'.handles \cap Backgrounds = table.handles \cap Backgrounds
        /\ table'.maps \cap Backgrounds = table.maps \cap Backgrounds
    BY <1>4, <1>6, <1>7, BuffersDiffer
  <2> QED
    BY <1>2, <1>10, <2>1, <2>2 DEF IInv, Negotiated
<1> QED
  BY <1>11, <1>12, <1>13, <1>14, <1>15, <1>16 DEF IInv

LEMMA CollectFrameKeeps ==
  ASSUME IInv, CollectFrame
  PROVE  IInv'
<1> DEFINE b == Frame(i, frame)
           c == slots[slot]
           Slots == Seq(ContextsOf(FrameBuffers, {NoBuffer}))
           Fences == Seq(FenceValues)
<1>1. PICK imports \in BOOLEAN :
        LET r == Ctx!WrapFrame(c, table, b, i \in DmabufPads, imports)
        IN  /\ IF imports THEN Works ELSE Fails("wrap")
            /\ slots' = [slots EXCEPT ![slot] = r.ctx]
            /\ table' = r.table
            /\ IF r.ok THEN /\ fences' = [fences EXCEPT ![slot] = None]
                            /\ padInfo' = [padInfo EXCEPT ![slot] = i]
                       ELSE UNCHANGED << fences, padInfo >>
            /\ slot' = NextSlot(r.ok)
  BY DEF CollectFrame
<1>2. /\ pc = "collect" /\ i \in prepared /\ i' = i + 1 /\ pc' = "collect" /\ pc' # "crashed"
      /\ UNCHANGED << frame, negotiations, fed, prepared, nPads, dst, background, bgMemory,
                      pending, bgRow, outRow, scene, changes >>
      /\ pc \in Composing
  BY DEF CollectFrame, rowVars, envVars, Composing
<1>3. /\ slots \in Slots /\ fences \in Fences /\ Len(slots) \in Nat /\ Len(fences) = Len(slots)
      /\ DOMAIN slots = 1 .. Len(slots) /\ DOMAIN fences = 1 .. Len(slots)
      /\ \A s \in DOMAIN slots : slots[s] \in ContextsOf(FrameBuffers, {NoBuffer})
      /\ \A s \in DOMAIN fences : fences[s] \in FenceValues
      /\ table \in Ctx!Tables /\ padInfo \in [Pads -> Pads \cup {None}]
  BY LenProperties, ElementOfSeq DEF IInv, Types, TypeOK
<1>4. /\ prepared \subseteq Pads /\ i \in 1 .. NumPads /\ i \in Pads
      /\ frame \in 1 .. MaxFrames /\ b \in FrameBuffers /\ b \in Buffers /\ b # NoBuffer
  <2>1. prepared \subseteq Pads /\ frame \in 1 .. MaxFrames
    BY <1>2 DEF IInv, Types, TypeOK
  <2>2. i \in 1 .. NumPads /\ i \in Pads
    BY <1>2, <2>1 DEF Pads
  <2> QED
    BY <2>1, <2>2, BuffersDiffer DEF Buffers
<1>5. /\ nPads = Cardinality(prepared) /\ nPads <= Len(slots) /\ nPads \in Nat /\ nPads <= NumPads
      /\ slot \in 1 .. nPads /\ slot \in Pads /\ slot \in DOMAIN slots
      /\ slot - 1 <= Cardinality(Before(i)) /\ Cardinality(Before(i)) \in Nat
      /\ "wrap" \notin spoiled => slot - 1 = Cardinality(Before(i))
      /\ Cardinality(Before(i + 1)) = Cardinality(Before(i)) + 1
  <2>1. nPads = Cardinality(prepared) /\ nPads <= Len(slots) /\ nPads \in Nat /\ nPads <= NumPads
    BY <1>2, <1>4, PadsAreCounted DEF IInv, Filled
  <2>2. /\ slot \in 1 .. nPads + 1 /\ slot - 1 <= Cardinality(Before(i))
        /\ "wrap" \notin spoiled => slot - 1 = Cardinality(Before(i))
    BY <1>2 DEF IInv, Collecting
  <2>3. i \in 1 .. NumPads + 1
    BY <1>4, SizesAssumption
  <2>4. /\ Cardinality(Before(i)) \in Nat /\ Cardinality(Before(i)) < Cardinality(prepared)
        /\ Cardinality(Before(i + 1)) = Cardinality(Before(i)) + 1
    BY <1>2, <1>4, <2>3, BeforeCounts
  <2>5. slot \in 1 .. nPads
    BY <2>1, <2>2, <2>4
  <2>6. slot \in Pads /\ slot \in DOMAIN slots
    BY <1>3, <2>1, <2>5, SizesAssumption DEF Pads
  <2> QED
    BY <2>1, <2>2, <2>4, <2>5, <2>6
<1>6. /\ padInfo[slot] = None /\ c.handle = NoBuffer /\ c \in ContextsOf(FrameBuffers, {NoBuffer})
      /\ c.dma = NoBuffer /\ ("wrap" \notin spoiled => c.buffer = NoBuffer) /\ Ctx!Holds(c, table)
  <2>1. padInfo[slot] = None
    BY <1>2, <1>5 DEF IInv, Collecting, Pads
  <2>2. c.handle = NoBuffer
    BY <1>2, <1>5, <2>1 DEF IInv, Filled, Slot
  <2>3. c \in ContextsOf(FrameBuffers, {NoBuffer}) /\ c.dma = NoBuffer
    BY <1>3, <1>5 DEF ContextsOf
  <2>4. "wrap" \notin spoiled => c.buffer = NoBuffer
    BY <1>2, <1>5 DEF IInv, Collecting, Clean
  <2>5. Ctx!Holds(c, table)
    BY <1>5 DEF IInv, Held
  <2> QED
    BY <2>1, <2>2, <2>3, <2>4, <2>5
\* What the attempt leaves in the slot
<1> DEFINE new == slots'[slot]
<1>7. /\ new \in ContextsOf(FrameBuffers, {NoBuffer}) /\ table' \in Ctx!Tables
      /\ new.dma = NoBuffer /\ new.handle = (IF imports THEN b ELSE NoBuffer)
      /\ imports => new.rgabuf = b
      /\ new.buffer \in {c.buffer, b}
      /\ table'.handles = table.handles \cup ({new.handle} \ {NoBuffer})
      /\ table'.maps = table.maps \cup {new.buffer} \/ (table'.maps = table.maps /\ new.buffer = c.buffer)
      /\ table'.dmas = table.dmas /\ table'.strays = table.strays
      /\ slot' = (IF imports THEN slot + 1 ELSE slot)
      /\ IF imports THEN /\ fences' = [fences EXCEPT ![slot] = None]
                         /\ padInfo' = [padInfo EXCEPT ![slot] = i]
                    ELSE UNCHANGED << fences, padInfo >>
  <2> DEFINE r == Ctx!WrapFrame(c, table, b, i \in DmabufPads, imports)
             mapped == IF i \in DmabufPads THEN c ELSE [c EXCEPT !.buffer = b]
             mapping == IF i \in DmabufPads THEN table ELSE [table EXCEPT !.maps = @ \cup {b}]
  <2>1. mapped \in ContextsOf(FrameBuffers, {NoBuffer}) /\ mapping \in Ctx!Tables
    BY <1>3, <1>4, <1>6 DEF ContextsOf, Ctx!Tables, Buffers
  <2>2. /\ mapped.handle = NoBuffer /\ mapped.dma = NoBuffer /\ mapped.buffer \in {c.buffer, b}
        /\ mapping.handles = table.handles /\ mapping.dmas = table.dmas /\ mapping.strays = table.strays
        /\ mapping.maps = table.maps \cup {mapped.buffer} \/ (mapping.maps = table.maps /\ mapped.buffer = c.buffer)
    BY <1>3, <1>4, <1>6 DEF ContextsOf, Ctx!Tables
  <2>3. new = r.ctx /\ table' = r.table
    BY <1>1, <1>3, <1>5
  <2>4. CASE imports
    <3>1. /\ r.ctx = [mapped EXCEPT !.handle = b, !.rgabuf = b] /\ r.ok = TRUE
          /\ r.table = [mapping EXCEPT !.handles = @ \cup {b}]
      BY <1>6, <2>4 DEF Ctx!WrapFrame, Ctx!Result, Ctx!Imported, Ctx!Mapped, Ctx!MappedTable
    <3>2. /\ slot' = slot + 1 /\ fences' = [fences EXCEPT ![slot] = None]
          /\ padInfo' = [padInfo EXCEPT ![slot] = i]
      BY <1>1, <3>1 DEF NextSlot
    <3> HIDE DEF mapped, mapping, r
    <3>3. /\ r.ctx \in ContextsOf(FrameBuffers, {NoBuffer}) /\ r.ctx.handle = b /\ r.ctx.rgabuf = b
          /\ r.ctx.dma = mapped.dma /\ r.ctx.buffer = mapped.buffer
      BY <1>4, <2>1, <3>1 DEF ContextsOf
    <3>4. /\ r.table \in Ctx!Tables /\ r.table.handles = table.handles \cup {b}
          /\ r.table.maps = mapping.maps /\ r.table.dmas = table.dmas /\ r.table.strays = table.strays
      BY <1>4, <2>1, <2>2, <3>1 DEF Ctx!Tables, Buffers
    <3> HIDE DEF new, b, c
    <3>5. {b} \ {NoBuffer} = {b}
      BY <1>4
    <3> QED
      BY <2>2, <2>3, <2>4, <3>2, <3>3, <3>4, <3>5
  <2>5. CASE ~imports
    <3>1. r.ctx = mapped /\ r.ok = FALSE /\ r.table = mapping
      BY <1>6, <2>5 DEF Ctx!WrapFrame, Ctx!Result, Ctx!Mapped, Ctx!MappedTable
    <3>2. slot' = slot /\ UNCHANGED << fences, padInfo >>
      BY <1>1, <3>1 DEF NextSlot
    <3> HIDE DEF mapped, mapping, r, new, b, c
    <3> QED
      BY <2>1, <2>2, <2>3, <2>5, <3>1, <3>2
  <2> QED
    BY <2>4, <2>5
<1> HIDE DEF new, b, c
<1>8. /\ slots' \in Slots /\ fences' \in Fences /\ Len(slots') = Len(slots) /\ Len(fences') = Len(slots')
      /\ DOMAIN slots' = DOMAIN slots /\ slots'[slot] = new
      /\ \A s \in DOMAIN slots : s # slot => slots'[s] = slots[s]
  <2>1. /\ slots' = [slots EXCEPT ![slot] = new]
        /\ slots' = [slots EXCEPT ![slot] = new] => slots'[slot] = new
    BY <1>1, <1>3, <1>5 DEF new, b, c
  <2>2. slots' \in Slots /\ Len(slots') = Len(slots)
    BY <1>3, <1>5, <1>7, <2>1, ExceptSeq
  <2>3. fences' \in Fences /\ Len(fences') = Len(fences)
    <3>1. CASE imports
      <4>1. [fences EXCEPT ![slot] = None] \in Fences /\ Len([fences EXCEPT ![slot] = None]) = Len(fences)
          <5>1. None \in FenceValues
            BY DEF FenceValues
          <5> QED
            BY <1>3, <1>5, <5>1, ExceptSeq
      <4> QED
        BY <1>7, <3>1, <4>1
    <3>2. CASE ~imports
      BY <1>3, <1>7, <3>2
    <3> QED
      BY <3>1, <3>2
  <2> QED
    BY <1>3, <2>1, <2>2, <2>3
<1>9. /\ faults \subseteq faults' /\ faults' \subseteq Faults
      /\ ("sync" \in faults' => "sync" \in faults) /\ ("dma" \in faults' => "dma" \in faults)
      /\ spoiled \subseteq spoiled'
      /\ spoiled' \subseteq Faults \cup {"changed", "overtaken"} /\ spoiled' \cap Faults \subseteq faults'
      /\ "wrap" \notin spoiled' => imports /\ "wrap" \notin spoiled
      /\ "wrap" \notin faults' => imports /\ "wrap" \notin spoiled /\ "wrap" \notin faults
  BY <1>1 DEF Works, Fails, IInv, Types, TypeOK, Faults
<1>10. Types'
  <2>1. \A s \in DOMAIN slots' : slots'[s] \in Ctx!Contexts
    <3>1. \A s \in DOMAIN slots' : slots'[s] \in ContextsOf(FrameBuffers, {NoBuffer})
      BY <1>3, <1>7, <1>8
    <3> QED
      BY <3>1 DEF ContextsOf, Ctx!Contexts
  <2>2. \A s \in DOMAIN fences' : fences'[s] \in FenceValues
    BY <1>8, LenProperties, ElementOfSeq
  <2>3. padInfo' \in [Pads -> Pads \cup {None}] /\ slot' \in Nat /\ i' \in Nat
    <3>1. slot \in Nat /\ i \in Nat
      BY <1>4, <1>5, SizesAssumption
    <3>2. padInfo' \in [Pads -> Pads \cup {None}]
      BY <1>3, <1>4, <1>7
    <3>3. slot' = slot \/ slot' = slot + 1
      BY <1>7
    <3>4. slot' \in Nat
      BY <3>1, <3>3
    <3>5. i' \in Nat
      BY <1>2, <3>1
    <3> QED
      BY <3>2, <3>4, <3>5
  <2>4. TypeOK'
    BY <1>2, <1>7, <1>9, <2>1, <2>2, <2>3 DEF IInv, Types, TypeOK
  <2> QED
    BY <1>2, <1>4, <1>8, <1>9, <2>4 DEF IInv, Types
<1>11. Held'
  <2>1. table.handles \subseteq table'.handles /\ table.maps \subseteq table'.maps
    BY <1>7
  <2>2. \A s \in DOMAIN slots' : Ctx!Holds(slots'[s], table')
    <3>1. Ctx!Holds(new, table')
      BY <1>6, <1>7 DEF Ctx!Holds
    <3>2. \A s \in DOMAIN slots : Ctx!Holds(slots[s], table')
      BY <1>7, <2>1 DEF IInv, Held, Ctx!Holds
    <3> QED
      BY <1>8, <3>1, <3>2
  <2>3. Ctx!Holds(dst', table') /\ Ctx!Holds(background', table')
    BY <1>2, <1>7, <2>1 DEF IInv, Held, Ctx!Holds
  <2>4. table'.handles \subseteq Backgrounds \cup {dst'.handle} \cup {slots'[s].handle : s \in DOMAIN slots'}
    <3> SUFFICES ASSUME NEW h \in table'.handles, h \notin Backgrounds, h # dst'.handle
                 PROVE  \E s \in DOMAIN slots' : h = slots'[s].handle
      OBVIOUS
    <3>1. CASE h = new.handle
      BY <1>5, <1>8, <3>1
    <3>2. CASE h # new.handle
      <4>1. h \in table.handles /\ h # NoBuffer
        <5>1. h \in table.handles
          BY <1>7, <3>2
        <5>2. NoBuffer \notin table.handles
          BY <1>3, BuffersDiffer DEF Ctx!Tables, Buffers
        <5> QED
          BY <5>1, <5>2
      <4>2. PICK s \in DOMAIN slots : h = slots[s].handle
        BY <1>2, <4>1 DEF IInv, Held
      <4>3. s # slot
        BY <1>6, <4>1, <4>2 DEF c
      <4> QED
        BY <1>8, <4>2, <4>3
    <3> QED
      BY <3>1, <3>2
  <2>5. table'.maps \cap OutBuffers \subseteq {dst'.buffer}
    <3>1. table'.maps \subseteq table.maps \cup {b}
      <4>1. c.buffer \in table.maps \cup {NoBuffer} /\ NoBuffer \notin table'.maps
        BY <1>6, <1>7, BuffersDiffer DEF Ctx!Holds, Ctx!Tables, Buffers
      <4> QED
        BY <1>7, <4>1
    <3>2. b \notin OutBuffers
      BY <1>4, BuffersDiffer
    <3> QED
      BY <1>2, <3>1, <3>2 DEF IInv, Held
  <2>6. ASSUME "wrap" \notin faults', NEW m \in table'.maps \cap FrameBuffers
        PROVE  \E s \in DOMAIN slots' : m = slots'[s].buffer
    <3>1. c.buffer = NoBuffer /\ "wrap" \notin faults /\ m # NoBuffer
      BY <1>6, <1>9, <2>6, BuffersDiffer DEF Buffers
    <3>2. CASE m = new.buffer
      BY <1>5, <1>8, <3>2
    <3>3. CASE m # new.buffer
      <4>1. m \in table.maps
        BY <1>7, <2>6, <3>3
      <4>2. PICK s \in DOMAIN slots : m = slots[s].buffer
        BY <2>6, <3>1, <4>1 DEF IInv, Held
      <4>3. s # slot
        BY <3>1, <4>2 DEF c
      <4> QED
        BY <1>8, <4>2, <4>3
    <3> QED
      BY <3>2, <3>3
  <2> QED
    BY <1>2, <2>2, <2>3, <2>4, <2>5, <2>6 DEF Held
<1>12. /\ \A s \in Pads : s # slot => padInfo'[s] = padInfo[s]
       /\ padInfo'[slot] = IF imports THEN i ELSE None
  BY <1>3, <1>5, <1>6, <1>7
<1>13. \A s \in Pads : padInfo[s] # None <=> s < slot
  BY <1>2 DEF IInv, Collecting
<1>14. \A s \in Pads : padInfo[s] # None => padInfo[s] < i
  BY <1>2 DEF IInv, Collecting
<1>15. Filled'
  <2>1. ASSUME NEW s \in 1 .. nPads
        PROVE  Slot(s)'
    <3>1. s \in Pads /\ s \in DOMAIN slots
      BY <1>3, <1>5, SizesAssumption DEF Pads
    <3>2. CASE s # slot
      <4>1. slots'[s] = slots[s] /\ padInfo'[s] = padInfo[s]
        BY <1>8, <1>12, <3>1, <3>2
      <4>2. Slot(s)
        BY <1>2 DEF IInv, Filled
      <4> QED
        BY <1>2, <4>1, <4>2 DEF Slot
    <3>3. CASE s = slot /\ imports
      <4>1. padInfo'[s] = i /\ slots'[s].handle = b /\ slots'[s].rgabuf = b /\ i # None
        BY <1>4, <1>7, <1>8, <1>12, <3>3, SizesAssumption
      <4> QED
        BY <1>2, <4>1 DEF Slot, b
    <3>4. CASE s = slot /\ ~imports
      <4>1. padInfo'[s] = None /\ slots'[s].handle = NoBuffer
        BY <1>7, <1>8, <1>12, <3>4
      <4> QED
        BY <4>1 DEF Slot
    <3> QED
      BY <3>2, <3>3, <3>4
  <2>2. \A s \in DOMAIN slots' : s > nPads => Clean(slots'[s])
    <3>1. \A s \in DOMAIN slots : s > nPads => Clean(slots[s])
      BY <1>2 DEF IInv, Filled
    <3>2. ~(slot > nPads)
      BY <1>5
    <3> QED
      BY <1>8, <3>1, <3>2
  <2>3. ASSUME NEW s \in Pads, NEW t \in Pads, s < t, padInfo'[t] # None
        PROVE  padInfo'[s] # None /\ padInfo'[s] < padInfo'[t]
    <3>1. CASE t = slot
      <4>1. imports /\ padInfo'[t] = i /\ s # slot /\ s < slot
        <5>1. s \in Int /\ s < slot /\ slot \in Int
          BY <1>5, <2>3, <3>1 DEF Pads
        <5>2. s # slot
          BY <5>1
        <5>3. imports /\ padInfo'[t] = i
          BY <1>12, <2>3, <3>1
        <5> QED
          BY <5>1, <5>2, <5>3
      <4> QED
        BY <1>12, <1>13, <1>14, <4>1
    <3>2. CASE t # slot
      <4>1. padInfo'[t] = padInfo[t] /\ t < slot
        BY <1>12, <1>13, <2>3, <3>2
      <4>2. s # slot /\ padInfo'[s] = padInfo[s]
        <5>1. s \in Int /\ t \in Int /\ slot \in Int
          BY <1>5 DEF Pads
        <5>2. s # slot
          BY <2>3, <4>1, <5>1
        <5> QED
          BY <1>12, <5>2
      <4>3. padInfo[s] # None /\ padInfo[s] < padInfo[t]
        BY <1>2, <2>3, <4>1 DEF IInv, Filled
      <4> QED
        BY <4>1, <4>2, <4>3
    <3> QED
      BY <3>1, <3>2
  <2>4. nPads = Cardinality(prepared) /\ nPads <= Len(slots')
    BY <1>5, <1>8
  <2> QED
    BY <1>2, <2>1, <2>2, <2>3, <2>4 DEF Filled
<1>16. Collecting'
  <2>1. i' \in 1 .. NumPads + 1 /\ i < i'
    BY <1>2, <1>4, SizesAssumption
  <2>2. slot' \in 1 .. nPads + 1
    <3>1. slot' = slot \/ slot' = slot + 1
      BY <1>7
    <3> HIDE DEF new, b, c
    <3> QED
      BY <1>5, <3>1
  <2>3. Cardinality(Before(i))' = Cardinality(Before(i)) + 1
    <3>1. Before(i)' = Before(i + 1)
      BY <1>2 DEF Before
    <3> QED
      BY <1>5, <3>1
  <2>4. /\ slot' - 1 <= Cardinality(Before(i)) + 1
        /\ "wrap" \notin spoiled' => slot' - 1 = Cardinality(Before(i)) + 1
    <3>1. slot \in Nat
      BY <1>5
    <3>2. CASE imports
      <4>1. slot' = slot + 1
        BY <1>7, <3>2
      <4> QED
        BY <1>5, <1>9, <3>1, <4>1
    <3>3. CASE ~imports
      <4>1. slot' = slot /\ "wrap" \in spoiled'
        BY <1>7, <1>9, <3>3
      <4> QED
        BY <1>5, <3>1, <4>1
    <3> QED
      BY <3>2, <3>3
  <2>5. ASSUME NEW s \in Pads
        PROVE  padInfo'[s] # None <=> s < slot'
    <3>1. s \in Int /\ slot \in Int
      BY <1>5 DEF Pads
    <3>2. CASE imports
      <4>1. slot' = slot + 1 /\ padInfo'[slot] # None
        BY <1>4, <1>7, <1>12, <3>2, SizesAssumption
      <4>2. s < slot + 1 <=> s < slot \/ s = slot
        BY <3>1
      <4> QED
        BY <1>12, <1>13, <4>1, <4>2
    <3>3. CASE ~imports
      <4>1. slot' = slot /\ padInfo' = padInfo
        BY <1>7, <3>3
      <4> QED
        BY <1>13, <4>1
    <3> QED
      BY <3>2, <3>3
  <2>6. ASSUME NEW s \in Pads, padInfo'[s] # None
        PROVE  padInfo'[s] < i'
    <3>1. CASE s = slot
      <4>1. padInfo'[s] = i
        BY <1>12, <2>6, <3>1
      <4> QED
        BY <2>1, <4>1
    <3>2. CASE s # slot
      <4>1. padInfo'[s] = padInfo[s] /\ padInfo[s] < i
        BY <1>12, <1>14, <2>6, <3>2
      <4>2. padInfo[s] \in Int /\ i \in Int
        BY <1>3, <1>4, <2>6, <4>1 DEF Pads
      <4> QED
        BY <1>2, <4>1, <4>2
    <3> QED
      BY <3>1, <3>2
  <2>7. ASSUME NEW s \in DOMAIN slots', s > slot' \/ (s = slot' /\ "wrap" \notin spoiled')
        PROVE  Clean(slots'[s])
    <3>1. s \in Int /\ slot \in Int
      BY <1>3, <1>5, <1>8
    <3>2. s > slot
      <4>1. CASE imports
        <5>1. slot' = slot + 1
          BY <1>7, <4>1
        <5> QED
          BY <2>7, <3>1, <5>1
      <4>2. CASE ~imports
        BY <1>7, <1>9, <2>7, <4>2
      <4> QED
        BY <4>1, <4>2
    <3>3. slots'[s] = slots[s]
      <4>1. s # slot
        BY <3>1, <3>2
      <4> QED
        BY <1>8, <2>7, <4>1
    <3> QED
      BY <1>2, <1>8, <3>2, <3>3 DEF IInv, Collecting
  <2> QED
    BY <1>2, <2>1, <2>2, <2>3, <2>4, <2>5, <2>6, <2>7 DEF Collecting
<1>17. Jobs'
  <2>1. "sync" \notin faults => pending = << >>
    BY <1>2 DEF IInv, Jobs
  <2>2. "sync" \notin faults' => pending' = << >>
    BY <1>2, <1>9, <2>1
  <2>3. DOMAIN << >> = {}
    OBVIOUS
  <2> QED
    BY <2>2, <2>3 DEF Jobs
<1>18. Negotiated'
  <2>1. FinalizedReleases'
    BY <1>2 DEF FinalizedReleases
  <2>2. /\ table'.dmas = table.dmas /\ table'.strays = table.strays
        /\ table'.handles \cap Backgrounds = table.handles \cap Backgrounds
        /\ table'.maps \cap Backgrounds = table.maps \cap Backgrounds
    <3>1. new.handle \in FrameBuffers \cup {NoBuffer} /\ new.buffer \in FrameBuffers \cup {NoBuffer}
      BY <1>7 DEF ContextsOf
    <3>2. NoBuffer \notin Backgrounds /\ FrameBuffers \cap Backgrounds = {}
      BY BuffersDiffer DEF Buffers
    <3> QED
      BY <1>7, <3>1, <3>2
  <2> QED
    BY <1>2, <1>9, <2>1, <2>2 DEF IInv, Negotiated
<1> QED
  BY <1>10, <1>11, <1>15, <1>16, <1>17, <1>18 DEF IInv

-----------------------------------------------------------------------------
(***************************************************************************)
(* From the last frame to the copy                                         *)
(***************************************************************************)
LEMMA SkipUnpreparedKeeps ==
  ASSUME IInv, SkipUnprepared
  PROVE  IInv'
<1>1. /\ pc = "collect" /\ i \notin prepared /\ pc \in Composing
      /\ UNCHANGED << frame, negotiations, fed, prepared, nPads, padInfo, slots, fences, dst, background,
                      bgMemory, table, pending, bgRow, outRow, scene, changes, faults, spoiled >>
  BY DEF SkipUnprepared, rgaVars, rowVars, envVars, Composing
<1>2. /\ prepared \subseteq Pads /\ i \in 1 .. NumPads + 1 /\ slot \in 1 .. nPads + 1
      /\ nPads = Cardinality(prepared) /\ nPads \in Nat /\ nPads <= NumPads
      /\ pending = << >> \/ "sync" \in faults
  <2>1. prepared \subseteq Pads /\ i \in 1 .. NumPads + 1 /\ slot \in 1 .. nPads + 1
    BY <1>1 DEF IInv, Types, TypeOK, Collecting
  <2>2. nPads = Cardinality(prepared) /\ (pending = << >> \/ "sync" \in faults)
    BY <1>1 DEF IInv, Filled, Jobs
  <2> QED
    BY <2>1, <2>2, PadsAreCounted
<1>3. Held'
  <2>1. pc' \in Composing /\ pc' # "crashed"
    BY <1>1 DEF SkipUnprepared, Composing
  <2> QED
    BY <1>1, <2>1 DEF IInv, Held
<1>4. Jobs'
  <2>1. DOMAIN << >> = {}
    OBVIOUS
  <2> QED
    BY <1>1, <1>2, <2>1 DEF Jobs
<1>5. Filled'
  BY <1>1 DEF IInv, Filled, Slot
<1>6. Negotiated'
  <2>1. pc' \notin {"stopped", "finalized", "crashed"}
    BY <1>1 DEF SkipUnprepared
  <2>2. FinalizedReleases'
    BY <2>1 DEF FinalizedReleases
  <2> QED
    BY <1>1, <2>1, <2>2 DEF IInv, Negotiated
<1>7. CASE i \in Pads
  <2>1. i' = i + 1 /\ pc' = pc /\ slot' = slot
    BY <1>7 DEF SkipUnprepared
  <2>2. i \in 1 .. NumPads /\ i' \in 1 .. NumPads + 1 /\ i' \in Nat /\ i < i'
    BY <1>7, <2>1, SizesAssumption DEF Pads
  <2>3. Types'
    <3>1. TypeOK'
      BY <1>1, <2>1, <2>2 DEF IInv, Types, TypeOK
    <3> QED
      BY <1>1, <2>1, <3>1 DEF IInv, Types
  <2>4. Collecting'
    <3>1. Before(i)' = Before(i)
      <4>1. Before(i)' = Before(i + 1)
        BY <1>1, <2>1 DEF Before
      <4> QED
        BY <1>1, <1>2, <4>1, BeforeCounts
    <3>2. \A s \in Pads : padInfo[s] # None => padInfo[s] < i'
      <4>1. \A s \in Pads : padInfo[s] # None => padInfo[s] < i /\ padInfo[s] \in Int
        BY <1>1 DEF IInv, Collecting, Types, TypeOK, Pads
      <4> QED
        BY <2>1, <2>2, <4>1
    <3> QED
      BY <1>1, <2>1, <2>2, <3>1, <3>2 DEF IInv, Collecting
  <2> QED
    BY <1>3, <1>4, <1>5, <1>6, <2>3, <2>4 DEF IInv
<1>8. CASE i \notin Pads
  <2>1. pc' \in {"submit", "fill"} /\ slot' = 1 /\ i' = i
    BY <1>8 DEF SkipUnprepared
  <2>2. Types'
    <3>1. TypeOK'
      BY <1>1, <2>1 DEF IInv, Types, TypeOK
    <3>2. slot' >= 1 /\ frame \in 1 .. MaxFrames
      BY <1>1, <2>1 DEF IInv, Types
    <3> QED
      BY <1>1, <3>1, <3>2 DEF IInv, Types
  <2>3. Collecting'
    <3>1. i = NumPads + 1 /\ Before(i) = prepared
      BY <1>2, <1>8, BeforeCounts, SizesAssumption DEF Pads
    <3>2. "wrap" \notin spoiled => slot - 1 = nPads
      BY <1>1, <1>2, <3>1 DEF IInv, Collecting
    <3>3. \A s \in 1 .. nPads : s \in Pads /\ s < nPads + 1
      BY <1>2, SizesAssumption DEF Pads
    <3>4. "wrap" \notin spoiled => \A s \in 1 .. nPads : padInfo[s] # None
      <4>1. "wrap" \notin spoiled => slot = nPads + 1
        BY <1>2, <3>2
      <4> QED
        BY <1>1, <3>3, <4>1 DEF IInv, Collecting
    <3> QED
      BY <1>1, <2>1, <3>4 DEF Collecting
  <2> QED
    BY <1>3, <1>4, <1>5, <1>6, <2>2, <2>3 DEF IInv
<1> QED
  BY <1>7, <1>8

\* What a step between the collection and the release leaves as it is
LEMMA ComposingKeeps ==
  ASSUME IInv, pc \in Composing \ {"collect"}, pc' \in Composing \ {"collect"},
         UNCHANGED << slots, table, dst, background, bgMemory, padInfo, prepared, frame, nPads,
                      negotiations >>,
         faults \subseteq faults', \A f \in {"wrap", "dma"} : f \in faults' => f \in faults,
         spoiled \subseteq spoiled'
  PROVE  Held' /\ Filled' /\ Collecting' /\ Negotiated'
<1>1. Held'
  <2>1. pc' # "crashed"
    BY DEF Composing
  <2> QED
    BY <2>1 DEF IInv, Held
<1>2. Filled'
  BY DEF IInv, Filled, Slot
<1>3. Collecting'
  BY DEF IInv, Collecting
<1>4. Negotiated'
  <2>1. pc' \notin {"stopped", "finalized", "crashed"} /\ pc \notin {"stopped", "finalized", "crashed"}
    BY DEF Composing
  <2>2. FinalizedReleases'
    BY <2>1 DEF FinalizedReleases
  <2> QED
    BY <2>1, <2>2 DEF IInv, Negotiated
<1> QED
  BY <1>1, <1>2, <1>3, <1>4

\* The fences and the jobs as they are between collection and release
LEMMA Queue ==
  ASSUME IInv
  PROVE  /\ fences \in Seq(FenceValues) /\ pending \in Seq(Job)
         /\ Len(fences) = Len(slots) /\ Len(slots) \in Nat /\ DOMAIN slots = 1 .. Len(slots)
         /\ DOMAIN fences = 1 .. Len(slots)
         /\ Len(pending) \in Nat /\ DOMAIN pending = 1 .. Len(pending)
         /\ \A j \in DOMAIN pending : pending[j] \in Job
BY LenProperties, ElementOfSeq DEF IInv, Types

\* A job that is accepted is the only one of its slot
LEMMA SubmittedKeeps ==
  ASSUME IInv, pc = "submit", slot <= nPads, NEW r, Submitted(r), HandleLive(slots[slot]),
         slot' = slot + 1, UNCHANGED << pc, frame, nPads, slots, table, faults >>
  PROVE  /\ Jobs'
         /\ fences' \in Seq(FenceValues) /\ Len(fences') = Len(slots)
         /\ pending' \in Seq(Job)
<1> DEFINE job == [id |-> << frame, slot >>, src |-> slots[slot].rgabuf, px |-> Columns(r)]
<1>1. /\ slot \in 1 .. nPads /\ slot \in Pads /\ slot \in 1 .. Len(slots) /\ frame \in 1 .. MaxFrames
      /\ slot \in Nat /\ nPads \in Nat
  <2>1. /\ slot \in Nat /\ slot >= 1 /\ frame \in 1 .. MaxFrames /\ nPads \in Nat /\ nPads <= NumPads
        /\ nPads <= Len(slots)
    BY PadsAreCounted DEF IInv, Types, TypeOK, Filled, Composing
  <2>2. Len(slots) \in Nat
    BY Queue
  <2> QED
    BY <2>1, <2>2, SizesAssumption DEF Pads
<1>2. job \in Job /\ job.id = << frame, slot >> /\ job.src \in table.handles
  <2>1. slots[slot] \in ContextsOf(FrameBuffers, {NoBuffer})
    BY <1>1, Queue, ElementOfSeq DEF IInv, Types
  <2>2. slots[slot].rgabuf \in table.handles /\ table.handles \subseteq Buffers
    BY DEF HandleLive, IInv, Types, TypeOK, Ctx!Tables, Buffers
  <2>3. slots[slot].rgabuf \in FrameBuffers
    BY <2>1, <2>2, BuffersDiffer DEF ContextsOf
  <2>4. Columns(r) \subseteq Pixels
    BY DEF Columns
  <2> QED
    BY <1>1, <2>2, <2>3, <2>4 DEF Job
<1>3. pending' = Append(pending, job) /\ fences' = [fences EXCEPT ![slot] = << frame, slot >>]
  BY DEF Submitted
<1> HIDE DEF job
<1>4. /\ pending' \in Seq(Job) /\ DOMAIN pending' = 1 .. Len(pending) + 1
      /\ pending'[Len(pending) + 1] = job
      /\ \A j \in 1 .. Len(pending) : pending'[j] = pending[j]
  <2>1. pending \in Seq(Job) /\ Len(pending) \in Nat
    BY Queue
  <2>2. /\ Append(pending, job) \in Seq(Job) /\ Len(Append(pending, job)) = Len(pending) + 1
        /\ \A j \in 1 .. Len(pending) + 1 :
             Append(pending, job)[j] = IF j <= Len(pending) THEN pending[j] ELSE job
    BY <1>2, <2>1, AppendProperties
  <2>3. DOMAIN Append(pending, job) = 1 .. Len(pending) + 1
    BY <2>2, LenProperties
  <2>4. /\ Len(pending) + 1 \in 1 .. Len(pending) + 1 /\ ~(Len(pending) + 1 <= Len(pending))
        /\ \A j \in 1 .. Len(pending) : j \in 1 .. Len(pending) + 1 /\ j <= Len(pending)
    BY <2>1
  <2> QED
    BY <1>3, <2>2, <2>3, <2>4
<1>5. /\ fences' \in Seq(FenceValues) /\ Len(fences') = Len(slots)
      /\ fences'[slot] = << frame, slot >>
      /\ \A s \in 1 .. Len(slots) : s # slot => fences'[s] = fences[s]
  <2>1. << frame, slot >> \in FenceValues /\ slot \in 1 .. Len(fences)
    BY <1>1, Queue DEF FenceValues
  <2> QED
    BY <1>1, <1>3, <2>1, Queue, ExceptSeq
<1>6. Jobs'
  <2> SUFFICES ASSUME "sync" \notin faults, NEW j \in DOMAIN pending'
               PROVE  /\ pending'[j].id[1] = frame /\ pending'[j].src \in table.handles
                      /\ pending'[j].id[2] \in 1 .. nPads
                      /\ fences'[pending'[j].id[2]] = pending'[j].id
                      /\ pending'[j].id[2] < slot'
    BY DEF Jobs
  <2>1. CASE j = Len(pending) + 1
    <3>1. pending'[j] = job /\ job.id[1] = frame /\ job.id[2] = slot
      BY <1>2, <1>4, <2>1
    <3>2. slot < slot'
      BY <1>1
    <3> QED
      BY <1>1, <1>2, <1>5, <3>1, <3>2
  <2>2. CASE j # Len(pending) + 1
    <3>1. j \in DOMAIN pending /\ pending'[j] = pending[j]
      <4>1. j \in 1 .. Len(pending)
        BY <1>4, <2>2, Queue
      <4> QED
        BY <1>4, <4>1, Queue
    <3>2. /\ pending[j].id[1] = frame /\ pending[j].src \in table.handles
          /\ pending[j].id[2] \in 1 .. nPads /\ fences[pending[j].id[2]] = pending[j].id
          /\ pending[j].id[2] < slot
      BY <3>1 DEF IInv, Jobs
    <3>3. pending[j].id[2] # slot /\ pending[j].id[2] < slot + 1 /\ pending[j].id[2] \in 1 .. Len(slots)
      <4>1. nPads <= Len(slots) /\ Len(slots) \in Nat
        BY Queue DEF IInv, Filled, Composing
      <4> QED
        BY <1>1, <3>2, <4>1
    <3> QED
      BY <1>5, <3>1, <3>2, <3>3
  <2> QED
    BY <2>1, <2>2
<1> QED
  BY <1>4, <1>5, <1>6

\* Two slots never hold the same buffer
LEMMA HandlesDiffer ==
  ASSUME IInv
  PROVE  Distinct
<1>1. ASSUME pc # "crashed", NEW s \in DOMAIN slots, NEW t \in DOMAIN slots, s # t, slots[s].handle # NoBuffer
      PROVE  slots[s].handle # slots[t].handle
  <2>1. CASE slots[t].handle = NoBuffer
    BY <1>1, <2>1
  <2>2. CASE slots[t].handle # NoBuffer
    <3>1. pc \in Composing
      BY <1>1 DEF IInv, Held, Clean
    <3>2. /\ nPads \in Nat /\ nPads <= NumPads /\ NumPads \in Nat /\ Len(slots) \in Nat
          /\ DOMAIN slots = 1 .. Len(slots) /\ frame \in 1 .. MaxFrames /\ prepared \subseteq Pads
      BY <3>1, PadsAreCounted, Queue, SizesAssumption DEF IInv, Types, TypeOK, Filled
    <3>3. s <= nPads /\ t <= nPads
      <4>1. ~(s > nPads) /\ ~(t > nPads)
        BY <1>1, <2>2, <3>1 DEF IInv, Filled, Clean
      <4> QED
        BY <3>2, <4>1
    <3>4. s \in 1 .. nPads /\ t \in 1 .. nPads /\ s \in Pads /\ t \in Pads
      BY <3>2, <3>3 DEF Pads
    <3>5. /\ padInfo[s] # None /\ padInfo[s] \in prepared /\ slots[s].handle = Frame(padInfo[s], frame)
          /\ padInfo[t] # None /\ padInfo[t] \in prepared /\ slots[t].handle = Frame(padInfo[t], frame)
      BY <1>1, <2>2, <3>1, <3>4 DEF IInv, Filled, Slot
    <3>6. padInfo[s] # padInfo[t]
      <4>1. s < t \/ t < s
        BY <1>1, <3>4 DEF Pads
      <4>2. padInfo[s] < padInfo[t] \/ padInfo[t] < padInfo[s]
        BY <3>1, <3>4, <3>5, <4>1 DEF IInv, Filled
      <4>3. padInfo[s] \in Int /\ padInfo[t] \in Int
        <5>1. padInfo[s] \in Pads /\ padInfo[t] \in Pads
          BY <3>2, <3>5
        <5>2. \A p \in Pads : p \in Int
          BY DEF Pads
        <5> QED
          BY <5>1, <5>2
      <4> QED
        BY <4>2, <4>3
    <3> QED
      BY <3>2, <3>5, <3>6, BuffersDiffer
  <2> QED
    BY <2>1, <2>2
<1> QED
  BY <1>1 DEF IInv, Held, Distinct

(***************************************************************************)
(* The end of the process, in a composition or in finalize                 *)
(***************************************************************************)
LEMMA CrashKeeps ==
  ASSUME IInv, pc \in Composing \cup {"stopped"}, pc' = "crashed",
         UNCHANGED << i, slot, frame, negotiations, fed, prepared, nPads, padInfo, slots, fences, dst,
                      background, bgMemory, table, pending, bgRow, outRow, scene, changes, faults, spoiled >>
  PROVE  IInv'
<1>1. pc' \notin Composing \cup {"prepare", "wrap output", "submit", "sync", "finalized", "stopped"}
  BY DEF Composing
<1>2. Types'
  <2>1. TypeOK'
    BY DEF IInv, Types, TypeOK
  <2> QED
    BY <1>1, <2>1 DEF IInv, Types
<1>3. Held'
  <2>1. Distinct'
    BY HandlesDiffer DEF Distinct
  <2> QED
    BY <2>1 DEF IInv, Held
<1>4. Filled' /\ Collecting'
  BY <1>1 DEF Filled, Collecting, Composing
<1>5. Jobs'
  BY DEF IInv, Jobs
<1>6. Negotiated'
  <2>1. FinalizedReleases'
    BY DEF FinalizedReleases
  <2>2. pc # "finalized"
    BY DEF Composing
  <2> QED
    BY <2>1, <2>2 DEF IInv, Negotiated
<1> QED
  BY <1>2, <1>3, <1>4, <1>5, <1>6 DEF IInv

\* A job the RGA is given, or refuses
LEMMA SubmitKeeps ==
  ASSUME IInv, Submit \/ SubmitUnset, pc' # "crashed"
  PROVE  IInv'
<1>1. /\ pc = "submit" /\ slot <= nPads
      /\ UNCHANGED << i, frame, negotiations, fed, prepared, nPads, padInfo, slots, dst, background, bgMemory,
                      table, bgRow, outRow, scene, changes >>
      /\ pc \in Composing \ {"collect"}
  BY DEF Submit, SubmitUnset, envVars, Composing
<1>2. /\ pc' = "submit" /\ slot' = slot + 1
      /\ pc' \in Composing \ {"collect"}
  BY <1>1 DEF Submit, SubmitUnset, Composing
<1>3. /\ faults \subseteq faults' /\ faults' \subseteq Faults /\ spoiled \subseteq spoiled'
      /\ \A f \in {"wrap", "dma", "sync"} : f \in faults' => f \in faults
      /\ spoiled' \subseteq Faults \cup {"changed", "overtaken"} /\ spoiled' \cap Faults \subseteq faults'
  BY DEF Submit, SubmitUnset, Works, Fails, IInv, Types, TypeOK, Faults
<1>4. Held' /\ Filled' /\ Collecting' /\ Negotiated'
  BY <1>1, <1>2, <1>3, ComposingKeeps
<1>5. /\ Jobs'
      /\ fences' \in Seq(FenceValues) /\ Len(fences') = Len(slots)
      /\ pending' \in Seq(Job)
  <2>1. CASE \E r : Submitted(r) /\ HandleLive(slots[slot]) /\ slot' = slot + 1 /\ UNCHANGED << pc, faults >>
    BY <1>1, <2>1, SubmittedKeeps
  <2>2. CASE UNCHANGED << fences, pending >>
    <3>1. \A j \in DOMAIN pending :
            "sync" \notin faults /\ pc' = "submit" => pending[j].id[2] < slot'
      <4> SUFFICES ASSUME NEW j \in DOMAIN pending, "sync" \notin faults, pc' = "submit"
                   PROVE  pending[j].id[2] < slot'
        OBVIOUS
      <4>1. pending[j].id[2] < slot /\ pending[j].id[2] \in 1 .. nPads
        BY <1>1 DEF IInv, Jobs
      <4>2. slot' = slot + 1 /\ slot \in Nat
        BY <1>2 DEF IInv, Types, TypeOK
      <4> QED
        BY <4>1, <4>2
    <3>2. Jobs'
      BY <1>1, <1>2, <1>3, <2>2, <3>1 DEF IInv, Jobs
    <3> QED
      BY <1>1, <2>2, <3>2, Queue
  <2>3. (\E r : Submitted(r) /\ HandleLive(slots[slot]) /\ slot' = slot + 1 /\ UNCHANGED << pc, faults >>)
        \/ UNCHANGED << fences, pending >>
    <3>1. CASE Submit
      BY <3>1 DEF Submit, JobAccepted, Works
    <3>2. CASE SubmitUnset
      BY <3>2 DEF SubmitUnset, JobAccepted
    <3> QED
      BY <3>1, <3>2
  <2> QED
    BY <2>1, <2>2, <2>3
<1>6. Types'
  <2>1. /\ \A s \in DOMAIN fences' : fences'[s] \in FenceValues
        /\ \A j \in DOMAIN pending' : pending'[j] \in Job
    BY <1>5, LenProperties, ElementOfSeq
  <2>2. slot' \in Nat /\ slot' >= 1 /\ frame \in 1 .. MaxFrames
    <3>1. slot \in Nat /\ slot >= 1 /\ frame \in 1 .. MaxFrames
      BY <1>1 DEF IInv, Types, TypeOK
    <3> QED
      BY <1>2, <3>1
  <2>3. TypeOK'
    BY <1>1, <1>2, <1>3, <2>1, <2>2 DEF IInv, Types, TypeOK, FenceValues
  <2> QED
    BY <1>1, <1>3, <1>5, <2>2, <2>3 DEF IInv, Types
<1> QED
  BY <1>4, <1>5, <1>6 DEF IInv

\* Moving on without touching jobs: all slots submitted, all fences awaited,
\* filled, copied
LEMMA MoveOnKeeps ==
  ASSUME IInv, SubmitDone \/ SyncDone \/ BgFill \/ BgCopy
  PROVE  IInv'
<1>1. /\ pc \in {"submit", "sync", "fill", "copy"} /\ pc' \in {"sync", "copy", "unwrap"}
      /\ pc \in Composing \ {"collect"} /\ pc' \in Composing \ {"collect"}
      /\ UNCHANGED << i, frame, negotiations, fed, prepared, nPads, padInfo, slots, fences, dst, background,
                      bgMemory, table, pending, scene, changes >>
  BY DEF SubmitDone, SyncDone, BgFill, BgCopy, Composing, rgaVars, rowVars, envVars
<1>2. /\ faults \subseteq faults' /\ faults' \subseteq Faults /\ spoiled \subseteq spoiled'
      /\ \A f \in {"wrap", "dma", "sync"} : f \in faults' => f \in faults
      /\ spoiled' \subseteq Faults \cup {"changed", "overtaken"} /\ spoiled' \cap Faults \subseteq faults'
  <2>1. \/ UNCHANGED << faults, spoiled >>
        \/ \E f \in {"fill", "copy"} : faults' = faults \cup {f} /\ spoiled' = spoiled \cup {f}
    BY DEF SubmitDone, SyncDone, BgFill, BgCopy, Works, Fails
  <2> QED
    BY <2>1 DEF IInv, Types, TypeOK, Faults
<1>3. Held' /\ Filled' /\ Collecting' /\ Negotiated'
  BY <1>1, <1>2, ComposingKeeps
<1>4. bgRow' \in [Pixels -> Pixel] /\ outRow' \in [Pixels -> Pixel]
  <2>1. bgRow \in [Pixels -> Pixel] /\ outRow \in [Pixels -> Pixel]
    BY DEF IInv, Types, TypeOK
  <2>2. [x \in Pixels |-> Black] \in [Pixels -> Pixel]
    BY DEF Pixel, Black
  <2> QED
    BY <2>1, <2>2 DEF SubmitDone, SyncDone, BgFill, BgCopy, rowVars
<1>5. slot' \in Nat /\ (pc' = "sync" => slot' = 1)
  <2>1. slot \in Nat
    BY DEF IInv, Types, TypeOK
  <2>2. slot' = slot \/ slot' = 1
    BY DEF SubmitDone, SyncDone, BgFill, BgCopy
  <2>3. pc' = "sync" => slot' = 1
    BY DEF SubmitDone, SyncDone, BgFill, BgCopy
  <2> QED
    BY <2>1, <2>2, <2>3
<1>6. Types'
  <2>1. TypeOK'
    BY <1>1, <1>2, <1>4, <1>5 DEF IInv, Types, TypeOK
  <2>2. frame \in 1 .. MaxFrames /\ (pc' = "sync" => slot' >= 1) /\ pc' # "submit"
    BY <1>1, <1>5 DEF IInv, Types
  <2> QED
    BY <1>1, <1>2, <2>1, <2>2 DEF IInv, Types
<1>7. Jobs'
  <2> SUFFICES ASSUME "sync" \notin faults
               PROVE  /\ pending # << >> => pc' = "sync"
                      /\ \A j \in DOMAIN pending :
                           /\ pending[j].id[1] = frame /\ pending[j].src \in table.handles
                           /\ pending[j].id[2] \in 1 .. nPads
                           /\ fences[pending[j].id[2]] = pending[j].id
                           /\ pc' = "sync" => pending[j].id[2] >= slot'
    BY <1>1, <1>2 DEF Jobs
  <2>1. \A j \in DOMAIN pending :
          /\ pending[j].id[1] = frame /\ pending[j].src \in table.handles
          /\ pending[j].id[2] \in 1 .. nPads
          /\ fences[pending[j].id[2]] = pending[j].id
    BY DEF IInv, Jobs
  <2>2. CASE SubmitDone
    <3>1. pc' = "sync" /\ slot' = 1
      BY <2>2 DEF SubmitDone
    <3>2. \A k \in 1 .. nPads : k >= 1
      OBVIOUS
    <3> QED
      BY <2>1, <3>1, <3>2
  <2>3. CASE SyncDone
    <3>1. pc = "sync" /\ slot > nPads /\ slot \in Nat /\ nPads \in Nat
      BY <2>3, PadsAreCounted, SizesAssumption DEF SyncDone, IInv, Types, TypeOK
    <3>2. \A j \in DOMAIN pending : pending[j].id[2] >= slot /\ pending[j].id[2] \in 1 .. nPads
      BY <3>1 DEF IInv, Jobs
    <3>3. DOMAIN pending = {}
      <4>1. ASSUME NEW j \in DOMAIN pending
            PROVE  FALSE
        BY <3>1, <3>2
      <4> QED
        BY <4>1
    <3>4. pending = << >>
      BY <3>3, Queue, EmptySeq
    <3> QED
      BY <3>3, <3>4
  <2>4. CASE BgFill \/ BgCopy
    <3>1. pending = << >> /\ DOMAIN << >> = {}
      BY <2>4 DEF BgFill, BgCopy, IInv, Jobs
    <3> QED
      BY <3>1
  <2> QED
    BY <2>2, <2>3, <2>4
<1> QED
  BY <1>3, <1>6, <1>7 DEF IInv

LEMMA SyncProcessKeeps ==
  ASSUME IInv, SyncProcess
  PROVE  IInv'
<1>1. /\ pc = "sync" /\ pc' = "sync" /\ pc \in Composing \ {"collect"} /\ slot' = slot + 1 /\ slot <= nPads
      /\ UNCHANGED << i, frame, negotiations, fed, prepared, nPads, padInfo, slots, fences, dst, background,
                      bgMemory, table, pending, bgRow, outRow, scene, changes >>
  BY DEF SyncProcess, envVars, rowVars, rgaVars, Composing
<1>2. /\ faults \subseteq faults' /\ faults' \subseteq Faults /\ spoiled \subseteq spoiled'
      /\ \A f \in {"wrap", "dma"} : f \in faults' => f \in faults
      /\ spoiled' \subseteq Faults \cup {"changed", "overtaken"} /\ spoiled' \cap Faults \subseteq faults'
      /\ "sync" \notin faults' =>
           "sync" \notin faults /\ (fences[slot] = None \/ Signalled(fences[slot]))
  BY DEF SyncProcess, Works, Fails, IInv, Types, TypeOK, Faults
<1>3. Held' /\ Filled' /\ Collecting' /\ Negotiated'
  BY <1>1, <1>2, ComposingKeeps
<1>4. slot \in Nat /\ slot >= 1 /\ frame \in 1 .. MaxFrames
  BY <1>1 DEF IInv, Types, TypeOK
<1>5. Types'
  <2>1. slot' \in Nat /\ slot' >= 1
    BY <1>1, <1>4
  <2>2. TypeOK'
    BY <1>1, <1>2, <2>1 DEF IInv, Types, TypeOK
  <2> QED
    BY <1>1, <1>2, <1>4, <2>1, <2>2 DEF IInv, Types
<1>6. Jobs'
  <2> SUFFICES ASSUME "sync" \notin faults', NEW j \in DOMAIN pending
               PROVE  /\ pending[j].id[1] = frame /\ pending[j].src \in table.handles
                      /\ pending[j].id[2] \in 1 .. nPads
                      /\ fences[pending[j].id[2]] = pending[j].id
                      /\ pending[j].id[2] >= slot + 1
    BY <1>1 DEF Jobs
  <2>1. /\ pending[j].id[1] = frame /\ pending[j].src \in table.handles
        /\ pending[j].id[2] \in 1 .. nPads
        /\ fences[pending[j].id[2]] = pending[j].id
        /\ pending[j].id[2] >= slot
    BY <1>1, <1>2 DEF IInv, Jobs
  <2>2. pending[j].id # None
    <3>1. pending[j].id \in (1 .. MaxFrames) \X Pads
      BY Queue DEF Job
    <3>2. (1 .. MaxFrames) \X Pads \subseteq Nat \X Nat
      BY DEF Pads
    <3> QED
      BY <3>1, <3>2, SizesAssumption
  <2>3. pending[j].id[2] # slot
    BY <1>2, <2>1, <2>2 DEF Signalled
  <2> QED
    BY <1>4, <2>1, <2>3
<1> QED
  BY <1>3, <1>5, <1>6 DEF IInv

-----------------------------------------------------------------------------
(***************************************************************************)
(* The release, and the life of the element                                *)
(***************************************************************************)
LEMMA UnwrapKeeps ==
  ASSUME IInv, Unwrap
  PROVE  IInv'
<1> DEFINE Slots == Seq(ContextsOf(FrameBuffers, {NoBuffer}))
           handles == {c.handle : c \in Wrapped}
           buffers == {c.buffer : c \in Wrapped}
<1>1. /\ pc = "unwrap" /\ pc' = "delivered" /\ pc \in Composing /\ pc' \notin Composing /\ pc' # "crashed"
      /\ slots' = [s \in DOMAIN slots |-> IF s <= nPads THEN Ctx!Unwrapped(slots[s]) ELSE slots[s]]
      /\ dst' = Ctx!Unwrapped(dst)
      /\ table' = [table EXCEPT !.handles = @ \ handles, !.maps = @ \ buffers]
      /\ UNCHANGED << i, slot, frame, negotiations, fed, prepared, nPads, padInfo, fences, background,
                      bgMemory, pending, bgRow, outRow, scene, changes, faults, spoiled >>
  BY DEF Unwrap, rowVars, envVars, Composing
<1>2. /\ Len(slots) \in Nat /\ DOMAIN slots = 1 .. Len(slots)
      /\ \A s \in DOMAIN slots : slots[s] \in ContextsOf(FrameBuffers, {NoBuffer})
      /\ dst \in ContextsOf(OutBuffers, {NoBuffer}) /\ table \in Ctx!Tables
      /\ background \in ContextsOf(Backgrounds, Backgrounds \cup {NoBuffer})
      /\ nPads \in Nat /\ nPads <= Len(slots)
      /\ \A s \in DOMAIN slots : s > nPads => Clean(slots[s])
  BY <1>1, LenProperties, ElementOfSeq, PadsAreCounted DEF IInv, Types, TypeOK, Filled
<1>3. /\ Wrapped = {slots[s] : s \in 1 .. nPads} \cup {dst}
      /\ \A s \in 1 .. nPads : s \in DOMAIN slots
  BY <1>2 DEF Wrapped
<1>4. /\ \A s \in DOMAIN slots : slots'[s] \in ContextsOf(FrameBuffers, {NoBuffer}) /\ Clean(slots'[s])
      /\ slots' \in Slots /\ Len(slots') = Len(slots) /\ DOMAIN slots' = DOMAIN slots
  <2>1. ASSUME NEW s \in DOMAIN slots
        PROVE  slots'[s] \in ContextsOf(FrameBuffers, {NoBuffer}) /\ Clean(slots'[s])
    <3>1. CASE s <= nPads
      <4>1. slots'[s] = [slots[s] EXCEPT !.handle = NoBuffer, !.buffer = NoBuffer, !.dma = NoBuffer]
        BY <1>1, <3>1 DEF Ctx!Unwrapped
      <4> QED
        BY <1>2, <4>1 DEF ContextsOf, Clean
    <3>2. CASE ~(s <= nPads)
      <4>1. slots'[s] = slots[s] /\ s > nPads
        BY <1>1, <1>2, <3>2
      <4> QED
        BY <1>2, <4>1
    <3> QED
      BY <3>1, <3>2
  <2>2. slots' \in [1 .. Len(slots) -> ContextsOf(FrameBuffers, {NoBuffer})]
    BY <1>1, <1>2, <2>1
  <2>3. slots' \in Slots /\ Len(slots') = Len(slots)
    BY <1>2, <2>2, FunctionIsSequence
  <2> QED
    BY <1>1, <2>1, <2>3
<1>5. dst' \in ContextsOf(OutBuffers, {NoBuffer}) /\ Clean(dst')
  BY <1>1, <1>2 DEF ContextsOf, Clean, Ctx!Unwrapped
<1>6. /\ table' \in Ctx!Tables /\ table'.handles = table.handles \ handles
      /\ table'.maps = table.maps \ buffers
      /\ table'.dmas = table.dmas /\ table'.strays = table.strays
  BY <1>1, <1>2 DEF Ctx!Tables
\* Only frames and outputs are released, and all that slots and output hold
<1>7. /\ handles \cap Backgrounds = {} /\ buffers \cap Backgrounds = {}
      /\ dst.handle \in handles /\ dst.buffer \in buffers
      /\ \A s \in DOMAIN slots : /\ slots[s].handle \in handles \cup {NoBuffer}
                                 /\ slots[s].buffer \in buffers \cup {NoBuffer}
  <2>1. \A c \in Wrapped : c \in ContextsOf(FrameBuffers, {NoBuffer}) \cup ContextsOf(OutBuffers, {NoBuffer})
    BY <1>2, <1>3
  <2>2. \A c \in Wrapped : c.handle \notin Backgrounds /\ c.buffer \notin Backgrounds
    BY <2>1, BuffersDiffer DEF ContextsOf, Buffers
  <2>3. dst.handle \in handles /\ dst.buffer \in buffers
    BY <1>3
  <2>4. ASSUME NEW s \in DOMAIN slots
        PROVE  /\ slots[s].handle \in handles \cup {NoBuffer}
               /\ slots[s].buffer \in buffers \cup {NoBuffer}
    <3>1. CASE s \in 1 .. nPads
      BY <1>3, <3>1
    <3>2. CASE s \notin 1 .. nPads
      <4>1. s > nPads
        BY <1>2, <3>2
      <4> QED
        BY <1>2, <4>1 DEF Clean
    <3> QED
      BY <3>1, <3>2
  <2> QED
    BY <2>2, <2>3, <2>4
<1> HIDE DEF handles, buffers
<1>8. NoBuffer \notin table.handles /\ NoBuffer \notin table.maps
  BY <1>2, BuffersDiffer DEF Ctx!Tables, Buffers
<1>9. /\ table'.handles \subseteq Backgrounds
      /\ table'.maps \cap OutBuffers = {}
      /\ "wrap" \notin faults => table'.maps \cap FrameBuffers = {}
  <2>1. ASSUME NEW h \in table'.handles
        PROVE  h \in Backgrounds
    BY <1>6, <1>7, <1>8 DEF IInv, Held
  <2>2. ASSUME NEW m \in table'.maps \cap OutBuffers
        PROVE  FALSE
    BY <1>6, <1>7 DEF IInv, Held
  <2>3. ASSUME "wrap" \notin faults, NEW m \in table'.maps \cap FrameBuffers
        PROVE  FALSE
    BY <1>6, <1>7, <1>8, <2>3 DEF IInv, Held
  <2> QED
    BY <2>1, <2>2, <2>3
<1>10. Types'
  <2>1. \A s \in DOMAIN slots' : slots'[s] \in Ctx!Contexts
    BY <1>4 DEF ContextsOf, Ctx!Contexts
  <2>2. dst' \in Ctx!Contexts
    BY <1>5 DEF ContextsOf, Ctx!Contexts
  <2>3. TypeOK'
    BY <1>1, <1>6, <2>1, <2>2 DEF IInv, Types, TypeOK
  <2>4. pc' \notin Composing \cup {"prepare", "wrap output", "submit", "sync"}
    BY <1>1 DEF Composing
  <2> QED
    BY <1>1, <1>4, <1>5, <2>3, <2>4 DEF IInv, Types
<1>11. Held'
  <2>1. \A s \in DOMAIN slots' : slots'[s].dma = NoBuffer
    BY <1>4 DEF ContextsOf
  <2>2. \A s \in DOMAIN slots' : Ctx!Holds(slots'[s], table')
    BY <1>4, <2>1 DEF Ctx!Holds, Clean
  <2>3. Ctx!Holds(dst', table')
    BY <1>5 DEF Ctx!Holds, Clean, ContextsOf
  <2>4. Ctx!Holds(background', table')
    <3>1. /\ background.handle \in Backgrounds \cup {NoBuffer}
          /\ background.buffer \in Backgrounds \cup {NoBuffer}
      BY <1>2 DEF ContextsOf
    <3>2. Ctx!Holds(background, table)
      BY DEF IInv, Held
    <3> QED
      BY <1>1, <1>6, <1>7, <3>1, <3>2 DEF Ctx!Holds
  <2> QED
    BY <1>1, <1>4, <1>5, <1>9, <2>2, <2>3, <2>4 DEF Held
<1>12. Filled' /\ Collecting'
  BY <1>1 DEF Filled, Collecting, Composing
<1>13. Jobs'
  <2>1. DOMAIN << >> = {}
    OBVIOUS
  <2>2. "sync" \notin faults => pending = << >>
    BY <1>1 DEF IInv, Jobs
  <2> QED
    BY <1>1, <2>1, <2>2 DEF Jobs
<1>14. Negotiated'
  <2>1. FinalizedReleases'
    BY <1>1 DEF FinalizedReleases
  <2>2. /\ table'.handles \cap Backgrounds = table.handles \cap Backgrounds
        /\ table'.maps \cap Backgrounds = table.maps \cap Backgrounds
    BY <1>6, <1>7
  <2> QED
    BY <1>1, <1>6, <2>1, <2>2 DEF IInv, Negotiated
<1> QED
  BY <1>10, <1>11, <1>12, <1>13, <1>14 DEF IInv

LEMMA FinishOrStopKeeps ==
  ASSUME IInv, Finish \/ Stop
  PROVE  IInv'
<1>1. /\ pc \in {"delivered", "idle"} /\ pc' \in {"idle", "stopped"}
      /\ pc \notin Composing /\ pc' \notin Composing /\ pc # "crashed" /\ pc' # "crashed"
      /\ UNCHANGED << i, slot, frame, negotiations, fed, prepared, nPads, padInfo, slots, fences, dst,
                      background, table, rowVars, envVars, faults, spoiled >>
      /\ bgMemory' \in {bgMemory, NoBuffer} /\ (pc' # "stopped" => bgMemory' = bgMemory)
  BY DEF Finish, Stop, rgaVars, Composing
<1>2. Types'
  <2>1. TypeOK'
    BY <1>1 DEF IInv, Types, TypeOK, rowVars, envVars
  <2>2. pc' \notin Composing \cup {"prepare", "wrap output", "submit", "sync"}
    BY <1>1 DEF Composing
  <2> QED
    BY <1>1, <2>1, <2>2 DEF IInv, Types, rowVars
<1>3. Held'
  BY <1>1 DEF IInv, Held
<1>4. Filled' /\ Collecting'
  BY <1>1 DEF Filled, Collecting, Composing
<1>5. Jobs'
  <2>1. DOMAIN << >> = {}
    OBVIOUS
  <2>2. "sync" \notin faults => pending = << >>
    BY <1>1 DEF IInv, Jobs
  <2> QED
    BY <1>1, <2>1, <2>2 DEF Jobs, rowVars
<1>6. Negotiated'
  <2>1. FinalizedReleases'
    BY <1>1 DEF FinalizedReleases
  <2> QED
    BY <1>1, <2>1 DEF IInv, Negotiated
<1> QED
  BY <1>2, <1>3, <1>4, <1>5, <1>6 DEF IInv

LEMMA FinalizeKeeps ==
  ASSUME IInv, Finalize \/ FinalizeDangling, pc' = "finalized"
  PROVE  IInv'
<1>1. /\ pc = "stopped" /\ pc' = "finalized" /\ pc \notin Composing /\ pc' \notin Composing /\ pc # "crashed" /\ pc' # "crashed"
      /\ background' = Ctx!Unwrapped(background)
      /\ table' \in {Ctx!Without(table, background), [Ctx!Without(table, background) EXCEPT !.maps = table.maps]}
      /\ UNCHANGED << i, slot, frame, negotiations, fed, prepared, nPads, padInfo, slots, fences, dst,
                      bgMemory, rowVars, envVars, faults, spoiled >>
  BY DEF Finalize, FinalizeDangling, FinalizeUnchanged, Composing
<1>2. /\ table \in Ctx!Tables /\ background \in ContextsOf(Backgrounds, Backgrounds \cup {NoBuffer})
      /\ Clean(dst) /\ dst \in ContextsOf(OutBuffers, {NoBuffer})
      /\ \A s \in DOMAIN slots : Clean(slots[s]) /\ slots[s] \in ContextsOf(FrameBuffers, {NoBuffer})
  BY <1>1, Queue, ElementOfSeq DEF IInv, Types, TypeOK, Held
<1>3. /\ background' \in ContextsOf(Backgrounds, Backgrounds \cup {NoBuffer})
      /\ background'.handle = NoBuffer /\ background'.buffer = NoBuffer /\ background'.dma = NoBuffer
  BY <1>1, <1>2 DEF ContextsOf, Ctx!Unwrapped
<1>4. /\ table' \in Ctx!Tables /\ table'.handles = table.handles \ {background.handle}
      /\ table'.maps \subseteq table.maps /\ table'.dmas = table.dmas \ {background.dma}
      /\ table'.strays = table.strays
  <2> DEFINE t == Ctx!Without(table, background)
  <2>1. /\ t \in Ctx!Tables /\ t.handles = table.handles \ {background.handle}
        /\ t.maps = table.maps \ {background.buffer} /\ t.dmas = table.dmas \ {background.dma}
        /\ t.strays = table.strays
    BY <1>2 DEF Ctx!Tables, Ctx!Without
  <2>2. table' \in {t, [t EXCEPT !.maps = table.maps]}
    BY <1>1
  <2> HIDE DEF t
  <2> QED
    BY <1>2, <2>1, <2>2 DEF Ctx!Tables
<1>5. Types'
  <2>1. background' \in Ctx!Contexts
    BY <1>3 DEF ContextsOf, Ctx!Contexts
  <2>2. TypeOK'
    BY <1>1, <1>4, <2>1 DEF IInv, Types, TypeOK, rowVars, envVars
  <2>3. pc' \notin Composing \cup {"prepare", "wrap output", "submit", "sync"}
    BY <1>1 DEF Composing
  <2> QED
    BY <1>1, <1>3, <2>2, <2>3 DEF IInv, Types, rowVars
<1>6. /\ table.handles \subseteq Backgrounds /\ table.maps \cap OutBuffers = {}
      /\ "wrap" \notin faults => table.maps \cap FrameBuffers = {}
  BY <1>1, NothingWrapped
<1>7. Held'
  <2>1. /\ \A s \in DOMAIN slots : Ctx!Holds(slots[s], table')
        /\ Ctx!Holds(dst, table') /\ Ctx!Holds(background', table')
    BY <1>2, <1>3 DEF Ctx!Holds, Clean, ContextsOf
  <2>2. /\ table'.handles \subseteq Backgrounds /\ table'.maps \cap OutBuffers = {}
        /\ "wrap" \notin faults => table'.maps \cap FrameBuffers = {}
    BY <1>4, <1>6
  <2> QED
    BY <1>1, <1>2, <2>1, <2>2 DEF Held
<1>8. Filled' /\ Collecting'
  BY <1>1 DEF Filled, Collecting, Composing
<1>9. Jobs'
  <2>1. pending = << >> /\ pending' = << >> /\ DOMAIN << >> = {}
    BY <1>1 DEF Finalize, FinalizeDangling, rowVars
  <2> QED
    BY <2>1 DEF Jobs
<1>10. FinalizedReleases'
  <2> SUFFICES ASSUME faults = {}
               PROVE  /\ table'.handles \cup table'.dmas \subseteq {Dma(k) : k \in 1 .. negotiations - 1}
                      /\ table'.maps = {} /\ table'.strays = 0
    BY <1>1 DEF FinalizedReleases
  <2>1. negotiations \in Nat /\ table.maps \subseteq Buffers
    <3>1. negotiations \in 0 .. MaxNegotiations
      BY DEF IInv, Types, TypeOK
    <3>2. negotiations \in Nat
      BY <3>1, SizesAssumption
    <3> QED
      BY <1>2, <3>2 DEF Ctx!Tables, Buffers
  <2>2. table'.maps = {} /\ table'.strays = 0
    <3>1. table.maps \cap Backgrounds = {} /\ table.strays = 0
      BY DEF IInv, Negotiated
    <3> QED
      BY <1>4, <1>6, <2>1, <3>1 DEF Buffers
  <2>3. table.dmas \cup table.handles \subseteq {Dma(k) : k \in 1 .. negotiations}
    BY <1>6 DEF IInv, Negotiated
  <2>4. CASE negotiations = 0
    <3>1. 1 .. negotiations = {}
      BY <2>4
    <3>2. table'.dmas \cup table'.handles = {}
      BY <1>4, <2>3, <3>1
    <3> QED
      BY <2>2, <3>2
  <2>5. CASE negotiations >= 1
    <3>1. background.handle = Dma(negotiations) /\ background.dma = Dma(negotiations)
      BY <1>1, <2>5 DEF IInv, Negotiated
    <3>2. ASSUME NEW b \in table'.handles \cup table'.dmas
          PROVE  \E k \in 1 .. negotiations - 1 : b = Dma(k)
      <4>1. b # Dma(negotiations) /\ b \in table.dmas \cup table.handles
        BY <1>4, <3>1
      <4>2. PICK k \in 1 .. negotiations : b = Dma(k)
        BY <2>3, <4>1
      <4>3. k # negotiations
        BY <4>1, <4>2
      <4>4. k \in 1 .. negotiations - 1
        BY <2>1, <4>3
      <4> QED
        BY <4>2, <4>4
    <3> QED
      BY <2>2, <3>2
  <2> QED
    BY <2>1, <2>4, <2>5
<1>11. Negotiated'
  <2>1. background'.buffer = NoBuffer
    BY <1>3
  <2>2. ASSUME faults' = {}
        PROVE  /\ table'.dmas \cup (table'.handles \cap Backgrounds) \subseteq {Dma(k) : k \in 1 .. negotiations'}
               /\ table'.maps \cap Backgrounds = {} /\ table'.strays = 0
    <3>1. /\ table.dmas \cup (table.handles \cap Backgrounds) \subseteq {Dma(k) : k \in 1 .. negotiations}
          /\ table.maps \cap Backgrounds = {} /\ table.strays = 0
      BY <1>1, <2>2 DEF IInv, Negotiated
    <3>2. /\ table'.dmas \cup (table'.handles \cap Backgrounds)
               \subseteq table.dmas \cup (table.handles \cap Backgrounds)
          /\ table'.maps \subseteq table.maps /\ negotiations' = negotiations
      BY <1>1, <1>4
    <3> QED
      BY <1>3, <1>4, <3>1, <3>2
  <2> QED
    BY <1>1, <1>10, <2>1, <2>2 DEF Negotiated
<1> QED
  BY <1>5, <1>7, <1>8, <1>9, <1>11 DEF IInv

\* set_functions and the context it leaves
LEMMA SetFunctionsResult ==
  ASSUME IInv, pc \in {"idle", "stopped"}, negotiations < MaxNegotiations,
         NEW outcome \in Ctx!DmaOutcomes, NEW imports \in BOOLEAN,
         NEW r, r = SetFunctions(negotiations + 1, outcome, imports)
  PROVE  /\ r.ctx \in ContextsOf(Backgrounds, Backgrounds \cup {NoBuffer})
         /\ r.table \in Ctx!Tables /\ r.memory \in Backgrounds \cup {NoBuffer}
         /\ Ctx!Holds(r.ctx, r.table)
         /\ table.handles \subseteq r.table.handles /\ table.maps \subseteq r.table.maps
         /\ r.table.handles \subseteq table.handles \cup Backgrounds
         /\ r.table.maps \subseteq table.maps \cup Backgrounds
         /\ r.ctx.buffer \in {background.buffer, Memory(negotiations + 1)}
         /\ r.ctx.buffer = background.buffer \/ r.memory = Memory(negotiations + 1)
         /\ outcome = "ok" =>
              /\ r.ctx.handle = Dma(negotiations + 1) /\ r.ctx.rgabuf = Dma(negotiations + 1)
              /\ r.ctx.dma = Dma(negotiations + 1) /\ r.ctx.size = Dma(negotiations + 1)
              /\ r.ctx.buffer = background.buffer /\ r.memory = NoBuffer
              /\ r.table.handles = table.handles \cup {Dma(negotiations + 1)}
              /\ r.table.dmas = table.dmas \cup {Dma(negotiations + 1)}
              /\ r.table.maps = table.maps /\ r.table.strays = table.strays
<1> DEFINE k == negotiations + 1
           B == Backgrounds
           D == Backgrounds \cup {NoBuffer}
           d == Ctx!WrapDmabuf(background, table, Dma(k), outcome)
           m == Ctx!WrapBuffer(d.ctx, d.table, Memory(k), FALSE, imports)
<1>1. /\ background \in ContextsOf(B, D) /\ table \in Ctx!Tables /\ Ctx!Holds(background, table)
      /\ k \in 1 .. MaxNegotiations /\ Dma(k) \in B /\ Memory(k) \in B /\ Dma(k) \in Buffers /\ Memory(k) \in Buffers
  <2>1. negotiations \in 0 .. MaxNegotiations
    BY DEF IInv, Types, TypeOK
  <2>2. k \in 1 .. MaxNegotiations
    BY <2>1, SizesAssumption
  <2> QED
    BY <2>2, BuffersDiffer DEF IInv, Types, TypeOK, Held, Buffers
<1> HIDE DEF k
<1>2. CASE outcome = "ok"
  <2>1. /\ d.ctx = [[background EXCEPT !.size = Dma(k)] EXCEPT !.dma = Dma(k), !.handle = Dma(k), !.rgabuf = Dma(k)]
        /\ d.table = [table EXCEPT !.dmas = @ \cup {Dma(k)}, !.handles = @ \cup {Dma(k)}]
        /\ d.ok = TRUE
    BY <1>2 DEF Ctx!WrapDmabuf, Ctx!Result
  <2>2. r.ctx = d.ctx /\ r.table = d.table /\ r.memory = NoBuffer
    BY <2>1 DEF SetFunctions, k
  <2> HIDE DEF d, m
  <2>3. /\ d.ctx \in ContextsOf(B, D) /\ d.ctx.handle = Dma(k) /\ d.ctx.rgabuf = Dma(k)
        /\ d.ctx.dma = Dma(k) /\ d.ctx.size = Dma(k) /\ d.ctx.buffer = background.buffer
    <3>1. d.ctx = [handle |-> Dma(k), buffer |-> background.buffer, dma |-> Dma(k), size |-> Dma(k),
                   rgabuf |-> Dma(k)]
      BY <1>1, <2>1 DEF ContextsOf
    <3>2. background.buffer \in B \cup {NoBuffer} /\ Dma(k) \in B /\ Dma(k) \in D
      BY <1>1 DEF ContextsOf
    <3> QED
      BY <3>1, <3>2 DEF ContextsOf
  <2>4. /\ d.table \in Ctx!Tables /\ d.table.handles = table.handles \cup {Dma(k)}
        /\ d.table.dmas = table.dmas \cup {Dma(k)} /\ d.table.maps = table.maps
        /\ d.table.strays = table.strays
    <3>1. /\ d.table.handles = table.handles \cup {Dma(k)} /\ d.table.dmas = table.dmas \cup {Dma(k)}
          /\ d.table.maps = table.maps /\ d.table.strays = table.strays
      BY <1>1, <2>1 DEF Ctx!Tables
    <3>2. d.table = [handles |-> table.handles \cup {Dma(k)}, maps |-> table.maps,
                     dmas |-> table.dmas \cup {Dma(k)}, strays |-> table.strays]
      BY <1>1, <2>1 DEF Ctx!Tables
    <3>3. /\ table.handles \cup {Dma(k)} \in SUBSET Buffers /\ table.dmas \cup {Dma(k)} \in SUBSET Buffers
          /\ table.maps \in SUBSET Buffers /\ table.strays \in Nat
      BY <1>1 DEF Ctx!Tables, Buffers
    <3>4. d.table \in Ctx!Tables
      BY <3>2, <3>3 DEF Ctx!Tables, Buffers
    <3> QED
      BY <3>1, <3>4
  <2>5. Ctx!Holds(d.ctx, d.table)
    BY <1>1, <2>3, <2>4 DEF Ctx!Holds
  <2> QED
    BY <1>1, <2>2, <2>3, <2>4, <2>5 DEF k
<1>3. CASE outcome # "ok"
  <2>1. /\ d.ctx \in ContextsOf(B, D) /\ d.ok = FALSE /\ d.table \in Ctx!Tables
        /\ d.ctx.buffer = background.buffer /\ Ctx!Holds(d.ctx, d.table)
        /\ d.table.handles = table.handles /\ d.table.maps = table.maps
    <3>1. CASE outcome = "import fails"
      <4>1. /\ d.ctx = [[background EXCEPT !.size = Dma(k)] EXCEPT !.dma = Dma(k), !.handle = NoBuffer]
            /\ d.table = [table EXCEPT !.dmas = @ \cup {Dma(k)}] /\ d.ok = FALSE
        BY <3>1 DEF Ctx!WrapDmabuf, Ctx!Result
      <4> HIDE DEF d, m
      <4>2. /\ d.ctx \in ContextsOf(B, D) /\ d.ctx.handle = NoBuffer /\ d.ctx.dma = Dma(k)
            /\ d.ctx.buffer = background.buffer
        BY <1>1, <4>1 DEF ContextsOf
      <4>3. /\ d.table \in Ctx!Tables /\ d.table.handles = table.handles
            /\ d.table.dmas = table.dmas \cup {Dma(k)} /\ d.table.maps = table.maps
        BY <1>1, <4>1 DEF Ctx!Tables, Buffers
      <4>4. Ctx!Holds(d.ctx, d.table)
        BY <1>1, <4>2, <4>3 DEF Ctx!Holds
      <4> QED
        BY <4>1, <4>2, <4>3, <4>4
    <3>2. CASE outcome # "import fails"
      <4>1. /\ d.ctx = [background EXCEPT !.size = Dma(k)] /\ d.ok = FALSE
            /\ d.table = [table EXCEPT !.strays = @ + Ctx!Strays(outcome)]
        BY <1>3, <3>2 DEF Ctx!WrapDmabuf, Ctx!Result
      <4>2. Ctx!Strays(outcome) \in Nat
        BY DEF Ctx!Strays
      <4> HIDE DEF d, m
      <4>3. /\ d.ctx \in ContextsOf(B, D) /\ d.ctx.handle = background.handle
            /\ d.ctx.dma = background.dma /\ d.ctx.buffer = background.buffer
        BY <1>1, <4>1 DEF ContextsOf
      <4>4. /\ d.table \in Ctx!Tables /\ d.table.handles = table.handles
            /\ d.table.dmas = table.dmas /\ d.table.maps = table.maps
        BY <1>1, <4>1, <4>2 DEF Ctx!Tables
      <4>5. Ctx!Holds(d.ctx, d.table)
        BY <1>1, <4>3, <4>4 DEF Ctx!Holds
      <4> QED
        BY <4>1, <4>3, <4>4, <4>5
    <3> QED
      BY <3>1, <3>2
  <2>2. r.ctx = m.ctx /\ r.table = m.table /\ r.memory = Memory(k)
    BY <2>1 DEF SetFunctions, k
  <2> DEFINE c == d.ctx
             t == d.table
  <2>3. m = Ctx!WrapBuffer(c, t, Memory(k), FALSE, imports)
    OBVIOUS
  <2> HIDE DEF d, m, c, t
  <2>4. c \in ContextsOf(B, D) /\ t \in Ctx!Tables /\ Ctx!Holds(c, t)
    BY <2>1 DEF c, t
  <2>5. /\ m.ctx \in ContextsOf(B, D) /\ m.table \in Ctx!Tables
        /\ t.handles \subseteq m.table.handles /\ t.maps \subseteq m.table.maps
        /\ m.table.handles \subseteq t.handles \cup {Memory(k)}
        /\ m.table.maps \subseteq t.maps \cup {Memory(k)}
        /\ c.handle = NoBuffer => m.ctx.buffer \in {Memory(k), c.buffer}
        /\ c.handle # NoBuffer => m.ctx = c
        /\ Ctx!Holds(m.ctx, m.table)
    <3> DEFINE b == Memory(k)
               dmabuf == FALSE
    <3>1. b \in B \cap Buffers /\ dmabuf \in BOOLEAN
      BY <1>1
    <3>2. m = Ctx!WrapBuffer(c, t, b, dmabuf, imports)
      BY <2>3
    <3> HIDE DEF B, D, b, dmabuf
    <3>3. /\ m.ctx \in ContextsOf(B, D) /\ m.table \in Ctx!Tables
          /\ t.handles \subseteq m.table.handles /\ t.maps \subseteq m.table.maps
          /\ m.table.handles \subseteq t.handles \cup {b}
          /\ m.table.maps \subseteq t.maps \cup {b}
          /\ c.handle = NoBuffer => m.ctx.buffer \in {b, c.buffer}
          /\ c.handle # NoBuffer => m.ctx = c
          /\ Ctx!Holds(m.ctx, m.table)
      BY <2>4, <3>1, <3>2, WrapBufferResult
    <3> QED
      BY <3>3 DEF b
  <2>6. m.ctx.buffer \in {Memory(k), c.buffer} /\ c.buffer = background.buffer
    BY <2>1, <2>5 DEF c
  <2>7. t.handles = table.handles /\ t.maps = table.maps
    BY <2>1 DEF t
  <2> QED
    BY <1>1, <1>3, <2>2, <2>5, <2>6, <2>7 DEF k
<1> QED
  BY <1>2, <1>3

LEMMA NegotiateKeeps ==
  ASSUME IInv, Negotiate
  PROVE  IInv'
<1>1. PICK outcome \in Ctx!DmaOutcomes, imports \in BOOLEAN :
        LET r == SetFunctions(negotiations + 1, outcome, imports)
        IN  /\ outcome = "ok" => imports
            /\ IF outcome = "ok" /\ imports THEN Works ELSE Fails("dma")
            /\ background' = r.ctx /\ table' = r.table /\ bgMemory' = r.memory
  BY DEF Negotiate
<1>2. /\ pc \in {"idle", "stopped"} /\ pc' = "idle" /\ pc \notin Composing /\ pc' \notin Composing /\ pc # "crashed" /\ pc' # "crashed"
      /\ negotiations < MaxNegotiations /\ negotiations' = negotiations + 1
      /\ bgRow' = [x \in Pixels |-> Junk]
      /\ UNCHANGED << i, slot, frame, fed, prepared, nPads, padInfo, slots, fences, dst, pending, outRow,
                      scene, changes >>
  BY DEF Negotiate, envVars, Composing
<1>3. negotiations \in Nat /\ negotiations' \in 1 .. MaxNegotiations
  <2>1. negotiations \in 0 .. MaxNegotiations
    BY DEF IInv, Types, TypeOK
  <2> QED
    BY <1>2, <2>1, SizesAssumption
<1> DEFINE r == SetFunctions(negotiations + 1, outcome, imports)
<1>4. background' = r.ctx /\ table' = r.table /\ bgMemory' = r.memory
  BY <1>1
<1> HIDE DEF r
<1>5. /\ background' \in ContextsOf(Backgrounds, Backgrounds \cup {NoBuffer})
      /\ table' \in Ctx!Tables /\ bgMemory' \in Backgrounds \cup {NoBuffer}
      /\ Ctx!Holds(background', table')
      /\ table.handles \subseteq table'.handles /\ table.maps \subseteq table'.maps
      /\ table'.handles \subseteq table.handles \cup Backgrounds
      /\ table'.maps \subseteq table.maps \cup Backgrounds
      /\ background'.buffer = background.buffer \/ background'.buffer = bgMemory'
      /\ outcome = "ok" =>
           /\ background'.handle = Dma(negotiations') /\ background'.rgabuf = Dma(negotiations')
           /\ background'.dma = Dma(negotiations') /\ background'.size = Dma(negotiations')
           /\ background'.buffer = background.buffer
           /\ table'.handles = table.handles \cup {Dma(negotiations')}
           /\ table'.dmas = table.dmas \cup {Dma(negotiations')}
           /\ table'.maps = table.maps /\ table'.strays = table.strays
  <2>1. r = SetFunctions(negotiations + 1, outcome, imports)
    BY DEF r
  <2>2. /\ r.ctx \in ContextsOf(Backgrounds, Backgrounds \cup {NoBuffer})
        /\ r.table \in Ctx!Tables /\ r.memory \in Backgrounds \cup {NoBuffer}
        /\ Ctx!Holds(r.ctx, r.table)
        /\ table.handles \subseteq r.table.handles /\ table.maps \subseteq r.table.maps
        /\ r.table.handles \subseteq table.handles \cup Backgrounds
        /\ r.table.maps \subseteq table.maps \cup Backgrounds
        /\ r.ctx.buffer \in {background.buffer, Memory(negotiations + 1)}
        /\ r.ctx.buffer = background.buffer \/ r.memory = Memory(negotiations + 1)
        /\ outcome = "ok" =>
             /\ r.ctx.handle = Dma(negotiations + 1) /\ r.ctx.rgabuf = Dma(negotiations + 1)
             /\ r.ctx.dma = Dma(negotiations + 1) /\ r.ctx.size = Dma(negotiations + 1)
             /\ r.ctx.buffer = background.buffer /\ r.memory = NoBuffer
             /\ r.table.handles = table.handles \cup {Dma(negotiations + 1)}
             /\ r.table.dmas = table.dmas \cup {Dma(negotiations + 1)}
             /\ r.table.maps = table.maps /\ r.table.strays = table.strays
    <3>1. pc \in {"idle", "stopped"} /\ negotiations < MaxNegotiations
      BY <1>2
    <3> QED
      BY ZenonT(60), <2>1, <3>1, SetFunctionsResult
  <2> QED
    BY <1>2, <1>4, <2>2
<1>6. /\ faults \subseteq faults' /\ faults' \subseteq Faults
      /\ spoiled' \subseteq Faults \cup {"changed", "overtaken"} /\ spoiled' \cap Faults \subseteq faults'
      /\ \A f \in {"wrap", "sync"} : f \in faults' => f \in faults
      /\ "dma" \notin faults' => outcome = "ok"
  BY <1>1 DEF Works, Fails, IInv, Types, TypeOK, Faults
<1>7. /\ Clean(dst) /\ dst \in ContextsOf(OutBuffers, {NoBuffer})
      /\ \A s \in DOMAIN slots : Clean(slots[s]) /\ slots[s] \in ContextsOf(FrameBuffers, {NoBuffer})
      /\ table.handles \subseteq Backgrounds /\ table.maps \cap OutBuffers = {}
      /\ "wrap" \notin faults => table.maps \cap FrameBuffers = {}
  BY <1>2, NothingWrapped, Queue, ElementOfSeq DEF IInv, Types, Held
<1>8. Types'
  <2>1. background' \in Ctx!Contexts
    BY <1>5 DEF ContextsOf, Ctx!Contexts
  <2>2. bgRow' \in [Pixels -> Pixel] /\ negotiations' \in 0 .. MaxNegotiations
    BY <1>2, <1>3 DEF Pixel, Junk
  <2>3. TypeOK'
    BY <1>2, <1>5, <1>6, <2>1, <2>2 DEF IInv, Types, TypeOK
  <2>4. pc' \notin Composing \cup {"prepare", "wrap output", "submit", "sync"}
    BY <1>2 DEF Composing
  <2> QED
    BY <1>2, <1>5, <1>6, <2>3, <2>4 DEF IInv, Types
<1>9. Held'
  <2>1. (\A s \in DOMAIN slots : Ctx!Holds(slots[s], table')) /\ Ctx!Holds(dst, table')
    BY <1>7 DEF Ctx!Holds, Clean, ContextsOf
  <2>2. /\ table'.handles \subseteq Backgrounds
        /\ table'.maps \cap OutBuffers = {}
        /\ "wrap" \notin faults' => table'.maps \cap FrameBuffers = {}
    BY <1>5, <1>6, <1>7, BuffersDiffer
  <2> QED
    BY <1>2, <1>5, <1>7, <2>1, <2>2 DEF Held
<1>10. Filled' /\ Collecting'
  BY <1>2 DEF Filled, Collecting, Composing
<1>11. Jobs'
  <2>1. DOMAIN << >> = {}
    OBVIOUS
  <2>2. "sync" \notin faults => pending = << >>
    BY <1>2 DEF IInv, Jobs
  <2>3. "sync" \notin faults' => pending' = << >>
    BY <1>2, <1>6, <2>2
  <2> QED
    BY <2>1, <2>3 DEF Jobs
<1>12. Negotiated'
  <2>1. negotiations' >= 1 /\ negotiations' # 0
    BY <1>3
  <2>2. negotiations' = 1 => background'.buffer \in {NoBuffer, bgMemory'}
    <3>1. negotiations' = 1 => negotiations = 0
      BY <1>2, <1>3
    <3> QED
      BY <1>5, <3>1 DEF IInv, Negotiated
  <2>3. "dma" \notin faults' =>
          /\ background'.handle = Dma(negotiations') /\ background'.rgabuf = Dma(negotiations')
          /\ background'.dma = Dma(negotiations') /\ background'.size = Dma(negotiations')
    BY <1>5, <1>6
  <2>4. ASSUME faults' = {}
        PROVE  /\ table'.dmas \cup (table'.handles \cap Backgrounds) \subseteq {Dma(k) : k \in 1 .. negotiations'}
               /\ table'.maps \cap Backgrounds = {} /\ table'.strays = 0
    <3>1. faults = {} /\ outcome = "ok"
      BY <1>6, <2>4
    <3>2. /\ table.dmas \cup (table.handles \cap Backgrounds) \subseteq {Dma(k) : k \in 1 .. negotiations}
          /\ table.maps \cap Backgrounds = {} /\ table.strays = 0
      BY <3>1 DEF IInv, Negotiated
    <3>3. 1 .. negotiations \subseteq 1 .. negotiations' /\ negotiations' \in 1 .. negotiations'
      BY <1>2, <1>3
    <3>4. ASSUME NEW b \in table'.dmas \cup (table'.handles \cap Backgrounds)
          PROVE  \E k \in 1 .. negotiations' : b = Dma(k)
      <4>1. CASE b = Dma(negotiations')
        BY <3>3, <4>1
      <4>2. CASE b # Dma(negotiations')
        <5>1. b \in table.dmas \cup (table.handles \cap Backgrounds)
          BY <1>5, <3>1, <4>2
        <5> QED
          BY <3>2, <3>3, <5>1
      <4> QED
        BY <4>1, <4>2
    <3> QED
      BY <1>5, <3>1, <3>2, <3>4
  <2>5. FinalizedReleases'
    BY <1>2 DEF FinalizedReleases
  <2>6. "dma" \notin faults' => background'.buffer = NoBuffer
    BY <1>5, <1>6 DEF IInv, Negotiated
  <2> QED
    BY <2>1, <2>2, <2>3, <2>4, <2>5, <2>6 DEF Negotiated
<1> QED
  BY <1>8, <1>9, <1>10, <1>11, <1>12 DEF IInv

-----------------------------------------------------------------------------
LEMMA StepKeeps ==
  ASSUME IInv, [Next]_vars
  PROVE  IInv'
<1>1. CASE UNCHANGED vars
  <2>1. Types'
    <3>1. TypeOK'
      BY <1>1 DEF IInv, Types, TypeOK, vars, threadVars, rgaVars, rowVars, envVars
    <3> QED
      BY <1>1, <3>1 DEF IInv, Types, vars, threadVars, rgaVars, rowVars, envVars
  <2>4. Held'
    BY <1>1 DEF IInv, Held, Distinct, vars, threadVars, rgaVars, rowVars, envVars
  <2>2. Filled' /\ Collecting'
    BY <1>1 DEF IInv, Filled, Slot, Collecting, Before, vars, threadVars, rgaVars, rowVars, envVars
  <2>3. Jobs' /\ Negotiated'
    BY <1>1 DEF IInv, Jobs, Negotiated, FinalizedReleases, vars, threadVars, rgaVars, rowVars, envVars
  <2> QED
    BY <2>1, <2>2, <2>3, <2>4 DEF IInv
<1>2. CASE Negotiate
  BY <1>2, NegotiateKeeps
<1>3. CASE Stop \/ Finish
  BY <1>3, FinishOrStopKeeps
<1>4. CASE Finalize \/ FinalizeDangling
  <2>1. CASE pc' = "finalized"
    BY <1>4, <2>1, FinalizeKeeps
  <2>2. CASE pc' # "finalized"
    <3>1. /\ pc = "stopped" /\ pc' = "crashed"
          /\ UNCHANGED << i, slot, frame, negotiations, fed, prepared, nPads, padInfo, slots, fences, dst,
                          background, bgMemory, table, pending, bgRow, outRow, scene, changes, faults, spoiled >>
      BY <1>4, <2>2 DEF Finalize, FinalizeDangling, FinalizeUnchanged, rowVars, envVars
    <3> QED
      BY <3>1, CrashKeeps
  <2> QED
    BY <2>1, <2>2
<1>5. CASE \E images \in SUBSET Pads : StartFrame(images)
  BY <1>5, StartFrameKeeps
<1>6. CASE PrepareFrameStart
  BY <1>6, PrepareFrameStartKeeps
<1>7. CASE WrapOutput
  BY <1>7, WrapOutputKeeps
<1>8. CASE CollectFrame
  BY <1>8, CollectFrameKeeps
<1>9. CASE SkipUnprepared
  BY <1>9, SkipUnpreparedKeeps
<1>10. CASE Submit \/ SubmitUnset
  <2>1. CASE pc' # "crashed"
    BY <1>10, <2>1, SubmitKeeps
  <2>2. CASE pc' = "crashed"
    <3>1. /\ pc = "submit"
          /\ UNCHANGED << i, slot, frame, negotiations, fed, prepared, nPads, padInfo, slots, fences, dst,
                          background, bgMemory, table, pending, bgRow, outRow, scene, changes, faults, spoiled >>
      BY <1>10, <2>2 DEF Submit, SubmitUnset, envVars
    <3> QED
      BY <2>2, <3>1, CrashKeeps DEF Composing
  <2> QED
    BY <2>1, <2>2
<1>11. CASE SubmitDone \/ SyncDone \/ BgFill \/ BgCopy
  BY <1>11, MoveOnKeeps
<1>12. CASE SyncProcess
  BY <1>12, SyncProcessKeeps
<1>13. CASE Unwrap
  BY <1>13, UnwrapKeeps
<1>14. CASE Rga
  BY <1>14, RunJobKeeps DEF Rga
<1>15. CASE \E p \in Pads, s \in Scenes : SetProperty(p, s)
  BY <1>15, SetPropertyKeeps
<1> QED
  BY <1>1, <1>2, <1>3, <1>4, <1>5, <1>6, <1>7, <1>8, <1>9, <1>10, <1>11, <1>12, <1>13, <1>14, <1>15
  DEF Next, Thread

\* The invariant holds throughout
THEOREM Invariance == Spec => []IInv
<1> QED
  BY Initially, StepKeeps, PTL DEF Spec

\* Every variable keeps its type, for any number of pads, frames and failures
THEOREM TypeCorrect == Spec => []TypeOK
<1>1. IInv => TypeOK
  BY DEF IInv, Types
<1> QED
  BY <1>1, Invariance, PTL

(***************************************************************************)
(* The jobs submitted are those of the frames wrapped, slot by slot,       *)
(* whatever frames could not be wrapped (gst_compositor_aggregate_frames)  *)
(***************************************************************************)
THEOREM SlotsAreRight == Spec => []SlotsHoldTheirFrames
<1>1. IInv => SlotsHoldTheirFrames
  <2> SUFFICES ASSUME IInv, pc \in {"submit", "sync", "copy"}
               PROVE  /\ \A s \in 1 .. nPads :
                           padInfo[s] # None => /\ padInfo[s] \in prepared
                                                /\ slots[s].rgabuf = Frame(padInfo[s], frame)
                                                /\ slots[s].handle = slots[s].rgabuf
                      /\ \A s \in 2 .. nPads : padInfo[s] # None => padInfo[s - 1] # None
                      /\ "wrap" \notin spoiled => \A s \in 1 .. nPads : padInfo[s] # None
    BY DEF SlotsHoldTheirFrames
  <2>1. pc \in Composing /\ pc # "collect"
    BY DEF Composing
  <2>2. \A s \in 1 .. nPads : Slot(s)
    BY <2>1 DEF IInv, Filled
  <2>3. ASSUME NEW s \in 2 .. nPads, padInfo[s] # None
        PROVE  padInfo[s - 1] # None
    <3>1. nPads \in Nat /\ nPads <= NumPads /\ NumPads \in Nat
      BY <2>1, PadsAreCounted, SizesAssumption DEF IInv, Types, TypeOK, Filled
    <3>2. s \in Pads /\ s - 1 \in Pads /\ s - 1 < s
      BY <3>1 DEF Pads
    <3> QED
      BY <2>1, <2>3, <3>2 DEF IInv, Filled
  <2>4. "wrap" \notin spoiled => \A s \in 1 .. nPads : padInfo[s] # None
    BY <2>1 DEF IInv, Collecting
  <2> QED
    BY <2>2, <2>3, <2>4 DEF Slot
<1> QED
  BY <1>1, Invariance, PTL

\* Every job has ended when the background is copied, and none reads a
\* released frame, unless imsync failed (_rga_sync_process)
THEOREM JobsEnd == Spec => []JobsEndBeforeCopy
<1>1. IInv => JobsEndBeforeCopy
  BY DEF IInv, Jobs, JobsEndBeforeCopy
<1> QED
  BY <1>1, Invariance, PTL

\* A composition releases what it wraps, whichever calls failed
THEOREM FramesAreReleased == Spec => []FrameResourcesReleased
<1>1. IInv => FrameResourcesReleased
  <2> SUFFICES ASSUME IInv, pc \in {"delivered", "idle", "stopped", "finalized"}
               PROVE  /\ table.handles \cap (FrameBuffers \cup OutBuffers) = {}
                      /\ table.maps \cap OutBuffers = {}
                      /\ "wrap" \notin faults => table.maps \cap FrameBuffers = {}
    BY DEF FrameResourcesReleased
  <2>1. pc \notin Composing /\ pc # "crashed"
    BY DEF Composing
  <2> QED
    BY <2>1, NothingWrapped, BuffersDiffer
<1> QED
  BY <1>1, Invariance, PTL

\* Nothing is released that is not held, and nothing by two slots
THEOREM NothingReleasedTwice == Spec => []ContextsHold
<1>1. IInv => ContextsHold
  <2> SUFFICES ASSUME IInv
               PROVE  /\ \A c \in {dst, background} \cup {slots[s] : s \in DOMAIN slots} : Ctx!Holds(c, table)
                      /\ \A s, t \in DOMAIN slots :
                           s # t => \/ slots[s].handle = NoBuffer
                                    \/ slots[s].handle # slots[t].handle
    BY DEF ContextsHold
  <2>1. \A c \in {dst, background} \cup {slots[s] : s \in DOMAIN slots} : Ctx!Holds(c, table)
    BY DEF IInv, Held
  <2>2. Distinct
    BY HandlesDiffer
  <2> QED
    BY <2>1, <2>2 DEF Distinct
<1> QED
  BY <1>1, Invariance, PTL

\* The background drawn into is that of the last negotiation (set_functions)
THEOREM BackgroundIsTheLast == Spec => []BackgroundIsCurrent
<1>1. IInv => BackgroundIsCurrent
  <2> SUFFICES ASSUME IInv, pc \notin {"stopped", "finalized", "crashed"}
               PROVE  /\ "dma" \notin faults => /\ background.rgabuf = Dma(negotiations)
                                               /\ background.size = background.dma
                                               /\ HandleLive(background)
                      /\ negotiations = 1 => background.buffer \in {NoBuffer, bgMemory}
    BY DEF BackgroundIsCurrent
  <2>1. ASSUME "dma" \notin faults
        PROVE  /\ background.rgabuf = Dma(negotiations) /\ background.size = background.dma
               /\ HandleLive(background)
    <3>1. /\ background.handle = Dma(negotiations) /\ background.rgabuf = Dma(negotiations)
          /\ background.dma = Dma(negotiations) /\ background.size = Dma(negotiations)
      BY <2>1 DEF IInv, Negotiated
    <3>2. background.handle # NoBuffer
      BY <3>1 DEF Dma, NoBuffer
    <3>3. background.handle \in table.handles
      BY <3>2 DEF IInv, Held, Ctx!Holds
    <3> QED
      BY <3>1, <3>3 DEF HandleLive
  <2>2. negotiations = 1 => background.buffer \in {NoBuffer, bgMemory}
    BY DEF IInv, Negotiated
  <2> QED
    BY <2>1, <2>2
<1> QED
  BY <1>1, Invariance, PTL

\* A step that ends the process comes after a failing call
LEMMA StepCrashes ==
  ASSUME IInv, CrashesOnlyAfterFailure, [Next]_vars
  PROVE  CrashesOnlyAfterFailure'
<1> SUFFICES ASSUME pc' = "crashed"
             PROVE  "wrap" \in spoiled' \/ "dma" \in faults'
  BY DEF CrashesOnlyAfterFailure
<1>1. CASE SubmitUnset
  <2>1. pc = "submit" /\ slot <= nPads /\ padInfo[slot] = None /\ UNCHANGED spoiled
    BY <1>1 DEF SubmitUnset
  <2>2. slot \in 1 .. nPads
    <3>1. slot \in Nat /\ slot >= 1 /\ nPads \in Nat
      BY <2>1, PadsAreCounted DEF IInv, Types, TypeOK, Filled, Composing
    <3> QED
      BY <2>1, <3>1
  <2>3. pc \in Composing /\ pc # "collect"
    BY <2>1 DEF Composing
  <2> QED
    BY <2>1, <2>2, <2>3 DEF IInv, Collecting
<1>2. CASE FinalizeDangling
  <2>1. background.buffer # NoBuffer /\ UNCHANGED faults
    BY <1>2 DEF FinalizeDangling, FinalizeUnchanged, Dangling
  <2> QED
    BY <2>1 DEF IInv, Negotiated
<1>3. CASE Rga \/ \E p \in Pads, s \in Scenes : SetProperty(p, s)
  <2>1. pc' = pc /\ spoiled \subseteq spoiled' /\ faults' = faults
    BY <1>3 DEF Rga, RunJob, SetProperty, threadVars
  <2> QED
    BY <2>1 DEF CrashesOnlyAfterFailure
<1>4. CASE UNCHANGED vars
  BY <1>4 DEF CrashesOnlyAfterFailure, vars, threadVars
<1>5. ASSUME \/ Negotiate \/ Stop \/ Finalize \/ \E images \in SUBSET Pads : StartFrame(images)
             \/ PrepareFrameStart \/ WrapOutput \/ CollectFrame \/ SkipUnprepared
             \/ Submit \/ SubmitDone \/ SyncProcess \/ SyncDone \/ BgFill \/ BgCopy \/ Unwrap \/ Finish
      PROVE  FALSE
  BY <1>5 DEF Negotiate, Stop, Finalize, StartFrame, PrepareFrameStart, WrapOutput, CollectFrame,
     SkipUnprepared, Submit, SubmitDone, SyncProcess, SyncDone, BgFill, BgCopy, Unwrap, Finish
<1> QED
  BY <1>1, <1>2, <1>3, <1>4, <1>5 DEF Next, Thread

\* The unwritten entries of pads_info and the freed background memory end the
\* process only after a wrap or an allocation has failed
THEOREM CrashNeedsFailure == Spec => []CrashesOnlyAfterFailure
<1>1. Init => CrashesOnlyAfterFailure
  BY DEF Init, CrashesOnlyAfterFailure
<1>2. IInv /\ CrashesOnlyAfterFailure /\ [Next]_vars => IInv' /\ CrashesOnlyAfterFailure'
  BY StepKeeps, StepCrashes
<1> QED
  BY <1>1, <1>2, Initially, PTL DEF Spec

\* What gst_compositor_finalize leaves when no call failed
THEOREM FinalizeReleases == Spec => []FinalizedReleases
<1>1. IInv => FinalizedReleases
  BY DEF IInv, Negotiated
<1> QED
  BY <1>1, Invariance, PTL
-----------------------------------------------------------------------------
(***************************************************************************)
(* What is drawn                                                           *)
(***************************************************************************)
Width(p) == IF scene[p].w > 0 THEN scene[p].w ELSE OutWidth

\* A frame one row high takes its width as it is set
LEMMA GcdWithOne ==
  ASSUME NEW w \in Nat, w > 0
  PROVE  Geo!Gcd(w, 1) = 1
<1>1. Geo!Min({w, 1}) = 1
  <2>1. \E x \in {w, 1} : \A y \in {w, 1} : x <= y
    OBVIOUS
  <2>2. \A x \in {w, 1} : (\A y \in {w, 1} : x <= y) => x = 1
    OBVIOUS
  <2> QED
    BY <2>1, <2>2 DEF Geo!Min
<1>2. {d \in 1 .. 1 : w % d = 0 /\ 1 % d = 0} = {1}
  <2>1. w % 1 = 0 /\ 1 % 1 = 0
    OBVIOUS
  <2>2. \A d \in 1 .. 1 : d = 1
    OBVIOUS
  <2>3. 1 \in 1 .. 1
    OBVIOUS
  <2> QED
    BY <2>1, <2>2, <2>3, Zenon
<1>3. Geo!Max({1}) = 1
  <2>1. \E x \in {1} : \A y \in {1} : x >= y
    OBVIOUS
  <2> QED
    BY <2>1 DEF Geo!Max
<1> QED
  BY <1>1, <1>2, <1>3 DEF Geo!Gcd

LEMMA DivFacts ==
  ASSUME NEW w \in Nat, w > 0
  PROVE  w \div 1 = w /\ 1 \div 1 = 1 /\ w % 1 = 0 /\ w \div w = 1
<1>1. w \div 1 = w /\ 1 \div 1 = 1 /\ w % 1 = 0
  OBVIOUS
<1>2. w \div w = 1
  OBVIOUS
<1> QED
  BY <1>1, <1>2

LEMMA RowSize ==
  ASSUME NEW w \in Nat, w > 0
  PROVE  Geo!DisplaySize(w, 1, << 1, 1 >>, << 1, 1 >>) = [w |-> w, h |-> 1, xo |-> 0, yo |-> 0]
<1>1. Geo!Reduced(w * 1 * 1, 1 * 1 * 1) = << w, 1 >>
  <2>1. w * 1 * 1 = w /\ 1 * 1 * 1 = 1
    OBVIOUS
  <2>2. Geo!Gcd(w, 1) = 1
    BY GcdWithOne
  <2>3. Geo!Reduced(w, 1) = << w, 1 >>
    BY <2>2, DivFacts DEF Geo!Reduced
  <2> QED
    BY <2>1, <2>3
<1>2. Geo!Scaled(w, 1, w) = 1 /\ Geo!Scaled(1, w, 1) = w
  <2>1. w * 1 = w /\ 1 * w = w
    OBVIOUS
  <2> QED
    BY <2>1, DivFacts DEF Geo!Scaled
<1>3. << 1, 1 >>[1] = 1 /\ << 1, 1 >>[2] = 1 /\ << w, 1 >>[1] = w /\ << w, 1 >>[2] = 1
  OBVIOUS
<1> DEFINE dar == Geo!Reduced(w * << 1, 1 >>[1] * << 1, 1 >>[2], 1 * << 1, 1 >>[2] * << 1, 1 >>[1])
<1>4. dar = << w, 1 >>
  BY <1>1, <1>3
<1>5. Geo!DisplaySize(w, 1, << 1, 1 >>, << 1, 1 >>)
        = IF 1 % dar[1] # 0 /\ w % dar[2] = 0
            THEN Geo!Unpadded(w, Geo!Scaled(w, dar[2], dar[1]))
            ELSE Geo!Unpadded(Geo!Scaled(1, dar[1], dar[2]), 1)
  BY DEF Geo!DisplaySize
<1> HIDE DEF dar
<1>6. dar[1] = w /\ dar[2] = 1
  BY <1>3, <1>4
<1>7. Geo!Unpadded(w, 1) = [w |-> w, h |-> 1, xo |-> 0, yo |-> 0]
  BY DEF Geo!Unpadded
<1>8. Geo!Unpadded(w, Geo!Scaled(w, dar[2], dar[1])) = Geo!Unpadded(w, 1)
  BY <1>2, <1>6
<1>9. Geo!Unpadded(Geo!Scaled(1, dar[1], dar[2]), 1) = Geo!Unpadded(w, 1)
  BY <1>2, <1>6
<1> QED
  BY <1>5, <1>7, <1>8, <1>9

\* so the rectangle the RGA is told to draw is the one the pad takes
LEMMA DrawnWherePlaced ==
  ASSUME TypeOK, NEW p \in Pads
  PROVE  /\ scene[p].x \in Int /\ scene[p].w \in Int /\ scene[p].alpha \in 0 .. 100
         /\ Width(p) \in Nat /\ Width(p) > 0
         /\ DrawnRect(p) = [x |-> scene[p].x, y |-> 0, w |-> Width(p), h |-> 1]
         /\ Placed(p) = DrawnRect(p)
         /\ Clamped(p) = Geo!ClampRectangle(DrawnRect(p), OutWidth, 1)
<1>1. scene[p].x \in Int /\ scene[p].w \in Int /\ scene[p].alpha \in 0 .. 100
  <2>1. scene \in [Pads -> Scenes]
    BY DEF TypeOK
  <2>2. scene[p] \in [x : Int, w : Int, alpha : 0 .. 100]
    BY <2>1, ScenesAssumption
  <2> QED
    BY <2>2
<1>2. Width(p) \in Nat /\ Width(p) > 0
  BY <1>1, SizesAssumption DEF Width
<1>3. /\ Pad(p).xpos = scene[p].x /\ Pad(p).ypos = 0 /\ Pad(p).width = scene[p].w /\ Pad(p).height = 1
      /\ Pad(p).policy = "none" /\ Pad(p).info = Info
      /\ Info.w = OutWidth /\ Info.h = 1 /\ Info.par = << 1, 1 >>
  BY DEF Pad, Info
<1>4. Geo!ConfiguredWidth(Pad(p), TRUE) = Width(p)
  BY <1>1, <1>3 DEF Geo!ConfiguredWidth, Geo!Unset, Width
<1>5. Geo!ConfiguredHeight(Pad(p), TRUE) = 1
  BY <1>3 DEF Geo!ConfiguredHeight, Geo!Unset
<1>6. Geo!OutputSize(Pad(p), << 1, 1 >>, TRUE) = Geo!DisplaySize(Width(p), 1, << 1, 1 >>, << 1, 1 >>)
  <2> DEFINE w == Geo!ConfiguredWidth(Pad(p), TRUE)
             h == Geo!ConfiguredHeight(Pad(p), TRUE)
             scaled == Geo!DisplaySize(w, h, Pad(p).info.par, << 1, 1 >>)
             kept == Geo!AspectSize(w, h, Pad(p).info, << 1, 1 >>)
  <2>1. Geo!OutputSize(Pad(p), << 1, 1 >>, TRUE)
          = IF Pad(p).info = None THEN Geo!NoSize
            ELSE IF w = 0 \/ h = 0 THEN Geo!NoSize
                 ELSE IF Pad(p).policy = "none" THEN scaled ELSE kept
    BY DEF Geo!OutputSize
  <2>2. Pad(p).info # None
    BY <1>3, ScenesAssumption
  <2>3. w = Width(p) /\ h = 1 /\ w # 0 /\ h # 0
    <3>1. w = Width(p) /\ h = 1
      BY <1>4, <1>5, Zenon
    <3>2. Width(p) # 0 /\ 1 # 0
      BY <1>2
    <3> HIDE DEF w, h
    <3> QED
      BY <3>1, <3>2
  <2>4. scaled = Geo!DisplaySize(Width(p), 1, << 1, 1 >>, << 1, 1 >>)
    BY <1>3, <2>3
  <2> HIDE DEF w, h, scaled, kept
  <2> QED
    BY <1>3, <2>1, <2>2, <2>3, <2>4
<1> DEFINE size == Geo!OutputSize(Pad(p), << 1, 1 >>, TRUE)
<1>7. size = [w |-> Width(p), h |-> 1, xo |-> 0, yo |-> 0]
  BY <1>2, <1>6, RowSize
<1> HIDE DEF size
<1>8. size.w = Width(p) /\ size.h = 1 /\ size.xo = 0 /\ size.yo = 0
  BY <1>7
<1>9. DrawnRect(p) = [x |-> scene[p].x, y |-> 0, w |-> Width(p), h |-> 1]
  <2>1. DrawnRect(p) = Geo!Rect(Pad(p).xpos, Pad(p).ypos,
                         IF Pad(p).width > 0 THEN Pad(p).width ELSE size.w,
                         IF Pad(p).height > 0 THEN Pad(p).height ELSE size.h)
    BY DEF DrawnRect, Geo!BlitRect, Geo!ConversionSize, size
  <2>2. DrawnRect(p) = Geo!Rect(scene[p].x, 0, Width(p), 1)
    BY <1>3, <1>8, <2>1 DEF Width
  <2> QED
    BY <2>2 DEF Geo!Rect
<1>10. Placed(p) = [x |-> scene[p].x, y |-> 0, w |-> Width(p), h |-> 1]
  <2>1. Placed(p) = Geo!Rect(Pad(p).xpos + size.xo, Pad(p).ypos + size.yo, size.w, size.h)
    BY DEF Placed, Geo!PlacedRect, size
  <2>2. scene[p].x + 0 = scene[p].x /\ 0 + 0 = 0
    BY <1>1
  <2>3. Placed(p) = Geo!Rect(scene[p].x, 0, Width(p), 1)
    BY <1>3, <1>8, <2>1, <2>2
  <2> QED
    BY <2>3 DEF Geo!Rect
<1>11. Clamped(p) = Geo!ClampRectangle(DrawnRect(p), OutWidth, 1)
  BY <1>9, <1>10 DEF Clamped
<1> QED
  BY <1>1, <1>2, <1>9, <1>10, <1>11

\* The RGA accepts the rectangle of the pad
Fits(p) == Geo!BlitAccepted(DrawnRect(p), OutWidth, 1)

LEMMA SceneStays ==
  ASSUME UNCHANGED << scene, fed >>
  PROVE  /\ \A p : DrawnRect(p)' = DrawnRect(p)
         /\ \A p : IsShown(p)' <=> IsShown(p)
         /\ \A p : Fits(p)' <=> Fits(p)
         /\ \A x : Shows(x)' = Shows(x)
<1>1. \A p : Pad(p)' = Pad(p)
  BY DEF Pad
<1>2. ASSUME NEW p
      PROVE  /\ DrawnRect(p)' = DrawnRect(p) /\ Placed(p)' = Placed(p)
             /\ Clamped(p)' = Clamped(p)
  BY <1>1 DEF DrawnRect, Placed, Clamped
<1>3. ASSUME NEW p PROVE IsShown(p)' <=> IsShown(p)
  BY <1>1, <1>2 DEF IsShown, IsObscured
<1>4. ASSUME NEW p PROVE Fits(p)' <=> Fits(p)
  BY <1>2 DEF Fits, Geo!BlitAccepted
<1>5. ASSUME NEW x PROVE Shows(x)' = Shows(x)
  BY <1>2 DEF Shows
<1> QED
  BY <1>2, <1>3, <1>4, <1>5

-----------------------------------------------------------------------------
(***************************************************************************)
(* The picture while it is composed                                        *)
(***************************************************************************)
Drawing == {"wrap output", "collect", "submit", "sync", "fill", "copy"}

Current == {j \in DOMAIN pending : pending[j].id[1] = frame}

\* Jobs an earlier frame left behind, after imsync failed, are older; the
\* background is filled when there is nothing to submit
Ages ==
  /\ \A j \in DOMAIN pending : pending[j].id[1] <= frame
  /\ pc \in {"prepare", "wrap output", "collect", "fill"} => Current = {}
  /\ pc = "fill" => nPads = 0

\* The frames prepared are those of the pads that are seen
Chosen ==
  spoiled = {} =>
    /\ pc = "prepare" => i \in 1 .. NumPads + 1 /\ prepared = {p \in Pads : p < i /\ IsShown(p)}
    /\ pc \in Drawing => prepared = {p \in Pads : IsShown(p)}

OutputWrapped ==
  pc \in Drawing \ {"wrap output"} /\ "import output" \notin spoiled =>
    dst.handle # NoBuffer /\ dst.rgabuf = dst.handle

\* The slots whose turn to submit has passed, and the last of them at a pixel,
\* if its job was accepted
Sent            == {s \in 1 .. nPads : pc = "submit" => s < slot}
Covers(s, x)    == x \in Columns(DrawnRect(padInfo[s]))
Uppermost(s, x) ==
  Fits(padInfo[s]) /\ Covers(s, x) /\ \A t \in Sent : t > s => ~Covers(t, x)

\* The jobs of this frame are the youngest, in the order of their slots
Queued ==
  pc \in {"submit", "sync", "copy"} /\ Undisturbed =>
    /\ \A j \in Current :
         LET s == pending[j].id[2]
         IN  /\ s \in Sent
             /\ pending[j].src = Frame(padInfo[s], frame)
             /\ pending[j].px = Columns(DrawnRect(padInfo[s]))
             /\ fences[s] = pending[j].id
             /\ pc = "sync" => s >= slot
             /\ pc # "copy"
    /\ \A j \in Current, k \in DOMAIN pending :
         j < k => k \in Current /\ pending[j].id[2] < pending[k].id[2]

\* A pixel waits for the job of its uppermost slot or shows its frame already,
\* and then no job that is left would draw over it
Painted ==
  pc \in {"submit", "sync", "copy"} /\ Undisturbed =>
    \A x \in Pixels, s \in Sent : Uppermost(s, x) =>
      \/ \E j \in DOMAIN pending : pending[j].id = << frame, s >>
      \/ bgRow[x] = Frame(padInfo[s], frame) /\ \A j \in DOMAIN pending : x \notin pending[j].px

Copied ==
  pc \in {"unwrap", "delivered"} /\ Undisturbed =>
    \A x \in Pixels : \A p \in Shows(x) :
      /\ \A q \in Shows(x) : q <= p
      /\ scene[p].alpha = 100 /\ Fits(p)
      => outRow[x] = Frame(p, frame)

TopInv == Ages /\ Chosen /\ OutputWrapped /\ Queued /\ Painted /\ Copied

\* A rectangle the RGA accepts is not clamped
LEMMA FitsIsClamped ==
  ASSUME TypeOK, NEW p \in Pads, Geo!BlitAccepted(DrawnRect(p), OutWidth, 1)
  PROVE  Clamped(p) = DrawnRect(p)
<1> DEFINE r == DrawnRect(p)
           x == scene[p].x
           w == Width(p)
<1>1. /\ x \in Int /\ w \in Nat /\ w > 0 /\ r = [x |-> x, y |-> 0, w |-> w, h |-> 1]
      /\ Clamped(p) = Geo!ClampRectangle(r, OutWidth, 1) /\ OutWidth \in Nat
  BY DrawnWherePlaced, SizesAssumption
<1>2. Geo!BlitAccepted(r, OutWidth, 1)
  OBVIOUS
<1> HIDE DEF r, x, w
<1>3. r.x = x /\ r.y = 0 /\ r.w = w /\ r.h = 1
  BY <1>1
<1>4. x >= 0 /\ x + w <= OutWidth /\ x <= OutWidth
  <2>1. x >= 0 /\ x + w <= OutWidth
    BY <1>2, <1>3 DEF Geo!BlitAccepted
  <2> QED
    BY <1>1, <2>1
<1>5. Geo!Clamp(x, 0, OutWidth) = x
  BY <1>1, <1>4 DEF Geo!Clamp
<1>6. Geo!Clamp(x + w, 0, OutWidth) = x + w
  BY <1>1, <1>4 DEF Geo!Clamp
<1>7. Geo!Clamp(0, 0, 1) = 0 /\ Geo!Clamp(0 + 1, 0, 1) = 1
  BY DEF Geo!Clamp
<1>8. Geo!ClampRectangle(r, OutWidth, 1) = Geo!Rect(x, 0, (x + w) - x, 1 - 0)
  BY <1>3, <1>5, <1>6, <1>7 DEF Geo!ClampRectangle
<1>9. (x + w) - x = w /\ 1 - 0 = 1
  BY <1>1
<1>10. Geo!ClampRectangle(r, OutWidth, 1) = r
  BY <1>1, <1>8, <1>9 DEF Geo!Rect
<1> QED
  BY <1>1, <1>10 DEF r

\* What a pad covers is drawn, and what is drawn is what a pad covers
LEMMA DrawnIsCovered ==
  ASSUME TypeOK, NEW p \in Pads, NEW x \in Pixels, IsShown(p), x \in Columns(DrawnRect(p))
  PROVE  p \in Shows(x)
BY DEF IsShown, Shows

\* A frame is left out only where a higher one is seen
LEMMA TopmostIsShown ==
  ASSUME TypeOK, NEW x \in Pixels, NEW p \in Shows(x), Fits(p), \A q \in Shows(x) : q <= p
  PROVE  p \in Pads /\ IsShown(p)
<1>1. p \in fed /\ fed \subseteq Pads /\ p \in Pads /\ scene[p].alpha # 0 /\ x \in Columns(DrawnRect(p))
  BY DEF Shows, TypeOK
<1>2. Clamped(p) = DrawnRect(p)
  BY <1>1, FitsIsClamped DEF Fits
<1>3. Clamped(p).w # 0 /\ Clamped(p).h # 0
  BY <1>1, <1>2, DrawnWherePlaced
<1>4. ASSUME NEW q \in Pads, q > p,
             Geo!PadObscuresRectangle(Pad(q), q \in fed, Clamped(p), << 1, 1 >>, TRUE)
      PROVE  FALSE
  <2>1. q \in fed /\ scene[q].alpha = 100
    BY <1>4 DEF Geo!PadObscuresRectangle, Pad
  <2>2. Geo!IsRectangleContained(Clamped(p), Placed(q))
    BY <1>4 DEF Geo!PadObscuresRectangle, Placed
  <2>3. Geo!IsRectangleContained(DrawnRect(p), DrawnRect(q))
    BY <1>2, <2>2, DrawnWherePlaced
  <2>4. x \in Columns(DrawnRect(q))
    <3>1. /\ DrawnRect(p).x \in Int /\ DrawnRect(p).w \in Int
          /\ DrawnRect(q).x \in Int /\ DrawnRect(q).w \in Int
      <4>1. /\ DrawnRect(p) = [x |-> scene[p].x, y |-> 0, w |-> Width(p), h |-> 1]
            /\ DrawnRect(q) = [x |-> scene[q].x, y |-> 0, w |-> Width(q), h |-> 1]
            /\ scene[p].x \in Int /\ Width(p) \in Int /\ scene[q].x \in Int /\ Width(q) \in Int
        BY <1>1, DrawnWherePlaced
      <4> QED
        BY <4>1
    <3>2. x \in Int /\ x >= DrawnRect(p).x /\ x < DrawnRect(p).x + DrawnRect(p).w
      BY <1>1 DEF Columns, Pixels
    <3>3. /\ DrawnRect(q).x <= DrawnRect(p).x
          /\ DrawnRect(q).x + DrawnRect(q).w >= DrawnRect(p).x + DrawnRect(p).w
      BY <2>3 DEF Geo!IsRectangleContained
    <3> QED
      BY <3>1, <3>2, <3>3 DEF Columns
  <2>5. q \in Shows(x)
    BY <2>1, <2>4 DEF Shows
  <2> QED
    BY <1>1, <1>4, <2>5 DEF Pads
<1> QED
  BY <1>1, <1>3, <1>4 DEF IsShown, IsObscured

\* While nothing failed, every slot is filled, in the order of the pads, and
\* every frame prepared has one
LEMMA SlotsInOrder ==
  ASSUME IInv, pc \in {"submit", "sync", "copy"}, "wrap" \notin spoiled
  PROVE  /\ nPads \in Nat /\ nPads <= Len(slots) /\ 1 .. nPads \subseteq Pads
         /\ nPads = Cardinality(prepared)
         /\ \A s \in 1 .. nPads : /\ padInfo[s] # None /\ padInfo[s] \in prepared
                                  /\ padInfo[s] \in Pads
                                  /\ slots[s].handle = Frame(padInfo[s], frame)
                                  /\ slots[s].rgabuf = Frame(padInfo[s], frame)
         /\ \A s, t \in 1 .. nPads : s < t => padInfo[s] < padInfo[t]
         /\ \A p \in prepared : \E s \in 1 .. nPads : padInfo[s] = p
<1>1. pc \in Composing /\ pc # "collect"
  BY DEF Composing
<1>2. prepared \subseteq Pads /\ IsFiniteSet(prepared)
  BY PadsAreCounted DEF IInv, Types, TypeOK
<1>3. nPads = Cardinality(prepared) /\ nPads <= Len(slots) /\ nPads \in Nat /\ 1 .. nPads \subseteq Pads
  <2>1. nPads = Cardinality(prepared) /\ nPads <= Len(slots)
    BY <1>1 DEF IInv, Filled
  <2>2. nPads \in Nat /\ nPads <= NumPads
    BY <1>2, <2>1, PadsAreCounted
  <2> QED
    BY <2>1, <2>2, SizesAssumption DEF Pads
<1>4. \A s \in 1 .. nPads : padInfo[s] # None
  BY <1>1 DEF IInv, Collecting
<1>5. \A s \in 1 .. nPads : /\ padInfo[s] \in prepared
                            /\ slots[s].handle = Frame(padInfo[s], frame)
                            /\ slots[s].rgabuf = Frame(padInfo[s], frame)
  BY <1>1, <1>4 DEF IInv, Filled, Slot
<1>6. \A s, t \in 1 .. nPads : s < t => padInfo[s] < padInfo[t]
  BY <1>1, <1>3, <1>4 DEF IInv, Filled
<1>7. \A p \in prepared : \E s \in 1 .. nPads : padInfo[s] = p
  <2> DEFINE f == [s \in 1 .. nPads |-> padInfo[s]]
  <2>1. f \in [1 .. nPads -> prepared]
    BY <1>5
  <2>2. ASSUME NEW s \in 1 .. nPads, NEW t \in 1 .. nPads, padInfo[s] = padInfo[t]
        PROVE  s = t
    <3>1. padInfo[s] \in Int
      <4>1. padInfo[s] \in 1 .. NumPads
        BY <1>2, <1>5 DEF Pads
      <4> QED
        BY <4>1
    <3>2. ~(s < t) /\ ~(t < s)
      BY <1>6, <2>2, <3>1
    <3> QED
      BY <3>2
  <2>3. f \in Injection(1 .. nPads, prepared)
    BY <2>1, <2>2 DEF Injection, IsInjective
  <2>4. Cardinality(1 .. nPads) = nPads
    <3>1. 1 \in Int /\ nPads \in Int
      BY <1>3
    <3>2. Cardinality(1 .. nPads) = IF 1 > nPads THEN 0 ELSE nPads - 1 + 1
      BY <3>1, FS_Interval, Zenon
    <3> QED
      BY <1>3, <3>2
  <2>5. f \in Surjection(1 .. nPads, prepared)
    BY <1>2, <1>3, <2>3, <2>4, FS_Injection
  <2> QED
    BY <2>5 DEF Surjection
<1> QED
  BY <1>2, <1>3, <1>4, <1>5, <1>6, <1>7

-----------------------------------------------------------------------------
(***************************************************************************)
(* What a step does to the picture                                         *)
(***************************************************************************)
LEMMA Numbers ==
  ASSUME IInv
  PROVE  /\ frame \in Nat /\ slot \in Nat /\ nPads \in Nat
         /\ \A j \in DOMAIN pending : /\ pending[j].id[1] \in Nat /\ pending[j].id[2] \in Nat
                                     /\ pending[j].id = << pending[j].id[1], pending[j].id[2] >>
                                     /\ pending[j].px \subseteq Pixels
<1>1. frame \in 0 .. MaxFrames /\ slot \in Nat /\ nPads \in 0 .. Cardinality(Pads)
  BY DEF IInv, Types, TypeOK
<1>2. frame \in Nat /\ nPads \in Nat
  BY <1>1, SizesAssumption
<1>3. ASSUME NEW j \in DOMAIN pending
      PROVE  /\ pending[j].id[1] \in Nat /\ pending[j].id[2] \in Nat
             /\ pending[j].id = << pending[j].id[1], pending[j].id[2] >>
             /\ pending[j].px \subseteq Pixels
  <2>1. pending[j].id \in (1 .. MaxFrames) \X (1 .. NumPads) /\ pending[j].px \subseteq Pixels
    BY Queue DEF Job, Pads
  <2> QED
    BY <2>1
<1> QED
  BY <1>1, <1>2, <1>3

LEMMA UndisturbedWas ==
  ASSUME UNCHANGED << background, table >>, spoiled \subseteq spoiled', Undisturbed'
  PROVE  Undisturbed /\ spoiled = {} /\ spoiled' = {}
<1>1. spoiled' = {} /\ HandleLive(background)'
  BY DEF Undisturbed
<1>2. spoiled = {} /\ HandleLive(background)
  BY <1>1 DEF HandleLive
<1> QED
  BY <1>1, <1>2 DEF Undisturbed

\* Nothing is said of a picture nobody draws, nor of one that is disturbed
LEMMA NotDrawing ==
  ASSUME Ages', pc' \in {"idle", "stopped", "finalized", "crashed"}
  PROVE  TopInv'
BY DEF TopInv, Chosen, OutputWrapped, Queued, Painted, Copied, Drawing

LEMMA Spoilt ==
  ASSUME Ages', OutputWrapped', spoiled' # {}
  PROVE  TopInv'
BY DEF TopInv, Chosen, Queued, Painted, Copied, Undisturbed, Undisturbed

LEMMA InitiallyTop == Init => TopInv
<1> SUFFICES ASSUME Init PROVE TopInv
  OBVIOUS
<1>1. DOMAIN pending = {}
  BY DEF Init
<1> QED
  BY <1>1 DEF Init, TopInv, Ages, Current, Chosen, OutputWrapped, Queued, Painted, Copied, Drawing

LEMMA SetPropertyKeepsTop ==
  ASSUME TopInv, NEW p \in Pads, NEW s \in Scenes, SetProperty(p, s)
  PROVE  TopInv'
<1>1. /\ UNCHANGED << pc, frame, dst, nPads, pending >>
      /\ spoiled' = spoiled \cup {"changed"}
  BY DEF SetProperty, threadVars, rgaVars, rowVars
<1>2. Ages'
  BY <1>1 DEF TopInv, Ages, Current
<1>3. OutputWrapped' /\ spoiled' # {}
  BY <1>1 DEF TopInv, OutputWrapped
<1> QED
  BY <1>2, <1>3, Spoilt

LEMMA QuietKeepsTop ==
  ASSUME TopInv, Negotiate \/ Stop \/ Finalize \/ FinalizeDangling \/ Finish
  PROVE  TopInv'
<1>1. pc' \in {"idle", "stopped", "finalized", "crashed"} /\ UNCHANGED << frame, pending >>
  BY DEF Negotiate, Stop, Finalize, FinalizeDangling, FinalizeUnchanged, Finish, rowVars
<1>2. Ages'
  BY <1>1 DEF TopInv, Ages
<1> QED
  BY <1>1, <1>2, NotDrawing

LEMMA StartFrameKeepsTop ==
  ASSUME IInv, TopInv, NEW images \in SUBSET Pads, StartFrame(images)
  PROVE  TopInv'
<1>1. /\ frame' = frame + 1 /\ prepared' = {} /\ pc' = "prepare" /\ i' = 1
      /\ pending' = pending
  BY DEF StartFrame, rowVars
<1>2. Ages'
  <2>1. frame \in Nat /\ \A j \in DOMAIN pending : pending[j].id[1] \in Nat
    BY Numbers
  <2>2. \A j \in DOMAIN pending : pending[j].id[1] <= frame
    BY DEF TopInv, Ages
  <2>3. \A j \in DOMAIN pending : pending[j].id[1] <= frame + 1 /\ pending[j].id[1] # frame + 1
    BY <2>1, <2>2
  <2> QED
    BY <1>1, <2>3 DEF Ages, Current
<1>3. Chosen'
  <2>1. 1 \in 1 .. NumPads + 1
    BY SizesAssumption
  <2>2. \A p \in Pads : ~(p < 1)
    BY DEF Pads
  <2>3. {p \in Pads : p < 1 /\ IsShown(p)'} = {}
    BY <2>2
  <2> QED
    BY <1>1, <2>1, <2>3 DEF Chosen, Drawing
<1> QED
  BY <1>1, <1>2, <1>3 DEF TopInv, OutputWrapped, Queued, Painted, Copied, Drawing

LEMMA PrepareKeepsTop ==
  ASSUME IInv, TopInv, PrepareFrameStart
  PROVE  TopInv'
<1>1. /\ pc = "prepare" /\ pc' \in {"prepare", "wrap output"}
      /\ UNCHANGED << frame, pending, scene, fed, spoiled >>
  BY DEF PrepareFrameStart, rowVars, envVars
<1>2. Ages'
  BY <1>1 DEF TopInv, Ages, Current
<1>3. Chosen'
  <2> SUFFICES ASSUME spoiled = {}
               PROVE  /\ pc' = "prepare" => i' \in 1 .. NumPads + 1 /\ prepared' = {p \in Pads : p < i' /\ IsShown(p)}
                      /\ pc' # "prepare" => prepared' = {p \in Pads : IsShown(p)}
    <3>1. \A p : IsShown(p)' <=> IsShown(p)
      BY <1>1, SceneStays
    <3> QED
      BY <1>1, <3>1 DEF Chosen, Drawing
  <2>1. i \in 1 .. NumPads + 1 /\ prepared = {p \in Pads : p < i /\ IsShown(p)}
    BY <1>1 DEF TopInv, Chosen
  <2>2. NumPads \in Nat
    BY SizesAssumption
  <2>3. CASE i \in Pads
    <3>1. i' = i + 1 /\ pc' = "prepare" /\ prepared' = IF IsShown(i) THEN prepared \cup {i} ELSE prepared
      BY <1>1, <2>3 DEF PrepareFrameStart
    <3>2. i + 1 \in 1 .. NumPads + 1
      BY <2>2, <2>3 DEF Pads
    <3>3. \A p \in Pads : p < i + 1 <=> p < i \/ p = i
      BY <2>1 DEF Pads
    <3>4. prepared' = {p \in Pads : p < i + 1 /\ IsShown(p)}
      BY <2>1, <2>3, <3>1, <3>3
    <3> QED
      BY <3>1, <3>2, <3>4
  <2>4. CASE i \notin Pads
    <3>1. pc' = "wrap output" /\ prepared' = prepared
      BY <2>4 DEF PrepareFrameStart
    <3>2. \A p \in Pads : p < i
      BY <2>1, <2>2, <2>4 DEF Pads
    <3> QED
      BY <2>1, <3>1, <3>2
  <2> QED
    BY <2>3, <2>4
<1> QED
  BY <1>1, <1>2, <1>3 DEF TopInv, OutputWrapped, Queued, Painted, Copied, Drawing

LEMMA WrapOutputKeepsTop ==
  ASSUME IInv, TopInv, WrapOutput
  PROVE  TopInv'
<1>1. PICK imports \in BOOLEAN :
        /\ dst' = Ctx!WrapBuffer(dst, table, OutBuffer(frame), OutIsDmabuf, imports).ctx
        /\ IF imports THEN Works ELSE Fails("import output")
  BY DEF WrapOutput
<1>2. /\ pc = "wrap output" /\ pc' = "collect"
      /\ UNCHANGED << frame, pending, scene, fed, prepared >>
  BY DEF WrapOutput, envVars
<1>3. Ages'
  BY <1>2 DEF TopInv, Ages, Current
<1>4. Chosen'
  <2>1. \A p : IsShown(p)' <=> IsShown(p)
    BY <1>2, SceneStays
  <2>2. spoiled' = {} => spoiled = {}
    BY <1>1 DEF Works, Fails
  <2> QED
    BY <1>2, <2>1, <2>2 DEF TopInv, Chosen, Drawing
<1>5. OutputWrapped'
  <2> SUFFICES ASSUME "import output" \notin spoiled'
               PROVE  dst'.handle # NoBuffer /\ dst'.rgabuf = dst'.handle
    BY DEF OutputWrapped
  <2>1. imports = TRUE
    BY <1>1 DEF Fails
  <2>2. dst \in ContextsOf(OutBuffers, {NoBuffer}) /\ dst.handle = NoBuffer
    BY <1>2 DEF IInv, Types, Held, Clean, Composing
  <2>3. dst' = [(IF OutIsDmabuf THEN dst ELSE [dst EXCEPT !.buffer = OutBuffer(frame)])
                  EXCEPT !.handle = OutBuffer(frame), !.rgabuf = OutBuffer(frame)]
    BY <1>1, <2>1, <2>2 DEF Ctx!WrapBuffer, Ctx!Imported, Ctx!Result, Ctx!Mapped
  <2>4. dst'.handle = OutBuffer(frame) /\ dst'.rgabuf = OutBuffer(frame)
    BY <2>2, <2>3 DEF ContextsOf
  <2>5. OutBuffer(frame) # NoBuffer
    BY DEF OutBuffer, NoBuffer
  <2> QED
    BY <2>4, <2>5
<1> QED
  BY <1>2, <1>3, <1>4, <1>5 DEF TopInv, Queued, Painted, Copied

LEMMA CollectKeepsTop ==
  ASSUME IInv, TopInv, CollectFrame
  PROVE  TopInv'
<1>1. /\ pc = "collect" /\ pc' = "collect" /\ spoiled \subseteq spoiled'
      /\ UNCHANGED << frame, pending, scene, fed, prepared, dst >>
  BY DEF CollectFrame, rowVars, envVars, Works, Fails
<1>2. Ages'
  BY <1>1 DEF TopInv, Ages, Current
<1>3. Chosen'
  <2>1. \A p : IsShown(p)' <=> IsShown(p)
    BY <1>1, SceneStays
  <2> QED
    BY <1>1, <2>1 DEF TopInv, Chosen, Drawing
<1>4. OutputWrapped'
  BY <1>1 DEF TopInv, OutputWrapped
<1> QED
  BY <1>1, <1>2, <1>3, <1>4 DEF TopInv, Queued, Painted, Copied

LEMMA SkipKeepsTop ==
  ASSUME IInv, TopInv, SkipUnprepared
  PROVE  TopInv'
<1>1. /\ pc = "collect" /\ pc' \in {"collect", "submit", "fill"}
      /\ UNCHANGED << frame, pending, scene, fed, prepared, dst, nPads, spoiled >>
      /\ pc' = "submit" => slot' = 1
      /\ pc' = "fill" => ~(nPads > 0)
  BY DEF SkipUnprepared, rowVars, rgaVars, envVars
<1>2. Ages' /\ Current' = {}
  <2>1. nPads \in Nat /\ Current = {}
    BY <1>1, Numbers DEF TopInv, Ages
  <2>2. Current' = Current
    BY <1>1 DEF Current
  <2>3. pc' = "fill" => nPads' = 0
    BY <1>1, <2>1
  <2>4. \A j \in DOMAIN pending' : (pending[j].id[1])' <= frame'
    BY <1>1 DEF TopInv, Ages
  <2> QED
    BY <2>1, <2>2, <2>3, <2>4 DEF Ages
<1>3. Chosen'
  <2>1. \A p : IsShown(p)' <=> IsShown(p)
    BY <1>1, SceneStays
  <2> QED
    BY <1>1, <2>1 DEF TopInv, Chosen, Drawing
<1>4. OutputWrapped'
  BY <1>1 DEF TopInv, OutputWrapped, Drawing
<1>5. Queued'
  BY <1>2 DEF Queued
<1>6. Painted'
  <2>1. nPads \in Nat
    BY Numbers
  <2>2. pc' = "submit" => Sent' = {}
    BY <1>1, <2>1 DEF Sent
  <2> QED
    BY <1>1, <2>2 DEF Painted
<1> QED
  BY <1>1, <1>2, <1>3, <1>4, <1>5, <1>6 DEF TopInv, Copied

\* Waiting for the fences: each one awaited rules its job out
LEMMA WaitingKeepsTop ==
  ASSUME IInv, TopInv, SubmitDone \/ SyncProcess \/ SyncDone
  PROVE  TopInv'
<1>1. /\ pc \in {"submit", "sync"} /\ pc' \in {"sync", "copy"} /\ spoiled \subseteq spoiled'
      /\ UNCHANGED << frame, pending, scene, fed, prepared, dst, nPads, padInfo, fences, background, table,
                      bgRow >>
  BY DEF SubmitDone, SyncProcess, SyncDone, rowVars, rgaVars, envVars, Works, Fails
<1>2. /\ pc = "submit" => slot > nPads /\ slot' = 1 /\ pc' = "sync"
      /\ pc = "sync" /\ pc' = "copy" => slot > nPads
      /\ pc = "sync" /\ pc' = "sync" => /\ slot \in 1 .. nPads /\ slot' = slot + 1
                                        /\ spoiled' = {} => fences[slot] = None \/ Signalled(fences[slot])
  <2>1. pc = "sync" => slot \in Nat /\ slot >= 1 /\ nPads \in Nat
    BY Numbers DEF IInv, Types
  <2> QED
    BY <2>1 DEF SubmitDone, SyncProcess, SyncDone, Fails
<1>3. Ages'
  BY <1>1 DEF TopInv, Ages, Current
<1>4. Chosen'
  <2>1. \A p : IsShown(p)' <=> IsShown(p)
    BY <1>1, SceneStays
  <2> QED
    BY <1>1, <2>1 DEF TopInv, Chosen, Drawing
<1>5. OutputWrapped'
  BY <1>1 DEF TopInv, OutputWrapped, Drawing
<1>6. Sent' = 1 .. nPads /\ Sent = 1 .. nPads
  <2>1. slot \in Nat /\ nPads \in Nat
    BY Numbers
  <2>2. \A s \in 1 .. nPads : slot > nPads => s < slot
    BY <2>1
  <2> QED
    BY <1>1, <1>2, <2>2 DEF Sent
<1>7. /\ \A s : DrawnRect(padInfo[s])' = DrawnRect(padInfo[s])
      /\ \A s : \A x : Covers(s, x)' <=> Covers(s, x)
      /\ \A s : \A x : Uppermost(s, x)' <=> Uppermost(s, x)
  <2>1. /\ \A p : DrawnRect(p)' = DrawnRect(p)
        /\ \A s : Fits(padInfo[s])' <=> Fits(padInfo[s])
    BY <1>1, SceneStays DEF Fits, DrawnRect, Pad
  <2>2. \A s : DrawnRect(padInfo[s])' = DrawnRect(padInfo[s])
    BY <1>1, <2>1 DEF DrawnRect, Pad
  <2>3. \A s : \A x : Covers(s, x)' <=> Covers(s, x)
    BY <2>2 DEF Covers, Columns
  <2>4. \A s : \A x : Uppermost(s, x)' <=> Uppermost(s, x)
    BY <1>6, <2>1, <2>3 DEF Uppermost
  <2> QED
    BY <2>2, <2>3, <2>4
<1>8. Queued'
  <2> SUFFICES ASSUME Undisturbed' PROVE Queued'
    BY DEF Queued
  <2>1. Undisturbed /\ spoiled' = {}
    BY <1>1, UndisturbedWas
  <2>2. ASSUME NEW j \in Current, NEW s, s = pending[j].id[2]
        PROVE  /\ s \in Sent /\ pending[j].src = Frame(padInfo[s], frame)
               /\ pending[j].px = Columns(DrawnRect(padInfo[s])) /\ fences[s] = pending[j].id
               /\ pc = "sync" => s >= slot
    BY <1>1, <2>1, <2>2 DEF TopInv, Queued
  <2>3. ASSUME NEW j \in Current, NEW s, s = pending[j].id[2]
        PROVE  (pc' = "sync" => s >= slot') /\ pc' # "copy"
    <3>1. s \in 1 .. nPads /\ slot \in Nat /\ nPads \in Nat /\ j \in DOMAIN pending
      BY <1>6, <2>2, <2>3, Numbers DEF Current
    <3>2. CASE pc = "submit"
      BY <1>1, <1>2, <3>1, <3>2
    <3>3. CASE pc = "sync" /\ pc' = "copy"
      <4>1. s >= slot /\ slot > nPads
        BY <1>2, <2>2, <2>3, <3>3
      <4> QED
        BY <3>1, <4>1
    <3>4. CASE pc = "sync" /\ pc' = "sync"
      <4>1. s >= slot /\ fences[s] = pending[j].id
        BY <2>2, <2>3, <3>4
      <4>2. slot' = slot + 1 /\ (fences[slot] = None \/ Signalled(fences[slot]))
        BY <1>2, <2>1, <3>4
      <4>3. pending[j].id # None
        <5>1. pending[j].id \in Nat \X Nat
          <6>1. /\ pending[j].id[1] \in Nat /\ pending[j].id[2] \in Nat
                /\ pending[j].id = << pending[j].id[1], pending[j].id[2] >>
            BY <3>1, Numbers
          <6> QED
            BY <6>1
        <5> QED
          BY <5>1, SizesAssumption
      <4>4. s # slot
        BY <3>1, <4>1, <4>2, <4>3 DEF Signalled
      <4> QED
        BY <3>1, <3>4, <4>1, <4>2, <4>4
    <3> QED
      BY <1>1, <3>2, <3>3, <3>4
  <2>4. \A j \in Current, k \in DOMAIN pending :
          j < k => k \in Current /\ pending[j].id[2] < pending[k].id[2]
    BY <1>1, <2>1 DEF TopInv, Queued
  <2>5. Current' = Current
    BY <1>1 DEF Current
  <2>6. \A s : Columns(DrawnRect(padInfo[s]))' = Columns(DrawnRect(padInfo[s]))
    BY <1>7 DEF Columns
  <2> QED
    BY <1>1, <1>6, <2>2, <2>3, <2>4, <2>5, <2>6 DEF Queued, Frame
<1>9. Painted'
  <2> SUFFICES ASSUME Undisturbed' PROVE Painted'
    BY DEF Painted
  <2>1. Undisturbed
    BY <1>1, UndisturbedWas
  <2>2. \A x \in Pixels, s \in Sent : Uppermost(s, x) =>
          \/ \E j \in DOMAIN pending : pending[j].id = << frame, s >>
          \/ bgRow[x] = Frame(padInfo[s], frame) /\ \A j \in DOMAIN pending : x \notin pending[j].px
    BY <1>1, <2>1 DEF TopInv, Painted
  <2> QED
    BY <1>1, <1>6, <1>7, <2>2 DEF Painted, Frame
<1> QED
  BY <1>1, <1>3, <1>4, <1>5, <1>8, <1>9 DEF TopInv, Copied

\* Filling touches no job
LEMMA FillKeepsTop ==
  ASSUME IInv, TopInv, BgFill
  PROVE  TopInv'
<1>1. /\ pc = "fill" /\ pc' = "copy" /\ spoiled \subseteq spoiled'
      /\ UNCHANGED << frame, pending, scene, fed, prepared, dst, nPads >>
  BY DEF BgFill, rgaVars, envVars, Works, Fails
<1>2. Current = {} /\ nPads = 0
  BY <1>1 DEF TopInv, Ages
<1>3. Ages'
  BY <1>1 DEF TopInv, Ages
<1>4. Chosen'
  <2>1. \A p : IsShown(p)' <=> IsShown(p)
    BY <1>1, SceneStays
  <2> QED
    BY <1>1, <2>1 DEF TopInv, Chosen, Drawing
<1>5. OutputWrapped'
  BY <1>1 DEF TopInv, OutputWrapped, Drawing
<1>6. Current' = {} /\ Sent' = {}
  BY <1>1, <1>2 DEF Current, Sent
<1>7. Queued' /\ Painted'
  BY <1>6 DEF Queued, Painted
<1> QED
  BY <1>1, <1>3, <1>4, <1>5, <1>7 DEF TopInv, Copied

\* What reaches the output, where the frames cover it
LEMMA CopyKeepsTop ==
  ASSUME IInv, TopInv, BgCopy
  PROVE  TopInv'
<1>1. /\ pc = "copy" /\ pc' = "unwrap"
      /\ UNCHANGED << frame, pending, scene, fed, prepared, dst, nPads, padInfo, background, table >>
      /\ spoiled \subseteq spoiled'
      /\ spoiled' = {} /\ HandleLive(background) /\ HandleLive(dst) => outRow' = bgRow
  BY DEF BgCopy, rgaVars, envVars, Works, Fails
<1>2. Ages'
  BY <1>1 DEF TopInv, Ages
<1>3. Copied'
  <2> SUFFICES ASSUME Undisturbed', NEW x \in Pixels, NEW p \in Shows(x), \A q \in Shows(x) : q <= p, Fits(p)
               PROVE  outRow'[x] = Frame(p, frame)
    <3>1. (\A y : Shows(y)' = Shows(y)) /\ \A q : Fits(q)' <=> Fits(q)
      BY <1>1, SceneStays
    <3> QED
      BY <1>1, <3>1 DEF Copied, Frame
  <2>1. Undisturbed /\ spoiled = {} /\ spoiled' = {} /\ HandleLive(background) /\ TypeOK
    <3>1. Undisturbed /\ spoiled = {} /\ spoiled' = {}
      BY <1>1, UndisturbedWas
    <3> QED
      BY <3>1 DEF Undisturbed, IInv, Types
  <2>2. p \in Pads /\ IsShown(p) /\ x \in Columns(DrawnRect(p))
    BY <2>1, TopmostIsShown DEF Shows
  <2>3. PICK s \in 1 .. nPads : padInfo[s] = p
    <3>1. p \in prepared
      BY <1>1, <2>1, <2>2 DEF TopInv, Chosen, Drawing
    <3> QED
      BY <1>1, <2>1, <3>1, SlotsInOrder
  <2>4. Sent = 1 .. nPads
    BY <1>1 DEF Sent
  <2>5. Uppermost(s, x)
    <3> SUFFICES ASSUME NEW t \in 1 .. nPads, t > s, Covers(t, x)
                 PROVE  FALSE
      BY <2>2, <2>3, <2>4 DEF Uppermost, Covers
    <3>1. padInfo[t] \in prepared /\ padInfo[s] < padInfo[t] /\ padInfo[t] \in Pads
      BY <1>1, <2>1, SlotsInOrder
    <3>2. IsShown(padInfo[t])
      BY <1>1, <2>1, <3>1 DEF TopInv, Chosen, Drawing
    <3>3. padInfo[t] \in Shows(x)
      BY <2>1, <3>1, <3>2, DrawnIsCovered DEF Covers
    <3> QED
      BY <2>2, <2>3, <3>1, <3>3 DEF Pads
  <2>6. \A j \in DOMAIN pending : pending[j].id # << frame, s >>
    <3> SUFFICES ASSUME NEW j \in DOMAIN pending, pending[j].id = << frame, s >>
                 PROVE  FALSE
      OBVIOUS
    <3>1. j \in Current
      BY DEF Current
    <3> QED
      BY <1>1, <2>1, <3>1 DEF TopInv, Queued
  <2>7. bgRow[x] = Frame(p, frame)
    BY <1>1, <2>1, <2>3, <2>4, <2>5, <2>6 DEF TopInv, Painted
  <2>8. HandleLive(dst)
    <3>1. dst.handle # NoBuffer /\ dst.rgabuf = dst.handle
      BY <1>1, <2>1 DEF TopInv, OutputWrapped, Drawing
    <3>2. dst.handle \in table.handles \cup {NoBuffer}
      BY DEF IInv, Held, Ctx!Holds
    <3> QED
      BY <3>1, <3>2 DEF HandleLive
  <2> QED
    BY <1>1, <2>1, <2>7, <2>8
<1> QED
  BY <1>1, <1>2, <1>3 DEF TopInv, Chosen, OutputWrapped, Queued, Painted, Drawing

LEMMA UnwrapKeepsTop ==
  ASSUME IInv, TopInv, Unwrap
  PROVE  TopInv'
<1>1. /\ pc = "unwrap" /\ pc' = "delivered"
      /\ UNCHANGED << frame, pending, scene, fed, background, outRow, spoiled >>
      /\ table' = [table EXCEPT !.handles = @ \ {c.handle : c \in Wrapped},
                                !.maps    = @ \ {c.buffer : c \in Wrapped}]
  BY DEF Unwrap, rowVars, envVars
<1>2. Ages'
  BY <1>1 DEF TopInv, Ages
<1>3. Copied'
  <2> SUFFICES ASSUME Undisturbed' PROVE Copied'
    BY DEF Copied
  <2>1. table'.handles \subseteq table.handles
    <3>1. table \in Ctx!Tables
      BY DEF IInv, Types, TypeOK
    <3> QED
      BY <1>1, <3>1 DEF Ctx!Tables
  <2>2. spoiled = {} /\ HandleLive(background)
    <3>1. spoiled' = {} /\ HandleLive(background)'
      BY DEF Undisturbed
    <3> QED
      BY <1>1, <2>1, <3>1 DEF HandleLive
  <2>3. (\A x : Shows(x)' = Shows(x)) /\ \A p : Fits(p)' <=> Fits(p)
    BY <1>1, SceneStays
  <2>4. Undisturbed
    BY <2>2 DEF Undisturbed
  <2>5. \A x \in Pixels : \A p \in Shows(x) :
          (\A q \in Shows(x) : q <= p) /\ scene[p].alpha = 100 /\ Fits(p) => outRow[x] = Frame(p, frame)
    BY <1>1, <2>4 DEF TopInv, Copied
  <2> QED
    BY <1>1, <2>3, <2>5 DEF Copied, Frame
<1> QED
  BY <1>1, <1>2, <1>3 DEF TopInv, Chosen, OutputWrapped, Queued, Painted, Drawing

\* A job that is submitted is the youngest and of the uppermost slot so far
LEMMA SubmittedKeepsTop ==
  ASSUME IInv, Queued, Painted, Undisturbed, pc = "submit", slot \in 1 .. nPads,
         slots[slot].rgabuf = Frame(padInfo[slot], frame), Submitted(DrawnRect(padInfo[slot])),
         slot' = slot + 1, UNCHANGED << pc, frame, scene, fed, nPads, padInfo, bgRow >>
  PROVE  Queued' /\ Painted'
<1> DEFINE r   == DrawnRect(padInfo[slot])
           job == [id |-> << frame, slot >>, src |-> Frame(padInfo[slot], frame), px |-> Columns(r)]
           n   == Len(pending)
<1>1. /\ n \in Nat /\ DOMAIN pending = 1 .. n /\ slot \in Nat /\ nPads \in Nat
      /\ slot \in DOMAIN fences
  <2>1. nPads <= Len(slots) /\ Len(slots) \in Nat
    BY Queue DEF IInv, Filled, Composing
  <2> QED
    BY <2>1, Queue, Numbers
<1>2. /\ DOMAIN pending' = 1 .. n + 1 /\ pending'[n + 1] = job
      /\ \A j \in 1 .. n : pending'[j] = pending[j]
  <2>1. pending' = Append(pending, job)
    BY DEF Submitted
  <2>2. pending \in Seq(Job \cup {job})
    <3>1. pending \in Seq(Job)
      BY Queue
    <3> QED
      BY <3>1, <1>1
  <2> HIDE DEF job
  <2>3. /\ Len(Append(pending, job)) = n + 1 /\ Append(pending, job) \in Seq(Job \cup {job})
        /\ \A j \in 1 .. n + 1 : Append(pending, job)[j] = IF j <= n THEN pending[j] ELSE job
    BY <2>2, AppendProperties
  <2>4. DOMAIN Append(pending, job) = 1 .. n + 1
    BY <2>3, LenProperties
  <2>5. n + 1 \in 1 .. n + 1 /\ ~(n + 1 <= n) /\ \A j \in 1 .. n : j \in 1 .. n + 1 /\ j <= n
    BY <1>1
  <2> QED
    BY <2>1, <2>3, <2>4, <2>5
<1>3. job.id = << frame, slot >> /\ job.id[1] = frame /\ job.id[2] = slot
      /\ job.src = Frame(padInfo[slot], frame) /\ job.px = Columns(r)
  OBVIOUS
<1>4. /\ fences'[slot] = << frame, slot >>
      /\ \A s \in DOMAIN fences : s # slot => fences'[s] = fences[s]
  BY <1>1 DEF Submitted
<1>5. /\ \A s \in Sent : s \in 1 .. nPads /\ s < slot /\ s \in Sent'
      /\ slot \in Sent'
      /\ \A s \in Sent' : s \in Sent \/ s = slot
  <2>1. \A s \in 1 .. nPads : s < slot + 1 <=> s < slot \/ s = slot
    BY <1>1
  <2> QED
    BY <2>1 DEF Sent
<1>6. /\ \A s : DrawnRect(padInfo[s])' = DrawnRect(padInfo[s])
      /\ \A s : Columns(DrawnRect(padInfo[s]))' = Columns(DrawnRect(padInfo[s]))
      /\ \A s, x : Covers(s, x)' <=> Covers(s, x)
      /\ \A s : Fits(padInfo[s])' <=> Fits(padInfo[s])
  <2>1. /\ \A s : DrawnRect(padInfo[s])' = DrawnRect(padInfo[s])
        /\ \A s : Fits(padInfo[s])' <=> Fits(padInfo[s])
    BY SceneStays DEF Fits, DrawnRect, Pad
  <2>2. \A s : Columns(DrawnRect(padInfo[s]))' = Columns(DrawnRect(padInfo[s]))
    BY <2>1 DEF Columns
  <2>3. \A s, x : Covers(s, x)' <=> Covers(s, x)
    BY <2>2 DEF Covers
  <2> QED
    BY <2>1, <2>2, <2>3
<1> HIDE DEF job, n
<1>7. Queued'
  <2>1. ASSUME NEW j \in Current', NEW s, s = pending'[j].id[2]
        PROVE  /\ s \in Sent' /\ pending'[j].src = Frame(padInfo[s], frame)
               /\ pending'[j].px = Columns(DrawnRect(padInfo[s])) /\ fences'[s] = pending'[j].id
    <3>1. j \in 1 .. n + 1 /\ pending'[j].id[1] = frame
      BY <1>2 DEF Current
    <3>2. CASE j = n + 1
      <4>1. pending'[j] = job /\ s = slot
        BY <1>2, <1>3, <2>1, <3>2
      <4> QED
        BY <1>3, <1>4, <1>5, <4>1 DEF r
    <3>3. CASE j # n + 1
      <4>1. j \in 1 .. n /\ pending'[j] = pending[j] /\ j \in Current
        <5>1. j \in 1 .. n
          BY <1>1, <3>1, <3>3
        <5> QED
          BY <1>1, <1>2, <3>1, <5>1 DEF Current
      <4>2. /\ s \in Sent /\ pending[j].src = Frame(padInfo[s], frame)
            /\ pending[j].px = Columns(DrawnRect(padInfo[s])) /\ fences[s] = pending[j].id
        BY <2>1, <4>1 DEF Queued
      <4>3. s # slot /\ s \in DOMAIN fences /\ s \in Sent'
        <5>1. s \in 1 .. nPads /\ s < slot /\ s \in Sent'
          BY <1>5, <4>2
        <5>2. nPads <= Len(slots) /\ Len(slots) \in Nat /\ DOMAIN fences = 1 .. Len(slots)
          BY Queue DEF IInv, Filled, Composing
        <5> QED
          BY <1>1, <5>1, <5>2
      <4> QED
        BY <1>4, <4>1, <4>2, <4>3
    <3> QED
      BY <3>2, <3>3
  <2>2. ASSUME NEW j \in Current', NEW k \in DOMAIN pending', j < k
        PROVE  k \in Current' /\ pending'[j].id[2] < pending'[k].id[2]
    <3>1. j \in 1 .. n /\ k \in 1 .. n + 1 /\ pending'[j] = pending[j] /\ j \in Current
      <4>1. j \in 1 .. n + 1 /\ k \in 1 .. n + 1 /\ pending'[j].id[1] = frame
        BY <1>2 DEF Current
      <4>2. j \in 1 .. n
        BY <1>1, <2>2, <4>1
      <4> QED
        BY <1>1, <1>2, <4>1, <4>2 DEF Current
    <3>2. CASE k = n + 1
      <4>1. pending'[k] = job
        BY <1>2, <3>2
      <4>2. pending[j].id[2] < slot
        BY <1>5, <3>1 DEF Queued
      <4> QED
        BY <1>2, <1>3, <3>1, <4>1, <4>2 DEF Current
    <3>3. CASE k # n + 1
      <4>1. k \in 1 .. n /\ pending'[k] = pending[k]
        BY <1>1, <1>2, <3>1, <3>3
      <4>2. k \in Current /\ pending[j].id[2] < pending[k].id[2]
        BY <1>1, <2>2, <3>1, <4>1 DEF Queued
      <4> QED
        BY <1>2, <3>1, <4>1, <4>2 DEF Current
    <3> QED
      BY <3>2, <3>3
  <2> QED
    BY <1>6, <2>1, <2>2 DEF Queued, Frame
<1>8. Painted'
  <2>1. ASSUME NEW x \in Pixels, NEW s \in Sent', Uppermost(s, x)'
        PROVE  \/ \E j \in DOMAIN pending' : pending'[j].id = << frame, s >>
               \/ bgRow[x] = Frame(padInfo[s], frame) /\ \A j \in DOMAIN pending' : x \notin pending'[j].px
    <3>1. CASE s = slot
      <4>1. n + 1 \in DOMAIN pending' /\ pending'[n + 1].id = << frame, s >>
        BY <1>1, <1>2, <1>3, <3>1
      <4> QED
        BY <4>1
    <3>2. CASE s # slot
      <4>1. s \in Sent /\ s < slot
        BY <1>5, <3>2
      <4>2. Fits(padInfo[s]) /\ Covers(s, x) /\ \A t \in Sent' : t > s => ~Covers(t, x)
        BY <1>6, <2>1 DEF Uppermost
      <4>3. Uppermost(s, x) /\ ~Covers(slot, x)
        <5>1. slot \in Sent' /\ slot > s
          BY <1>1, <1>5, <4>1
        <5> QED
          BY <1>5, <4>2, <5>1 DEF Uppermost
      <4>4. \/ \E j \in DOMAIN pending : pending[j].id = << frame, s >>
            \/ bgRow[x] = Frame(padInfo[s], frame) /\ \A j \in DOMAIN pending : x \notin pending[j].px
        BY <4>1, <4>3 DEF Painted
      <4>5. CASE \E j \in DOMAIN pending : pending[j].id = << frame, s >>
        <5>1. PICK j \in 1 .. n : pending[j].id = << frame, s >>
          BY <1>1, <4>5
        <5>2. j \in DOMAIN pending' /\ pending'[j].id = << frame, s >>
          BY <1>1, <1>2, <5>1
        <5> QED
          BY <5>2
      <4>6. CASE bgRow[x] = Frame(padInfo[s], frame) /\ \A j \in DOMAIN pending : x \notin pending[j].px
        <5>1. x \notin job.px
          BY <1>3, <4>3 DEF Covers, r
        <5>2. \A j \in 1 .. n + 1 : j = n + 1 \/ j \in 1 .. n
          BY <1>1
        <5>3. \A j \in DOMAIN pending' : x \notin pending'[j].px
          BY <1>1, <1>2, <4>6, <5>1, <5>2
        <5> QED
          BY <4>6, <5>3
      <4> QED
        BY <4>4, <4>5, <4>6
    <3> QED
      BY <3>1, <3>2
  <2> QED
    BY <2>1 DEF Painted, Frame
<1> QED
  BY <1>7, <1>8

\* A job that is refused is not missed: nothing is said of what it covers
LEMMA RefusedKeepsTop ==
  ASSUME IInv, Queued, Painted, Undisturbed, pc = "submit", slot \in 1 .. nPads,
         ~Fits(padInfo[slot]), slot' = slot + 1,
         UNCHANGED << pc, frame, scene, fed, nPads, padInfo, bgRow, fences, pending >>
  PROVE  Queued' /\ Painted'
<1>1. /\ \A s \in Sent : s \in Sent'
      /\ \A s \in Sent' : s \in Sent \/ s = slot
  <2>1. slot \in Nat /\ \A s \in 1 .. nPads : s < slot + 1 <=> s < slot \/ s = slot
    BY Numbers
  <2> QED
    BY <2>1 DEF Sent
<1>2. /\ \A s : Columns(DrawnRect(padInfo[s]))' = Columns(DrawnRect(padInfo[s]))
      /\ \A s, x : Covers(s, x)' <=> Covers(s, x)
      /\ \A s : Fits(padInfo[s])' <=> Fits(padInfo[s])
  <2>1. /\ \A s : DrawnRect(padInfo[s])' = DrawnRect(padInfo[s])
        /\ \A s : Fits(padInfo[s])' <=> Fits(padInfo[s])
    BY SceneStays DEF Fits, DrawnRect, Pad
  <2>2. \A s : Columns(DrawnRect(padInfo[s]))' = Columns(DrawnRect(padInfo[s]))
    BY <2>1 DEF Columns
  <2>3. \A s, x : Covers(s, x)' <=> Covers(s, x)
    BY <2>2 DEF Covers
  <2> QED
    BY <2>1, <2>2, <2>3
<1>3. \A s \in Sent' : \A x : Uppermost(s, x)' => s \in Sent /\ Uppermost(s, x)
  BY <1>1, <1>2 DEF Uppermost
<1>4. Queued'
  BY <1>1, <1>2 DEF Queued, Current, Frame
<1>5. Painted'
  BY <1>3 DEF Painted, Frame
<1> QED
  BY <1>4, <1>5

LEMMA SubmitKeepsTop ==
  ASSUME IInv, TopInv, Submit \/ SubmitUnset
  PROVE  TopInv'
<1>1. /\ pc = "submit" /\ pc' \in {"submit", "crashed"} /\ slot <= nPads /\ slot \in 1 .. nPads
      /\ spoiled \subseteq spoiled'
      /\ UNCHANGED << frame, scene, fed, prepared, dst, nPads, padInfo, slots, background, table, bgRow >>
  <2>1. /\ pc = "submit" /\ pc' \in {"submit", "crashed"} /\ slot <= nPads
        /\ spoiled \subseteq spoiled'
        /\ UNCHANGED << frame, scene, fed, prepared, dst, nPads, padInfo, slots, background, table, bgRow >>
    BY DEF Submit, SubmitUnset, envVars, Works, Fails
  <2>2. slot \in Nat /\ nPads \in Nat /\ slot >= 1
    BY <2>1, Numbers DEF IInv, Types
  <2> QED
    BY <2>1, <2>2
<1>2. Ages'
  <2>1. /\ frame <= frame
        /\ (UNCHANGED pending) \/ \E r : pending' = Append(pending, [id |-> << frame, slot >>,
                                                src |-> slots[slot].rgabuf, px |-> Columns(r)])
    <3>1. frame <= frame
      BY Numbers
    <3>2. (UNCHANGED pending) \/ \E r : Submitted(r)
      BY DEF Submit, SubmitUnset
    <3> QED
      BY <3>1, <3>2 DEF Submitted
  <2>2. \A j \in DOMAIN pending' : pending'[j].id[1] <= frame
    <3>1. \A j \in DOMAIN pending : pending[j].id[1] <= frame
      BY DEF TopInv, Ages
    <3>2. ASSUME NEW job, pending' = Append(pending, job), job.id[1] = frame
          PROVE  \A j \in DOMAIN pending' : pending'[j].id[1] <= frame
      <4>1. /\ Len(pending) \in Nat /\ DOMAIN pending = 1 .. Len(pending)
            /\ pending \in Seq(Job \cup {job})
        <5>1. pending \in Seq(Job) /\ Len(pending) \in Nat /\ DOMAIN pending = 1 .. Len(pending)
          BY Queue
        <5> QED
          BY <5>1
      <4>2. /\ Len(Append(pending, job)) = Len(pending) + 1 /\ Append(pending, job) \in Seq(Job \cup {job})
            /\ \A j \in 1 .. Len(pending) + 1 :
                 Append(pending, job)[j] = IF j <= Len(pending) THEN pending[j] ELSE job
        BY <4>1, AppendProperties
      <4>3. DOMAIN Append(pending, job) = 1 .. Len(pending) + 1
        BY <4>2, LenProperties
      <4>4. ASSUME NEW j \in 1 .. Len(pending) + 1
            PROVE  Append(pending, job)[j].id[1] <= frame
        <5>1. CASE j <= Len(pending)
          <6>1. j \in DOMAIN pending /\ Append(pending, job)[j] = pending[j]
            BY <4>1, <4>2, <5>1
          <6> QED
            BY <3>1, <6>1
        <5>2. CASE ~(j <= Len(pending))
          BY <2>1, <3>2, <4>2, <5>2
        <5> QED
          BY <5>1, <5>2
      <4> QED
        BY <3>2, <4>3, <4>4
    <3>3. CASE UNCHANGED pending
      BY <3>1, <3>3
    <3>4. ASSUME NEW r, pending' = Append(pending, [id |-> << frame, slot >>, src |-> slots[slot].rgabuf,
                                                    px |-> Columns(r)])
          PROVE  \A j \in DOMAIN pending' : pending'[j].id[1] <= frame
      <4> DEFINE job == [id |-> << frame, slot >>, src |-> slots[slot].rgabuf, px |-> Columns(r)]
      <4>1. job.id[1] = frame /\ pending' = Append(pending, job)
        BY <3>4
      <4> HIDE DEF job
      <4> QED
        BY <3>2, <4>1
    <3> QED
      BY <2>1, <3>3, <3>4
  <2> QED
    BY <1>1, <2>2 DEF Ages
<1>3. Chosen'
  <2>1. \A p : IsShown(p)' <=> IsShown(p)
    BY <1>1, SceneStays
  <2> QED
    BY <1>1, <2>1 DEF TopInv, Chosen, Drawing
<1>4. OutputWrapped'
  BY <1>1 DEF TopInv, OutputWrapped, Drawing
<1>5. Queued' /\ Painted'
  <2> SUFFICES ASSUME Undisturbed', pc' = "submit" PROVE Queued' /\ Painted'
    BY <1>1 DEF Queued, Painted
  <2>1. Undisturbed /\ spoiled = {} /\ spoiled' = {} /\ HandleLive(background)
    <3>1. Undisturbed /\ spoiled = {} /\ spoiled' = {}
      BY <1>1, UndisturbedWas
    <3> QED
      BY <3>1 DEF Undisturbed
  <2>2. /\ padInfo[slot] # None /\ padInfo[slot] \in prepared
        /\ slots[slot].handle = Frame(padInfo[slot], frame)
        /\ slots[slot].rgabuf = Frame(padInfo[slot], frame)
        /\ slot \in DOMAIN slots
    <3>1. nPads <= Len(slots) /\ nPads \in Nat
      BY <1>1, <2>1, SlotsInOrder
    <3> QED
      BY <1>1, <2>1, <3>1, SlotsInOrder, Queue
  <2>3. HandleLive(slots[slot])
    <3>1. slots[slot].handle \in table.handles \cup {NoBuffer}
      BY <2>2 DEF IInv, Held, Ctx!Holds
    <3>2. slots[slot].handle # NoBuffer
      BY <2>2 DEF Frame, NoBuffer
    <3> QED
      BY <2>2, <3>1, <3>2 DEF HandleLive
  <2>4. Submit /\ ~Fails("submit") /\ slot' = slot + 1
    BY <2>1, <2>2 DEF Submit, SubmitUnset, Fails
  <2>5. CASE Fits(padInfo[slot])
    <3>1. JobAccepted(slots[slot], DrawnRect(padInfo[slot]))
      BY <2>1, <2>3, <2>5 DEF JobAccepted, Fits
    <3>2. Submitted(DrawnRect(padInfo[slot]))
      BY <2>4, <3>1 DEF Submit
    <3> QED
      BY <1>1, <2>1, <2>2, <2>4, <3>2, SubmittedKeepsTop DEF TopInv
  <2>6. CASE ~Fits(padInfo[slot])
    <3>1. ~JobAccepted(slots[slot], DrawnRect(padInfo[slot]))
      BY <2>6 DEF JobAccepted, Fits
    <3>2. UNCHANGED << fences, pending >>
      BY <2>4, <3>1 DEF Submit
    <3> QED
      BY <1>1, <2>1, <2>4, <2>6, <3>2, RefusedKeepsTop DEF TopInv
  <2> QED
    BY <2>5, <2>6
<1> QED
  BY <1>1, <1>2, <1>3, <1>4, <1>5 DEF TopInv, Copied

\* A job that runs draws its frame; unless it overtakes, no older one is left
\* to draw over it, and a younger one that covers it is of a higher slot
LEMMA RunJobKeepsTop ==
  ASSUME IInv, TopInv, NEW j \in DOMAIN pending, RunJob(j)
  PROVE  TopInv'
<1> DEFINE n    == Len(pending)
           at(k) == IF k < j THEN k ELSE k + 1
<1>1. /\ n \in Nat /\ DOMAIN pending = 1 .. n /\ j \in 1 .. n
  BY Queue
<1>2. /\ UNCHANGED << pc, slot, frame, scene, fed, prepared, dst, nPads, padInfo, fences, background, table,
                      outRow, i >>
      /\ spoiled \subseteq spoiled'
      /\ bgRow' = [x \in Pixels |-> IF x \in pending[j].px THEN pending[j].src ELSE bgRow[x]]
      /\ spoiled' = {} => \A k \in 1 .. j - 1 : pending[k].px \cap pending[j].px = {}
  BY DEF RunJob, threadVars, rgaVars, envVars
<1>3. /\ DOMAIN pending' = 1 .. n - 1
      /\ \A k \in 1 .. n - 1 : at(k) \in 1 .. n /\ at(k) # j /\ pending'[k] = pending[at(k)]
      /\ \A k, l \in 1 .. n - 1 : k < l => at(k) < at(l)
  <2>1. pending' = [k \in 1 .. n - 1 |-> IF k < j THEN pending[k] ELSE pending[k + 1]]
    BY DEF RunJob, Others
  <2>2. DOMAIN pending' = 1 .. n - 1
    BY <2>1
  <2>3. \A k \in 1 .. n - 1 : at(k) \in 1 .. n /\ at(k) # j
    BY <1>1
  <2>4. \A k \in 1 .. n - 1 : pending'[k] = pending[at(k)]
    BY <2>1
  <2>5. \A k, l \in 1 .. n - 1 : k < l => at(k) < at(l)
    BY <1>1
  <2> QED
    BY <2>2, <2>3, <2>4, <2>5
<1>4. \A k \in 1 .. n : k # j => \E l \in 1 .. n - 1 : at(l) = k
  <2> SUFFICES ASSUME NEW k \in 1 .. n, k # j PROVE \E l \in 1 .. n - 1 : at(l) = k
    OBVIOUS
  <2>1. CASE k < j
    <3>1. k \in 1 .. n - 1 /\ at(k) = k
      BY <1>1, <2>1
    <3> QED
      BY <3>1
  <2>2. CASE ~(k < j)
    <3>1. k - 1 \in 1 .. n - 1 /\ at(k - 1) = k
      BY <1>1, <2>2
    <3> QED
      BY <3>1
  <2> QED
    BY <2>1, <2>2
<1> HIDE DEF n, at
<1>5. /\ \A k \in Current' : k \in 1 .. n - 1 /\ at(k) \in Current
      /\ \A k \in 1 .. n - 1 : at(k) \in Current => k \in Current'
  BY <1>1, <1>2, <1>3 DEF Current
<1>6. Ages'
  <2>1. \A k \in DOMAIN pending' : pending'[k].id[1] <= frame
    BY <1>1, <1>3 DEF TopInv, Ages
  <2>2. /\ pc \in {"prepare", "wrap output", "collect", "fill"} => Current' = {}
        /\ pc = "fill" => nPads = 0
    BY <1>5 DEF TopInv, Ages
  <2> QED
    BY <1>2, <2>1, <2>2 DEF Ages
<1>7. Chosen'
  <2>1. \A p : IsShown(p)' <=> IsShown(p)
    BY <1>2, SceneStays
  <2> QED
    BY <1>2, <2>1 DEF TopInv, Chosen
<1>8. OutputWrapped'
  BY <1>2 DEF TopInv, OutputWrapped
<1>9. /\ Sent' = Sent
      /\ \A s : Columns(DrawnRect(padInfo[s]))' = Columns(DrawnRect(padInfo[s]))
      /\ \A s, x : Uppermost(s, x)' <=> Uppermost(s, x)
  <2>1. Sent' = Sent
    BY <1>2 DEF Sent
  <2>2. /\ \A s : DrawnRect(padInfo[s])' = DrawnRect(padInfo[s])
        /\ \A s : Fits(padInfo[s])' <=> Fits(padInfo[s])
    BY <1>2, SceneStays DEF Fits, DrawnRect, Pad
  <2>3. \A s : Columns(DrawnRect(padInfo[s]))' = Columns(DrawnRect(padInfo[s]))
    BY <2>2 DEF Columns
  <2>4. \A s, x : Covers(s, x)' <=> Covers(s, x)
    BY <2>3 DEF Covers
  <2>5. \A s, x : Uppermost(s, x)' <=> Uppermost(s, x)
    BY <2>1, <2>2, <2>4 DEF Uppermost
  <2> QED
    BY <2>1, <2>3, <2>5
<1>10. Queued'
  <2> SUFFICES ASSUME pc \in {"submit", "sync", "copy"}, Undisturbed' PROVE Queued'
    BY <1>2 DEF Queued
  <2>1. Undisturbed
    BY <1>2, UndisturbedWas
  <2>2. ASSUME NEW k \in Current', NEW s, s = pending'[k].id[2]
        PROVE  /\ s \in Sent /\ pending'[k].src = Frame(padInfo[s], frame)
               /\ pending'[k].px = Columns(DrawnRect(padInfo[s])) /\ fences[s] = pending'[k].id
               /\ pc = "sync" => s >= slot
               /\ pc # "copy"
    <3>1. at(k) \in Current /\ pending'[k] = pending[at(k)]
      BY <1>3, <1>5
    <3> QED
      BY <2>1, <2>2, <3>1 DEF TopInv, Queued
  <2>3. ASSUME NEW k \in Current', NEW l \in DOMAIN pending', k < l
        PROVE  l \in Current' /\ pending'[k].id[2] < pending'[l].id[2]
    <3>1. /\ k \in 1 .. n - 1 /\ l \in 1 .. n - 1 /\ at(k) \in Current /\ at(l) \in DOMAIN pending
          /\ pending'[k] = pending[at(k)] /\ pending'[l] = pending[at(l)] /\ at(k) < at(l)
      BY <1>1, <1>3, <1>5, <2>3
    <3>2. at(l) \in Current /\ pending[at(k)].id[2] < pending[at(l)].id[2]
      BY <2>1, <3>1 DEF TopInv, Queued
    <3> QED
      BY <1>5, <3>1, <3>2
  <2> QED
    BY <1>2, <1>9, <2>2, <2>3 DEF Queued, Frame
<1>11. Painted'
  <2> SUFFICES ASSUME pc \in {"submit", "sync", "copy"}, Undisturbed' PROVE Painted'
    BY <1>2 DEF Painted
  <2>1. Undisturbed /\ spoiled' = {}
    BY <1>2, UndisturbedWas
  <2>2. ASSUME NEW x \in Pixels, NEW s \in Sent, Uppermost(s, x)
        PROVE  \/ \E k \in DOMAIN pending' : pending'[k].id = << frame, s >>
               \/ bgRow'[x] = Frame(padInfo[s], frame) /\ \A k \in DOMAIN pending' : x \notin pending'[k].px
    <3>1. \/ \E k \in DOMAIN pending : pending[k].id = << frame, s >>
          \/ bgRow[x] = Frame(padInfo[s], frame) /\ \A k \in DOMAIN pending : x \notin pending[k].px
      BY <2>1, <2>2 DEF TopInv, Painted
    <3>2. CASE pending[j].id = << frame, s >>
      <4>1. j \in Current /\ pending[j].id[2] = s
        BY <3>2 DEF Current
      <4>2. pending[j].src = Frame(padInfo[s], frame) /\ x \in pending[j].px
        BY <2>1, <2>2, <4>1 DEF TopInv, Queued, Uppermost, Covers
      <4>3. bgRow'[x] = Frame(padInfo[s], frame)
        BY <1>2, <4>2
      <4>4. ASSUME NEW k \in DOMAIN pending, k # j
            PROVE  x \notin pending[k].px
        <5>1. CASE k < j
          <6>1. k \in 1 .. j - 1
            BY <1>1, <5>1
          <6> QED
            BY <1>2, <2>1, <4>2, <6>1
        <5>2. CASE j < k
          <6>1. k \in Current /\ s < pending[k].id[2]
            BY <2>1, <4>1, <5>2 DEF TopInv, Queued
          <6>2. pending[k].id[2] \in Sent /\ pending[k].px = Columns(DrawnRect(padInfo[pending[k].id[2]]))
            BY <2>1, <6>1 DEF TopInv, Queued
          <6>3. pending[k].id[2] > s
            BY <6>1
          <6> QED
            BY <2>2, <6>2, <6>3 DEF Uppermost, Covers
        <5> QED
          BY <1>1, <4>4, <5>1, <5>2
      <4>5. \A k \in DOMAIN pending' : x \notin pending'[k].px
        BY <1>1, <1>3, <4>4
      <4> QED
        BY <4>3, <4>5
    <3>3. CASE pending[j].id # << frame, s >> /\ \E k \in DOMAIN pending : pending[k].id = << frame, s >>
      <4>1. PICK k \in DOMAIN pending : pending[k].id = << frame, s >>
        BY <3>3
      <4>2. k # j /\ k \in 1 .. n
        BY <1>1, <3>3, <4>1
      <4>3. PICK l \in 1 .. n - 1 : at(l) = k
        BY <1>4, <4>2
      <4>4. l \in DOMAIN pending' /\ pending'[l].id = << frame, s >>
        BY <1>3, <4>1, <4>3
      <4> QED
        BY <4>4
    <3>4. CASE bgRow[x] = Frame(padInfo[s], frame) /\ \A k \in DOMAIN pending : x \notin pending[k].px
      <4>1. bgRow'[x] = bgRow[x]
        BY <1>2, <3>4
      <4>2. \A k \in DOMAIN pending' : x \notin pending'[k].px
        BY <1>1, <1>3, <3>4
      <4> QED
        BY <3>4, <4>1, <4>2
    <3> QED
      BY <3>1, <3>2, <3>3, <3>4
  <2> QED
    BY <1>2, <1>9, <2>2 DEF Painted, Frame
<1>12. Copied'
  <2> SUFFICES ASSUME pc \in {"unwrap", "delivered"}, Undisturbed' PROVE Copied'
    BY <1>2 DEF Copied
  <2>1. Undisturbed /\ (\A x : Shows(x)' = Shows(x)) /\ \A p : Fits(p)' <=> Fits(p)
    BY <1>2, UndisturbedWas, SceneStays
  <2>2. \A x \in Pixels : \A p \in Shows(x) :
          (\A q \in Shows(x) : q <= p) /\ scene[p].alpha = 100 /\ Fits(p) => outRow[x] = Frame(p, frame)
    BY <2>1 DEF TopInv, Copied
  <2> QED
    BY <1>2, <2>1, <2>2 DEF Copied, Frame
<1> QED
  BY <1>6, <1>7, <1>8, <1>10, <1>11, <1>12 DEF TopInv

LEMMA NothingHappensKeepsTop ==
  ASSUME TopInv, UNCHANGED vars
  PROVE  TopInv'
<1>1. UNCHANGED << pc, i, slot, frame, scene, fed, prepared, dst, nPads, padInfo, fences, background, table,
                   pending, bgRow, outRow, spoiled >>
  BY DEF vars, threadVars, rgaVars, rowVars, envVars
<1>2. Ages' /\ OutputWrapped'
  BY <1>1 DEF TopInv, Ages, OutputWrapped, Current
<1>3. /\ \A p : IsShown(p)' <=> IsShown(p)
      /\ \A p : Fits(p)' <=> Fits(p)
      /\ \A x : Shows(x)' = Shows(x)
  BY <1>1, SceneStays
<1>4. Chosen'
  BY <1>1, <1>3 DEF TopInv, Chosen
<1>5. Undisturbed' <=> Undisturbed
  BY <1>1, <1>3 DEF Undisturbed, HandleLive
<1>6. /\ Sent' = Sent /\ Current' = Current
      /\ \A s : Columns(DrawnRect(padInfo[s]))' = Columns(DrawnRect(padInfo[s]))
      /\ \A s, x : Uppermost(s, x)' <=> Uppermost(s, x)
  <2>1. Sent' = Sent /\ Current' = Current
    BY <1>1 DEF Sent, Current
  <2>2. /\ \A s : Columns(DrawnRect(padInfo[s]))' = Columns(DrawnRect(padInfo[s]))
        /\ \A s : Fits(padInfo[s])' <=> Fits(padInfo[s])
    BY <1>1, SceneStays DEF Fits, DrawnRect, Pad, Columns
  <2>3. \A s, x : Covers(s, x)' <=> Covers(s, x)
    BY <2>2 DEF Covers
  <2>4. \A s, x : Uppermost(s, x)' <=> Uppermost(s, x)
    BY <2>1, <2>2, <2>3 DEF Uppermost
  <2> QED
    BY <2>1, <2>2, <2>4
<1>7. Queued'
  BY <1>1, <1>5, <1>6 DEF TopInv, Queued, Frame
<1>8. Painted'
  BY <1>1, <1>5, <1>6 DEF TopInv, Painted, Frame
<1>9. Copied'
  BY <1>1, <1>3, <1>5 DEF TopInv, Copied, Frame
<1> QED
  BY <1>2, <1>4, <1>7, <1>8, <1>9 DEF TopInv

LEMMA StepKeepsTop ==
  ASSUME IInv, TopInv, [Next]_vars
  PROVE  TopInv'
<1>1. CASE UNCHANGED vars
  BY <1>1, NothingHappensKeepsTop
<1>2. CASE Negotiate \/ Stop \/ Finalize \/ FinalizeDangling \/ Finish
  BY <1>2, QuietKeepsTop
<1>3. CASE \E images \in SUBSET Pads : StartFrame(images)
  BY <1>3, StartFrameKeepsTop
<1>4. CASE PrepareFrameStart
  BY <1>4, PrepareKeepsTop
<1>5. CASE WrapOutput
  BY <1>5, WrapOutputKeepsTop
<1>6. CASE CollectFrame
  BY <1>6, CollectKeepsTop
<1>7. CASE SkipUnprepared
  BY <1>7, SkipKeepsTop
<1>8. CASE Submit \/ SubmitUnset
  BY <1>8, SubmitKeepsTop
<1>9. CASE SubmitDone \/ SyncProcess \/ SyncDone
  BY <1>9, WaitingKeepsTop
<1>10. CASE BgFill \/ BgCopy
  BY <1>10, FillKeepsTop, CopyKeepsTop
<1>11. CASE Unwrap
  BY <1>11, UnwrapKeepsTop
<1>12. CASE Rga
  BY <1>12, RunJobKeepsTop DEF Rga
<1>13. CASE \E p \in Pads, s \in Scenes : SetProperty(p, s)
  BY <1>13, SetPropertyKeepsTop
<1> QED
  BY <1>1, <1>2, <1>3, <1>4, <1>5, <1>6, <1>7, <1>8, <1>9, <1>10, <1>11, <1>12, <1>13 DEF Next, Thread

(***************************************************************************)
(* A frame composed without a failure, a change of a property or a job     *)
(* that was overtaken shows, at every pixel where the topmost pad is       *)
(* opaque and its rectangle fits the output, the current frame of that     *)
(* pad: neither the frames left out as hidden                              *)
(* (gst_compositor_pad_prepare_frame_start) nor the RGA's cores running    *)
(* the jobs in any order hide what should be seen                          *)
(***************************************************************************)
THEOREM TopmostIsSeen == Spec => []TopmostShown
<1>1. IInv /\ TopInv /\ [Next]_vars => IInv' /\ TopInv'
  BY StepKeeps, StepKeepsTop
<1>2. TopInv => TopmostShown
  BY DEF TopInv, Copied, TopmostShown, Fits
<1> QED
  BY <1>1, <1>2, Initially, InitiallyTop, PTL DEF Spec
=============================================================================
