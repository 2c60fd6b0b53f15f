----------------------------- MODULE RgaContext -----------------------------
(***************************************************************************)
(* RkrgaContext (rkrga.cpp) and the DMA buffers of rga_dma_alloc.cpp: what *)
(* a context holds, and what the process holds on its behalf. wrap and     *)
(* unwrap are functions of the context and of the table of live resources, *)
(* with the outcome of the system calls as a parameter; their result is    *)
(* the new context, the new table and the boolean the code returns.        *)
(*                                                                         *)
(* A buffer stands for its handle, its mapping and its DMA memory as well: *)
(* each of the three is made for one buffer and lives in its own table.    *)
(***************************************************************************)
EXTENDS Naturals

CONSTANTS
  Buffers,    \* what can be wrapped: frames, output and background buffers
  None        \* an empty field

(***************************************************************************)
(* The members of struct RkrgaContext. rgabuf tells which buffer the RGA   *)
(* is pointed at: no operation clears it.                                  *)
(***************************************************************************)
Contexts ==
  [handle : Buffers \cup {None}, buffer : Buffers \cup {None},
   dma : Buffers \cup {None}, size : Buffers \cup {None}, rgabuf : Buffers \cup {None}]

Empty == [handle |-> None, buffer |-> None, dma |-> None, size |-> None, rgabuf |-> None]

(***************************************************************************)
(* What the process holds: imported handles, mappings of GstBuffers, DMA   *)
(* buffers with their file descriptor, and descriptors nobody remembers.   *)
(***************************************************************************)
Tables == [handles : SUBSET Buffers, maps : SUBSET Buffers, dmas : SUBSET Buffers, strays : Nat]

NothingHeld == [handles |-> {}, maps |-> {}, dmas |-> {}, strays |-> 0]

Result(c, t, ok) == [ctx |-> c, table |-> t, ok |-> ok]

-----------------------------------------------------------------------------
(***************************************************************************)
(* The import both wrap functions begin with: a buffer that is one         *)
(* dma-buf is imported by its descriptor, any other is mapped first.       *)
(***************************************************************************)
Mapped(c, isDmabuf, b) == IF isDmabuf THEN c ELSE [c EXCEPT !.buffer = b]

MappedTable(t, isDmabuf, b) == IF isDmabuf THEN t ELSE [t EXCEPT !.maps = @ \cup {b}]

Imported(c, t, isDmabuf, b) ==
  Result([Mapped(c, isDmabuf, b) EXCEPT !.handle = b, !.rgabuf = b],
         [MappedTable(t, isDmabuf, b) EXCEPT !.handles = @ \cup {b}], TRUE)

(***************************************************************************)
(* wrap of a GstVideoFrame: a context that has a handle is left as it is;  *)
(* a failed import keeps the mapping. _inter_set_rga_rect cannot fail for  *)
(* the formats of the pad templates.                                       *)
(***************************************************************************)
WrapFrame(c, t, b, isDmabuf, imports) ==
  CASE c.handle # None              -> Result(c, t, TRUE)
    [] c.handle = None /\ imports   -> Imported(c, t, isDmabuf, b)
    [] c.handle = None /\ ~imports  ->
         Result(Mapped(c, isDmabuf, b), MappedTable(t, isDmabuf, b), FALSE)

(***************************************************************************)
(* wrap of a GstBuffer: the same, but the code goes on without a handle    *)
(* and reports success (the "return false" is commented out)               *)
(***************************************************************************)
WrapBuffer(c, t, b, isDmabuf, imports) ==
  CASE c.handle # None              -> Result(c, t, TRUE)
    [] c.handle = None /\ imports   -> Imported(c, t, isDmabuf, b)
    [] c.handle = None /\ ~imports  ->
         Result([Mapped(c, isDmabuf, b) EXCEPT !.rgabuf = None],
                MappedTable(t, isDmabuf, b), TRUE)

\* mutant: returns at once with a handle, as the other two do
WrapDmabufOnce(c, t, b, outcome) ==
  IF c.handle # None THEN Result(c, t, TRUE)
  ELSE Result([c EXCEPT !.dma = b, !.handle = b, !.rgabuf = b],
              [t EXCEPT !.dmas = @ \cup {b}, !.handles = @ \cup {b}], TRUE)

(***************************************************************************)
(* wrap_dmabuf with dma_buf_alloc: it does not look at what the context    *)
(* holds. The size is remembered before anything is allocated; a failing   *)
(* ioctl leaves the descriptor of the heap open, a failing mmap that and   *)
(* the descriptor of the buffer; a failing import writes handle_ 0.        *)
(***************************************************************************)
DmaOutcomes == {"ok", "open fails", "ioctl fails", "mmap fails", "import fails"}

Strays(outcome) ==
  CASE outcome = "ioctl fails" -> 1 [] outcome = "mmap fails" -> 2 [] OTHER -> 0

WrapDmabuf(c, t, b, outcome) ==
  LET sized == [c EXCEPT !.size = b]
  IN  CASE outcome = "ok" ->
             Result([sized EXCEPT !.dma = b, !.handle = b, !.rgabuf = b],
                    [t EXCEPT !.dmas = @ \cup {b}, !.handles = @ \cup {b}], TRUE)
        [] outcome = "import fails" ->
             Result([sized EXCEPT !.dma = b, !.handle = None],
                    [t EXCEPT !.dmas = @ \cup {b}], FALSE)
        [] OTHER ->
             Result(sized, [t EXCEPT !.strays = @ + Strays(outcome)], FALSE)

\* mutants: the handle stays set; the DMA memory stays allocated
UnwrappedWithHandle(c) == [c EXCEPT !.buffer = None, !.dma = None]

WithoutDmabuf(t, c) ==
  [t EXCEPT !.handles = @ \ {c.handle}, !.maps = @ \ {c.buffer}]

(***************************************************************************)
(* unwrap, also the destructor: release what the context holds. mapflag_   *)
(* has been set by the wrap that set buffer_. dma_buf_free unmaps the size *)
(* the context remembers.                                                  *)
(***************************************************************************)
Unwrapped(c) == [c EXCEPT !.handle = None, !.buffer = None, !.dma = None]

Without(t, c) ==
  [t EXCEPT !.handles = @ \ {c.handle}, !.maps = @ \ {c.buffer}, !.dmas = @ \ {c.dma}]

Holds(c, t) ==
  /\ c.handle \in t.handles \cup {None}
  /\ c.buffer \in t.maps \cup {None}
  /\ c.dma \in t.dmas \cup {None}
=============================================================================
