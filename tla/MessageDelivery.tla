-------------------------- MODULE MessageDelivery --------------------------
(***************************************************************************)
(* What the message bus promises its users: a message sent is delivered at *)
(* most once, to its destination, not before its time, and in order: the   *)
(* immediate messages of one sender in the order it sent them, the delayed *)
(* messages in the order of their times.                                   *)
(***************************************************************************)
EXTENDS Naturals, Sequences, FiniteSets

CONSTANTS Threads, Callers, Delays

VARIABLES now, pending, delivered, lost, count

dvars == <<now, pending, delivered, lost, count>>

Init ==
  /\ now = 0
  /\ pending = {}
  /\ delivered = [t \in Threads |-> <<>>]
  /\ lost = {}
  /\ count = 0

Send(src, dst, delay) ==
  /\ pending' = pending \cup
       {[id |-> count, src |-> src, dst |-> dst, due |-> now + delay, delayed |-> delay # 0]}
  /\ count' = count + 1
  /\ UNCHANGED <<now, delivered, lost>>

\* m was sent before n and must not be overtaken by it.
Precedes(m, n) ==
  /\ m.id < n.id
  /\ m.dst = n.dst
  /\ \/ m.src = n.src /\ ~m.delayed /\ ~n.delayed
     \/ m.delayed /\ n.delayed /\ m.due < n.due

Deliver(m) ==
  /\ m \in pending
  /\ m.due <= now
  /\ \A n \in pending : ~Precedes(n, m)
  /\ pending' = pending \ {m}
  /\ delivered' = [delivered EXCEPT ![m.dst] = Append(@, m)]
  /\ UNCHANGED <<now, lost, count>>

Lose(m) ==
  /\ m \in pending
  /\ pending' = pending \ {m}
  /\ lost' = lost \cup {m}
  /\ UNCHANGED <<now, delivered, count>>

Tick ==
  /\ now' = now + 1
  /\ UNCHANGED <<pending, delivered, lost, count>>

Next ==
  \/ \E src \in Callers, dst \in Threads, delay \in Delays \cup {0} : Send(src, dst, delay)
  \/ \E m \in pending : Deliver(m) \/ Lose(m)
  \/ Tick

Spec == Init /\ [][Next]_dvars
=============================================================================
