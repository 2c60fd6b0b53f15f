----------------------- MODULE MessageDeliveryProofs -----------------------
(***************************************************************************)
(* Why the message bus keeps the promise of MessageDelivery, for every     *)
(* number of threads, messages and delays: a message is in one place of    *)
(* the way delayed queue, main queue, distributor, worker queue, worker,   *)
(* and none that must come first is behind it on that way.                 *)
(***************************************************************************)
EXTENDS MessageBusProofs

\* m may be handled after n.
MayFollow(m, n) == m # n /\ ~Delivery!Precedes(m, n)

InOrder(s) == \A i, j \in DOMAIN s : i < j => MayFollow(s[j], s[i])

\* What the place of a message says about it.
Places ==
  /\ \A c \in Callers : \A m \in Elems(queue[c]) : m.src = c /\ ~m.delayed
  /\ \A m \in Elems(queue[Manager]) : m.delayed
  /\ \A m \in delayed : m.delayed
  /\ \A t \in Threads : \A m \in Elems(inbox[t]) : m.dst = t
  /\ \A t \in Threads : wmsg[t] # NoMsg => wmsg[t].dst = t
  /\ \A m \in Pending : m.id < sent

\* No message is in two places or behind one it must precede.
Order ==
  /\ \A p \in Producers : InOrder(queue[p])
  /\ \A t \in Threads : InOrder(inbox[t])
  /\ \A m \in delayed : \A n \in Queued \cup Routing \cup Inboxed \cup InHand : MayFollow(m, n)
  /\ \A m \in Queued : \A n \in Routing \cup Inboxed \cup InHand : MayFollow(m, n)
  /\ \A m \in Routing : \A n \in Inboxed \cup InHand : MayFollow(m, n)
  /\ \A m \in Inboxed : \A n \in InHand : MayFollow(m, n)

WayInv == TypeInv /\ Places /\ Order

-----------------------------------------------------------------------------
(* Sequences and places *)

\* What Append and Tail do to the elements of a queue.
LEMMA ElemsAppendIs ==
  ASSUME NEW S, NEW s \in Seq(S), NEW x \in S
  PROVE  Elems(Append(s, x)) = Elems(s) \cup {x}
<1>1. x \in Elems(Append(s, x))
  <2>1. Len(s) + 1 \in DOMAIN Append(s, x) /\ Append(s, x)[Len(s) + 1] = x
    OBVIOUS
  <2> QED
    BY <2>1 DEF Elems
<1>2. ASSUME NEW i \in DOMAIN s PROVE s[i] \in Elems(Append(s, x))
  <2>1. i \in DOMAIN Append(s, x) /\ Append(s, x)[i] = s[i]
    OBVIOUS
  <2> QED
    BY <2>1 DEF Elems
<1> QED
  BY <1>1, <1>2, ElemsAppend DEF Elems

LEMMA ElemsTailIs ==
  ASSUME NEW S, NEW s \in Seq(S), s # <<>>
  PROVE  Elems(s) = Elems(Tail(s)) \cup {Head(s)}
<1>1. ASSUME NEW i \in DOMAIN s PROVE s[i] \in Elems(Tail(s)) \cup {Head(s)}
  <2>1. CASE i = 1
    BY <2>1
  <2>2. CASE i # 1
    <3>1. i - 1 \in DOMAIN Tail(s) /\ Tail(s)[i - 1] = s[i]
      BY <2>2
    <3> QED
      BY <3>1 DEF Elems
  <2> QED
    BY <2>1, <2>2
<1> QED
  BY <1>1, ElemsTail DEF Elems

\* Append keeps the order of a queue if the new message may follow those in it.
LEMMA AppendInOrder ==
  ASSUME NEW S, NEW s \in Seq(S), NEW x \in S, InOrder(s),
         \A n \in Elems(s) : MayFollow(x, n)
  PROVE  InOrder(Append(s, x))
<1> DEFINE a == Append(s, x)
<1>1. /\ DOMAIN s = 1..Len(s) /\ DOMAIN a = 1..Len(s) + 1 /\ Len(s) \in Nat
      /\ a[Len(s) + 1] = x /\ \A i \in 1..Len(s) : a[i] = s[i]
  OBVIOUS
<1> HIDE DEF a
<1>2. ASSUME NEW i \in DOMAIN a, NEW j \in DOMAIN a, i < j PROVE MayFollow(a[j], a[i])
  <2>1. i \in DOMAIN s /\ a[i] = s[i] /\ (j \in DOMAIN s \/ j = Len(s) + 1)
    BY <1>1, <1>2
  <2>2. CASE j \in DOMAIN s
    BY <1>1, <1>2, <2>1, <2>2 DEF InOrder
  <2>3. CASE j = Len(s) + 1
    BY <1>1, <2>1, <2>3 DEF Elems
  <2> QED
    BY <2>1, <2>2, <2>3
<1> QED
  BY <1>2 DEF InOrder, a

\* What is left of a queue may follow the message taken out.
LEMMA TailInOrder ==
  ASSUME NEW S, NEW s \in Seq(S), s # <<>>, InOrder(s)
  PROVE  /\ InOrder(Tail(s))
         /\ \A m \in Elems(Tail(s)) : MayFollow(m, Head(s))
<1> DEFINE r == Tail(s)
<1>1. /\ DOMAIN s = 1..Len(s) /\ DOMAIN r = 1..Len(s) - 1 /\ Len(s) \in Nat
      /\ Head(s) = s[1] /\ \A i \in 1..Len(s) - 1 : r[i] = s[i + 1]
  OBVIOUS
<1> HIDE DEF r
<1>2. ASSUME NEW i \in DOMAIN r
      PROVE  i + 1 \in DOMAIN s /\ r[i] = s[i + 1] /\ 1 \in DOMAIN s /\ 1 < i + 1
  BY <1>1
<1>3. ASSUME NEW i \in DOMAIN r, NEW j \in DOMAIN r, i < j PROVE MayFollow(r[j], r[i])
  <2>1. i + 1 < j + 1
    BY <1>1, <1>3
  <2> QED
    BY <1>2, <2>1 DEF InOrder
<1>4. ASSUME NEW i \in DOMAIN r PROVE MayFollow(r[i], Head(s))
  BY <1>1, <1>2 DEF InOrder
<1> QED
  BY <1>3, <1>4 DEF InOrder, Elems, r

\* Enqueueing adds one message to the main queue.
LEMMA QueuedEnqueue ==
  ASSUME TypeOK, NEW p \in Producers, NEW m \in Msg, Enqueue(p, m)
  PROVE  /\ queue'[p] = Append(queue[p], m)
         /\ Elems(queue'[p]) = Elems(queue[p]) \cup {m}
         /\ \A q \in Producers \ {p} : queue'[q] = queue[q]
         /\ Queued' = Queued \cup {m}
<1>1. /\ queue'[p] = Append(queue[p], m)
      /\ \A q \in Producers \ {p} : queue'[q] = queue[q]
  BY DEF TypeOK, Enqueue
<1>2. Elems(queue'[p]) = Elems(queue[p]) \cup {m}
  <2>1. queue[p] \in Seq(Msg)
    BY DEF TypeOK
  <2> QED
    BY <1>1, <2>1, ElemsAppendIs
<1>3. \A q \in Producers \ {p} : Elems(queue'[q]) = Elems(queue[q])
  BY <1>1
<1>4. Queued' = Queued \cup {m}
  BY <1>2, <1>3 DEF Queued
<1> QED
  BY <1>1, <1>2, <1>4

\* Dequeueing takes one message out of it.
LEMMA QueuedDequeue ==
  ASSUME TypeOK, NEW p \in Producers, queue[p] # <<>>,
         queue' = [queue EXCEPT ![p] = Tail(@)]
  PROVE  /\ queue'[p] = Tail(queue[p])
         /\ Elems(queue[p]) = Elems(queue'[p]) \cup {Head(queue[p])}
         /\ \A q \in Producers \ {p} : queue'[q] = queue[q]
         /\ Queued = Queued' \cup {Head(queue[p])}
<1>1. /\ queue'[p] = Tail(queue[p])
      /\ \A q \in Producers \ {p} : queue'[q] = queue[q]
  BY DEF TypeOK
<1>2. Elems(queue[p]) = Elems(queue'[p]) \cup {Head(queue[p])}
  <2>1. queue[p] \in Seq(Msg)
    BY DEF TypeOK
  <2> QED
    BY <1>1, <2>1, ElemsTailIs
<1>3. \A q \in Producers \ {p} : Elems(queue'[q]) = Elems(queue[q])
  BY <1>1
<1>4. Queued = Queued' \cup {Head(queue[p])}
  BY <1>2, <1>3 DEF Queued
<1> QED
  BY <1>1, <1>2, <1>4

\* The messages in every place are messages.
LEMMA PendingType ==
  ASSUME TypeInv
  PROVE  /\ Pending \subseteq Msg
         /\ dpc = "route" => Routing = {dmsg} /\ dmsg \in Msg
         /\ dpc # "route" => Routing = {}
<1>1. Queued \subseteq Msg /\ Inboxed \subseteq Msg
  <2>1. \A p \in Producers : Elems(queue[p]) \subseteq Msg
    BY ElemsType DEF TypeInv, TypeOK
  <2>2. \A t \in Threads : Elems(inbox[t]) \subseteq Msg
    BY ElemsType DEF TypeInv, TypeOK
  <2> QED
    BY <2>1, <2>2 DEF Queued, Inboxed
<1>2. InHand \subseteq Msg
  BY DEF InHand, TypeInv, TypeOK
<1>3. dpc = "route" => dmsg \in Msg
  BY DEF TypeInv, TypeOK, HoldsWhileBusy
<1> QED
  BY <1>1, <1>2, <1>3 DEF Pending, Routing, TypeInv, TypeOK

\* Messages of two queues have nothing to do with each other.
LEMMA QueuesApart ==
  ASSUME Places, NEW p \in Producers, NEW q \in Producers, p # q,
         NEW m \in Elems(queue[p]), NEW n \in Elems(queue[q])
  PROVE  MayFollow(m, n)
<1>1. p = Manager \/ p \in Callers
  BY DEF Producers
<1>2. q = Manager \/ q \in Callers
  BY DEF Producers
<1> QED
  BY <1>1, <1>2, ConstantsAssumption
  DEF Places, MayFollow, Delivery!Precedes, ConstantsAssumption

LEMMA InboxesApart ==
  ASSUME Places, NEW t \in Threads, NEW u \in Threads, t # u,
         NEW m \in Elems(inbox[t]), NEW n \in Elems(inbox[u])
  PROVE  MayFollow(m, n)
BY DEF Places, MayFollow, Delivery!Precedes

\* A new message may follow every message before it.
LEMMA NewMayFollow ==
  ASSUME TypeInv, Places, NEW m \in Msg, m.id = sent, NEW n \in Pending
  PROVE  MayFollow(m, n)
<1>1. n \in Msg /\ n.id < sent /\ sent \in Nat /\ n.id \in Nat
  BY PendingType DEF Places, TypeInv, TypeOK, Msg
<1> QED
  BY <1>1 DEF MayFollow, Delivery!Precedes

-----------------------------------------------------------------------------
(* The steps that move a message.  Each says what becomes of the places, that *)
(* the invariant is kept, and which step of MessageDelivery it is.            *)

\* A message leaves the delayed queue when none of it is due before.
LEMMA DrainOneKeeps ==
  ASSUME WayInv, DrainOne
  PROVE  Places' /\ Order' /\ Pending' = Pending
<1> USE DEF WayInv, TypeInv
<1>1. PICK m \in delayed : /\ IsTop(m, delayed)
                           /\ delayed' = delayed \ {m}
                           /\ Enqueue(Manager, m)
  BY DEF DrainOne
<1>2. UNCHANGED <<dpc, dmsg, inbox, wmsg, sent>>
  BY DEF DrainOne, workerVars, callerVars
<1>3. m \in Msg /\ Manager \in Producers
  BY <1>1 DEF TypeOK, Producers
<1>4. /\ queue'[Manager] = Append(queue[Manager], m)
      /\ Elems(queue'[Manager]) = Elems(queue[Manager]) \cup {m}
      /\ \A q \in Producers \ {Manager} : queue'[q] = queue[q]
      /\ Queued' = Queued \cup {m}
  BY <1>1, <1>3, QueuedEnqueue
<1>5. Routing' = Routing /\ Inboxed' = Inboxed /\ InHand' = InHand
  BY <1>2 DEF Routing, Inboxed, InHand
<1>6. Pending' = Pending
  BY <1>1, <1>4, <1>5 DEF Pending
<1>7. Places'
  <2>1. \A c \in Callers : queue'[c] = queue[c]
    BY <1>4, ConstantsAssumption DEF ConstantsAssumption, Producers
  <2>2. \A c \in Callers : \A n \in Elems(queue'[c]) : n.src = c /\ ~n.delayed
    BY <2>1 DEF Places
  <2>3. \A n \in Elems(queue'[Manager]) : n.delayed
    BY <1>1, <1>4 DEF Places
  <2>4. \A n \in delayed' : n.delayed
    BY <1>1 DEF Places
  <2> QED
    BY <1>2, <1>6, <2>2, <2>3, <2>4 DEF Places
<1>8. \A n \in delayed' : MayFollow(n, m)
  <2>1. TAKE n \in delayed'
  <2>2. n \in Msg /\ n # m /\ m.due <= n.due /\ m.due \in Nat /\ n.due \in Nat
    BY <1>1, <1>3 DEF IsTop, Msg, TypeOK
  <2>3. n.delayed /\ m.delayed
    BY <1>1 DEF Places
  <2> QED
    BY <2>2, <2>3 DEF MayFollow, Delivery!Precedes
<1>9. \A n \in Elems(queue[Manager]) : MayFollow(m, n)
  BY <1>1, <1>3 DEF Order, Queued
<1>10. \A p \in Producers : InOrder(queue'[p])
  <2>1. InOrder(queue'[Manager])
    <3>1. queue[Manager] \in Seq(Msg) /\ InOrder(queue[Manager])
      BY <1>3 DEF TypeOK, Order
    <3> QED
      BY <1>3, <1>4, <1>9, <3>1, AppendInOrder
  <2> QED
    BY <1>4, <2>1 DEF Order
<1>11. Order'
  BY <1>1, <1>2, <1>4, <1>5, <1>8, <1>10 DEF Order
<1> QED
  BY <1>6, <1>7, <1>11

\* The distributor takes the oldest message of one producer.
LEMMA DequeueKeeps ==
  ASSUME WayInv, dpc = "deq", NEW p \in Producers, queue[p] # <<>>,
         dmsg' = Head(queue[p]), queue' = [queue EXCEPT ![p] = Tail(@)],
         dpc' = "route", UNCHANGED <<delayed, inbox, wmsg, sent>>
  PROVE  Places' /\ Order' /\ Pending' = Pending
<1> USE DEF WayInv, TypeInv
<1> DEFINE m == Head(queue[p])
<1>1. /\ queue'[p] = Tail(queue[p])
      /\ Elems(queue[p]) = Elems(queue'[p]) \cup {m}
      /\ \A q \in Producers \ {p} : queue'[q] = queue[q]
      /\ Queued = Queued' \cup {m}
  BY QueuedDequeue
<1>2. Routing = {} /\ Routing' = {m} /\ Inboxed' = Inboxed /\ InHand' = InHand
  BY DEF Routing, Inboxed, InHand
<1>3. queue[p] \in Seq(Msg) /\ InOrder(queue[p])
  BY DEF TypeOK, Order
<1>4. InOrder(queue'[p]) /\ \A n \in Elems(queue'[p]) : MayFollow(n, m)
  BY <1>1, <1>3, TailInOrder
<1> HIDE DEF m
<1>5. Pending' = Pending
  BY <1>1, <1>2 DEF Pending
<1>6. \A q \in Producers : Elems(queue'[q]) \subseteq Elems(queue[q])
  BY <1>1
<1>7. Places'
  BY <1>5, <1>6 DEF Places, Producers
<1>8. \A n \in Queued' : MayFollow(n, m)
  <2>1. TAKE n \in Queued'
  <2>2. PICK q \in Producers : n \in Elems(queue'[q])
    BY DEF Queued
  <2>3. CASE q = p
    BY <1>4, <2>2, <2>3
  <2>4. CASE q # p
    BY <1>1, <2>2, <2>4, QueuesApart
  <2> QED
    BY <2>3, <2>4
<1>9. \A q \in Producers : InOrder(queue'[q])
  BY <1>1, <1>4 DEF Order
<1>10. Order'
  BY <1>1, <1>2, <1>8, <1>9 DEF Order
<1> QED
  BY <1>5, <1>7, <1>10

\* The distributor fills the queue of the destination.
LEMMA RouteKeeps ==
  ASSUME WayInv, DistributorRoute, HasRoom(dmsg.dst)
  PROVE  Places' /\ Order' /\ Pending' = Pending
<1> USE DEF WayInv, TypeInv
<1> DEFINE u == dmsg.dst
<1>1. /\ dpc = "route" /\ dpc' = "notify"
      /\ inbox' = [inbox EXCEPT ![u] = Append(@, dmsg)]
      /\ UNCHANGED <<delayed, queue, wmsg, dmsg, sent>>
  BY DEF DistributorRoute, callerVars
<1>2. dmsg \in Msg /\ u \in Threads
  BY <1>1 DEF HoldsWhileBusy, TypeOK, Msg
<1>3. inbox[u] \in Seq(Msg) /\ InOrder(inbox[u])
  BY <1>2 DEF TypeOK, Order
<1>4. /\ inbox'[u] = Append(inbox[u], dmsg)
      /\ \A t \in Threads \ {u} : inbox'[t] = inbox[t]
  BY <1>1, <1>2 DEF TypeOK
<1>5. Elems(inbox'[u]) = Elems(inbox[u]) \cup {dmsg}
  BY <1>2, <1>3, <1>4, ElemsAppendIs
<1>6. Routing = {dmsg} /\ Routing' = {} /\ Queued' = Queued /\ InHand' = InHand
  BY <1>1 DEF Routing, Queued, InHand
<1>7. Inboxed' = Inboxed \cup {dmsg}
  <2>1. \A t \in Threads \ {u} : Elems(inbox'[t]) = Elems(inbox[t])
    BY <1>4
  <2> QED
    BY <1>2, <1>5, <2>1 DEF Inboxed
<1>8. Pending' = Pending
  BY <1>1, <1>6, <1>7 DEF Pending
<1>9. Places'
  <2>1. ASSUME NEW t \in Threads, NEW m \in Elems(inbox'[t]) PROVE m.dst = t
    <3>1. CASE t = u
      BY <1>5, <3>1 DEF Places
    <3>2. CASE t # u
      <4>1. inbox'[t] = inbox[t]
        BY <1>4, <3>2
      <4> QED
        BY <2>1, <4>1 DEF Places
    <3> QED
      BY <3>1, <3>2
  <2> QED
    BY <1>1, <1>8, <2>1 DEF Places
<1>10. \A n \in Elems(inbox[u]) : MayFollow(dmsg, n)
  BY <1>2, <1>6 DEF Order, Inboxed
<1>11. \A t \in Threads : InOrder(inbox'[t])
  <2>1. InOrder(inbox'[u])
    BY <1>2, <1>3, <1>4, <1>10, AppendInOrder
  <2> QED
    BY <1>4, <2>1 DEF Order
<1>12. Order'
  BY <1>1, <1>6, <1>7, <1>11 DEF Order
<1> QED
  BY <1>8, <1>9, <1>12

\* It throws away what a full queue does not take.
LEMMA DropKeeps ==
  ASSUME WayInv, DistributorRoute, ~HasRoom(dmsg.dst)
  PROVE  Places' /\ Order' /\ Delivery!Next
<1> USE DEF WayInv, TypeInv
<1>1. /\ dpc = "route" /\ dpc' = "deq" /\ dropped' = dropped \cup {dmsg}
      /\ UNCHANGED <<now, delayed, queue, inbox, wmsg, handled, sent>>
  BY DEF DistributorRoute, callerVars
<1>2. /\ Routing = {dmsg} /\ Routing' = {} /\ Queued' = Queued
      /\ Inboxed' = Inboxed /\ InHand' = InHand
  BY <1>1 DEF Routing, Queued, Inboxed, InHand
<1>3. Pending' = Pending \ {dmsg} /\ dmsg \in Pending
  <2>1. /\ \A m \in delayed \cup Queued : m # dmsg
        /\ \A n \in Inboxed \cup InHand : dmsg # n
    BY <1>2 DEF Order, MayFollow
  <2> QED
    BY <1>1, <1>2, <2>1 DEF Pending
<1>4. Places' /\ Order'
  BY <1>1, <1>2, <1>3 DEF Places, Order
<1>5. Delivery!Lose(dmsg)
  BY <1>1, <1>3 DEF Delivery!Lose
<1> QED
  BY <1>3, <1>4, <1>5 DEF Delivery!Next

\* A worker takes the oldest message of its queue.
LEMMA TakeKeeps ==
  ASSUME WayInv, NEW t \in Threads, WorkerPredicate(t), inbox[t] # <<>>
  PROVE  Places' /\ Order' /\ Pending' = Pending
<1> USE DEF WayInv, TypeInv
<1> DEFINE m == Head(inbox[t])
<1>1. /\ wmsg' = [wmsg EXCEPT ![t] = m]
      /\ inbox' = [inbox EXCEPT ![t] = Tail(@)]
      /\ UNCHANGED <<delayed, queue, dpc, dmsg, sent>>
      /\ wmsg[t] = NoMsg
  BY DEF WorkerPredicate, callerVars, HoldsWhileBusy
<1>2. inbox[t] \in Seq(Msg) /\ InOrder(inbox[t])
  BY DEF TypeOK, Order
<1>3. /\ inbox'[t] = Tail(inbox[t])
      /\ \A u \in Threads \ {t} : inbox'[u] = inbox[u]
      /\ wmsg'[t] = m
      /\ \A u \in Threads \ {t} : wmsg'[u] = wmsg[u]
  BY <1>1 DEF TypeOK
<1>4. /\ Elems(inbox[t]) = Elems(inbox'[t]) \cup {m}
      /\ m \in Msg
      /\ InOrder(inbox'[t])
      /\ \A n \in Elems(inbox'[t]) : MayFollow(n, m)
  BY <1>2, <1>3, ElemsTail, ElemsTailIs, TailInOrder
<1> HIDE DEF m
<1>5. Inboxed = Inboxed' \cup {m}
  <2>1. \A u \in Threads \ {t} : Elems(inbox'[u]) = Elems(inbox[u])
    BY <1>3
  <2> QED
    BY <1>4, <2>1 DEF Inboxed
<1>6. InHand' = InHand \cup {m}
  <2>1. m # NoMsg
    BY <1>4, ConstantsAssumption DEF ConstantsAssumption
  <2>2. \A n : n \in InHand' <=> n \in InHand \/ n = m
    BY <1>1, <1>3, <2>1 DEF InHand
  <2> QED
    BY <2>2
<1>7. Queued' = Queued /\ Routing' = Routing
  BY <1>1 DEF Queued, Routing
<1>8. Pending' = Pending
  BY <1>1, <1>5, <1>6, <1>7 DEF Pending
<1>9. Places'
  <2>1. \A u \in Threads : Elems(inbox'[u]) \subseteq Elems(inbox[u])
    BY <1>3, <1>4
  <2>2. m.dst = t
    BY <1>4 DEF Places
  <2>3. \A u \in Threads : wmsg'[u] # NoMsg => wmsg'[u].dst = u
    BY <1>3, <2>2 DEF Places
  <2> QED
    BY <1>1, <1>8, <2>1, <2>3 DEF Places
<1>10. \A n \in Inboxed' : MayFollow(n, m)
  <2>1. TAKE n \in Inboxed'
  <2>2. PICK u \in Threads : n \in Elems(inbox'[u])
    BY DEF Inboxed
  <2>3. CASE u = t
    BY <1>4, <2>2, <2>3
  <2>4. CASE u # t
    BY <1>3, <1>4, <2>2, <2>4, InboxesApart
  <2> QED
    BY <2>3, <2>4
<1>11. \A u \in Threads : InOrder(inbox'[u])
  BY <1>3, <1>4 DEF Order
<1>12. Order'
  BY <1>1, <1>5, <1>6, <1>7, <1>10, <1>11 DEF Order
<1> QED
  BY <1>8, <1>9, <1>12

\* A handler that returns has delivered its message, which nothing pending had to
\* precede.
LEMMA ReturnKeeps ==
  ASSUME WayInv, NeverEarly, NEW t \in Threads, HandlerReturn(t)
  PROVE  Places' /\ Order' /\ Delivery!Next
<1> USE DEF WayInv, TypeInv
<1> DEFINE m == wmsg[t]
<1>1. /\ handled' = [handled EXCEPT ![t] = Append(@, m)]
      /\ wmsg' = [wmsg EXCEPT ![t] = NoMsg]
      /\ UNCHANGED <<now, delayed, queue, dpc, dmsg, inbox, dropped, sent>>
      /\ m # NoMsg /\ m \in Msg
  BY DEF HandlerReturn, callerVars, HoldsWhileBusy, TypeOK
<1>2. m.dst = t /\ m.due <= now
  BY <1>1 DEF Places, NeverEarly
<1>3. wmsg'[t] = NoMsg /\ \A u \in Threads \ {t} : wmsg'[u] = wmsg[u]
  BY <1>1 DEF TypeOK
<1>4. m \in InHand
  BY <1>1 DEF InHand
<1> HIDE DEF m
<1>5. \A u \in Threads \ {t} : wmsg[u] # m
  BY <1>1, <1>2 DEF Places
<1>6. InHand' = InHand \ {m}
  <2>1. \A n : n \in InHand' <=> n \in InHand /\ n # m
    BY <1>1, <1>3, <1>5 DEF InHand, m
  <2> QED
    BY <2>1
<1>7. Queued' = Queued /\ Routing' = Routing /\ Inboxed' = Inboxed
  BY <1>1 DEF Queued, Routing, Inboxed
<1>8. \A n \in delayed \cup Queued \cup Routing \cup Inboxed : MayFollow(n, m)
  BY <1>4 DEF Order
<1>9. Pending' = Pending \ {m} /\ m \in Pending
  <2>1. m \notin delayed \cup Queued \cup Routing \cup Inboxed
    BY <1>8 DEF MayFollow
  <2> QED
    BY <1>1, <1>4, <1>6, <1>7, <2>1 DEF Pending
<1>10. Places'
  BY <1>1, <1>3, <1>9 DEF Places
<1>11. Order'
  BY <1>1, <1>6, <1>7 DEF Order
<1>12. \A n \in Pending : ~Delivery!Precedes(n, m)
  <2>1. TAKE n \in Pending
  <2>2. CASE n \in InHand
    <3>1. PICK u \in Threads : n = wmsg[u] /\ n # NoMsg
      BY <2>2 DEF InHand
    <3>2. CASE u = t
      BY <1>1, <3>1, <3>2 DEF m, Delivery!Precedes, Msg
    <3>3. CASE u # t
      BY <1>2, <3>1, <3>3 DEF Places, Delivery!Precedes
    <3> QED
      BY <3>2, <3>3
  <2>3. CASE n \notin InHand
    BY <1>8, <2>1, <2>3 DEF Pending, MayFollow
  <2> QED
    BY <2>2, <2>3
<1>13. Delivery!Deliver(m)
  BY <1>1, <1>2, <1>9, <1>12 DEF Delivery!Deliver
<1> QED
  BY <1>9, <1>10, <1>11, <1>13 DEF Delivery!Next

\* A message sent at once is the newest of its sender's queue.
LEMMA SendNowKeeps ==
  ASSUME WayInv, NEW c \in Callers, NEW dst \in Threads, SendNow(c, dst)
  PROVE  Places' /\ Order' /\ Delivery!Next
<1> USE DEF WayInv, TypeInv
<1> DEFINE m == Message(c, dst, 0)
<1>1. /\ Enqueue(c, m) /\ sent' = sent + 1
      /\ UNCHANGED <<now, delayed, dpc, dmsg, inbox, wmsg, handled, dropped>>
  BY DEF SendNow, workerVars, historyVars
<1>2. /\ c \in Producers /\ m \in Msg /\ c # Manager
      /\ m.id = sent /\ m.src = c /\ ~m.delayed /\ sent \in Nat
  BY MessageType, ConstantsAssumption DEF ConstantsAssumption, Producers, TypeOK, Message
<1>3. m = [id |-> sent, src |-> c, dst |-> dst, due |-> now + 0, delayed |-> 0 # 0]
  BY DEF Message
<1> HIDE DEF m
<1>4. /\ queue'[c] = Append(queue[c], m)
      /\ Elems(queue'[c]) = Elems(queue[c]) \cup {m}
      /\ \A q \in Producers \ {c} : queue'[q] = queue[q]
      /\ Queued' = Queued \cup {m}
  BY <1>1, <1>2, QueuedEnqueue
<1>5. Routing' = Routing /\ Inboxed' = Inboxed /\ InHand' = InHand
  BY <1>1 DEF Routing, Inboxed, InHand
<1>6. Pending' = Pending \cup {m}
  BY <1>1, <1>4, <1>5 DEF Pending
<1>7. \A n \in Pending : MayFollow(m, n)
  BY <1>2, NewMayFollow
<1>8. Places'
  <2>1. ASSUME NEW p \in Callers, NEW n \in Elems(queue'[p]) PROVE n.src = p /\ ~n.delayed
    <3>1. CASE p = c
      BY <1>2, <1>4, <3>1 DEF Places
    <3>2. CASE p # c
      <4>1. queue'[p] = queue[p]
        BY <1>4, <3>2 DEF Producers
      <4> QED
        BY <2>1, <4>1 DEF Places
    <3> QED
      BY <3>1, <3>2
  <2>2. \A n \in Elems(queue'[Manager]) : n.delayed
    BY <1>2, <1>4 DEF Places, Producers
  <2>3. \A n \in Pending' : n.id < sent'
    BY <1>1, <1>2, <1>6, PendingType DEF Places, Msg
  <2> QED
    BY <1>1, <2>1, <2>2, <2>3 DEF Places
<1>9. \A n \in delayed : MayFollow(n, m)
  <2>1. TAKE n \in delayed
  <2>2. n.delayed
    BY DEF Places
  <2> QED
    BY <1>2, <2>2 DEF MayFollow, Delivery!Precedes
<1>10. \A p \in Producers : InOrder(queue'[p])
  <2>1. queue[c] \in Seq(Msg) /\ InOrder(queue[c])
    BY <1>2 DEF TypeOK, Order
  <2>2. \A n \in Elems(queue[c]) : MayFollow(m, n)
    BY <1>2, <1>7 DEF Pending, Queued
  <2>3. InOrder(queue'[c])
    BY <1>2, <1>4, <2>1, <2>2, AppendInOrder
  <2> QED
    BY <1>4, <2>3 DEF Order
<1>11. Order'
  BY <1>1, <1>4, <1>5, <1>7, <1>9, <1>10 DEF Order, Pending
<1>12. Delivery!Send(c, dst, 0)
  BY <1>1, <1>3, <1>6 DEF Delivery!Send
<1> QED
  BY <1>8, <1>11, <1>12 DEF Delivery!Next

\* A delayed message joins the delayed queue.
LEMMA SendDelayedKeeps ==
  ASSUME WayInv, NEW c \in Callers, NEW dst \in Threads, NEW delay \in Delays,
         SendDelayed(c, dst, delay)
  PROVE  Places' /\ Order' /\ Delivery!Next
<1> USE DEF WayInv, TypeInv
<1> DEFINE m == Message(c, dst, delay)
<1>1. /\ delayed' = delayed \cup {m} /\ sent' = sent + 1
      /\ UNCHANGED <<now, queue, dpc, dmsg, inbox, wmsg, handled, dropped>>
  BY DEF SendDelayed, workerVars, historyVars
<1>2. m \in Msg /\ m.id = sent /\ m.delayed /\ sent \in Nat
  <2>1. delay \in Nat \ {0}
    BY ConstantsAssumption DEF ConstantsAssumption
  <2> QED
    BY <2>1, MessageType DEF TypeOK, Message
<1>3. m = [id |-> sent, src |-> c, dst |-> dst, due |-> now + delay, delayed |-> delay # 0]
  BY DEF Message
<1> HIDE DEF m
<1>4. Queued' = Queued /\ Routing' = Routing /\ Inboxed' = Inboxed /\ InHand' = InHand
  BY <1>1 DEF Queued, Routing, Inboxed, InHand
<1>5. Pending' = Pending \cup {m}
  BY <1>1, <1>4 DEF Pending
<1>6. \A n \in Pending : MayFollow(m, n)
  BY <1>2, NewMayFollow
<1>7. Places'
  <2>1. \A n \in Pending' : n.id < sent'
    BY <1>1, <1>2, <1>5, PendingType DEF Places, Msg
  <2> QED
    BY <1>1, <1>2, <2>1 DEF Places
<1>8. Order'
  BY <1>1, <1>4, <1>6 DEF Order, Pending
<1>9. Delivery!Send(c, dst, delay)
  BY <1>1, <1>3, <1>5 DEF Delivery!Send
<1> QED
  BY <1>7, <1>8, <1>9 DEF Delivery!Next

\* The steps that move no message.
LEMMA OtherKeeps ==
  ASSUME WayInv, UNCHANGED <<delayed, queue, inbox, wmsg, sent>>,
         dpc # "route", dpc' # "route"
  PROVE  Places' /\ Order' /\ Pending' = Pending
<1>1. /\ Queued' = Queued /\ Routing' = Routing /\ Inboxed' = Inboxed /\ InHand' = InHand
      /\ delayed' = delayed /\ Pending' = Pending
  BY DEF Queued, Routing, Inboxed, InHand, Pending
<1> QED
  BY <1>1 DEF WayInv, Places, Order

LEMMA StillKeeps ==
  ASSUME WayInv, UNCHANGED <<delayed, queue, inbox, wmsg, sent, dpc, dmsg>>
  PROVE  Places' /\ Order' /\ Pending' = Pending
<1>1. /\ Queued' = Queued /\ Routing' = Routing /\ Inboxed' = Inboxed /\ InHand' = InHand
      /\ delayed' = delayed /\ Pending' = Pending
  BY DEF Queued, Routing, Inboxed, InHand, Pending
<1> QED
  BY <1>1 DEF WayInv, Places, Order

-----------------------------------------------------------------------------
(* The refinement *)

LEMMA WayInit == Init => WayInv /\ Delivery!Init
<1> SUFFICES ASSUME Init PROVE WayInv /\ Delivery!Init
  OBVIOUS
<1>1. /\ delayed = {} /\ dpc = "off" /\ now = 0 /\ dropped = {} /\ sent = 0
      /\ queue = [p \in Producers |-> <<>>] /\ inbox = [t \in Threads |-> <<>>]
      /\ wmsg = [t \in Threads |-> NoMsg] /\ handled = [t \in Threads |-> <<>>]
  BY DEF Init
<1>2. DOMAIN <<>> = {}
  OBVIOUS
<1>3. /\ \A p \in Producers : queue[p] = <<>> /\ Elems(queue[p]) = {}
      /\ \A t \in Threads : inbox[t] = <<>> /\ Elems(inbox[t]) = {}
  BY <1>1, <1>2 DEF Elems
<1>4. Queued = {} /\ Routing = {} /\ Inboxed = {} /\ InHand = {}
  BY <1>1, <1>3 DEF Queued, Routing, Inboxed, InHand
<1>5. Pending = {}
  BY <1>1, <1>4 DEF Pending
<1>6. Places
  BY <1>1, <1>3, <1>5 DEF Places, Producers
<1>7. Order
  BY <1>1, <1>2, <1>3, <1>4 DEF Order, InOrder
<1>8. Delivery!Init
  BY <1>1, <1>5 DEF Delivery!Init
<1> QED
  BY <1>6, <1>7, <1>8, TypeInit DEF WayInv

\* Every step of the bus is one of MessageDelivery, or moves a message on.
LEMMA WayStep ==
  ASSUME WayInv, NeverEarly, [Next]_vars
  PROVE  /\ Places' /\ Order'
         /\ [Delivery!Next]_(Delivery!dvars)
<1> DEFINE Same == UNCHANGED <<now, handled, dropped, sent>>
           Goal == Places' /\ Order' /\ (Delivery!Next \/ (Same /\ Pending' = Pending))
<1> SUFFICES Goal
  BY DEF Delivery!dvars
<1>1. CASE DrainOne
  BY <1>1, DrainOneKeeps DEF DrainOne, callerVars, historyVars
<1>2. CASE ManagerStep /\ ~DrainOne
  <2>1. \/ UNCHANGED <<delayed, queue, inbox, wmsg, sent, dpc, dmsg>>
        \/ /\ UNCHANGED <<delayed, queue, inbox, wmsg, sent>>
           /\ dpc # "route" /\ dpc' # "route"
    BY <1>2
    DEF ManagerStep, ManagerInit, ManagerCompute, ManagerSetTimer, EpollExpired,
        ReadTimer, DrainBegin, DrainNotify, DrainEnd, NotifyDistributor,
        workerVars, callerVars, WayInv, TypeInv, HoldsWhileBusy
  <2>2. Same
    BY <1>2
    DEF ManagerStep, ManagerInit, ManagerCompute, ManagerSetTimer, EpollExpired,
        ReadTimer, DrainBegin, DrainNotify, DrainEnd, callerVars, historyVars
  <2> QED
    BY <2>1, <2>2, OtherKeeps, StillKeeps
<1>3. CASE DistributorStep
  <2>1. CASE DistributorPredicate \/ DistributorBlock \/ DistributorNotify
    <3>1. /\ UNCHANGED <<delayed, queue, inbox, wmsg, sent>> /\ Same
          /\ dpc # "route" /\ dpc' # "route"
      BY <2>1
      DEF DistributorPredicate, DistributorBlock, DistributorNotify, workerVars,
          callerVars, historyVars
    <3> QED
      BY <3>1, OtherKeeps
  <2>2. CASE DistributorDequeue
    <3>1. UNCHANGED <<delayed, inbox, wmsg, sent>> /\ Same /\ dpc = "deq"
      BY <2>2 DEF DistributorDequeue, workerVars, callerVars, historyVars
    <3>2. CASE dpc' = "pred" /\ UNCHANGED <<queue, dmsg>>
      BY <3>1, <3>2, OtherKeeps
    <3>3. ASSUME NEW p \in Producers, queue[p] # <<>>, dmsg' = Head(queue[p]),
                 queue' = [queue EXCEPT ![p] = Tail(@)], dpc' = "route"
          PROVE  Goal
      BY <3>1, <3>3, DequeueKeeps
    <3> QED
      BY <2>2, <3>2, <3>3 DEF DistributorDequeue
  <2>3. CASE DistributorRoute /\ HasRoom(dmsg.dst)
    BY <2>3, RouteKeeps DEF DistributorRoute, callerVars
  <2>4. CASE DistributorRoute /\ ~HasRoom(dmsg.dst)
    BY <2>4, DropKeeps
  <2> QED
    BY <1>3, <2>1, <2>2, <2>3, <2>4 DEF DistributorStep
<1>4. ASSUME NEW t \in Threads, WorkerStep(t) PROVE Goal
  <2>1. CASE WorkerPredicate(t) /\ inbox[t] # <<>>
    BY <2>1, TakeKeeps DEF WorkerPredicate, callerVars, historyVars
  <2>2. CASE (WorkerPredicate(t) /\ inbox[t] = <<>>) \/ WorkerBlock(t)
    BY <2>2, StillKeeps DEF WorkerPredicate, WorkerBlock, callerVars, historyVars
  <2>3. CASE HandlerReturn(t)
    BY <2>3, ReturnKeeps
  <2> QED
    BY <1>4, <2>1, <2>2, <2>3 DEF WorkerStep
<1>5. ASSUME NEW c \in Callers, NEW dst \in Threads, SendNow(c, dst) PROVE Goal
  BY <1>5, SendNowKeeps
<1>6. ASSUME NEW c \in Callers, NEW dst \in Threads, NEW delay \in Delays,
             SendDelayed(c, dst, delay)
      PROVE  Goal
  BY <1>6, SendDelayedKeeps
<1>7. ASSUME NEW c \in Callers, CallerStep(c) PROVE Goal
  <2>1. /\ UNCHANGED <<delayed, queue, inbox, wmsg, sent, dmsg>> /\ Same
        /\ dpc' = dpc \/ (dpc = "wait" /\ dpc' = "pred")
    BY <1>7
    DEF CallerStep, SendNotify, SendSetTimer, NotifyDistributor, workerVars, historyVars
  <2> QED
    BY <2>1, OtherKeeps, StillKeeps
<1>8. CASE EpollInterrupted \/ SpuriousWake \/ StopRequest \/ StopStep \/ UNCHANGED vars
  <2>1. /\ UNCHANGED <<delayed, queue, inbox, wmsg, sent, dmsg>> /\ Same
        /\ dpc' = dpc \/ (dpc = "wait" /\ dpc' = "pred")
    BY <1>8
    DEF EpollInterrupted, SpuriousWake, StopRequest, StopStep, StopTimer, StopNotify,
        StopJoin, NotifyDistributor, vars, workerVars, callerVars, historyVars
  <2> QED
    BY <2>1, OtherKeeps, StillKeeps
<1>9. CASE Tick
  <2>1. UNCHANGED <<delayed, queue, inbox, wmsg, sent, dpc, dmsg, handled, dropped>>
    BY <1>9 DEF Tick, workerVars, callerVars, historyVars
  <2>2. Places' /\ Order' /\ Pending' = Pending
    BY <2>1, StillKeeps
  <2>3. Delivery!Tick
    BY <1>9, <2>1, <2>2 DEF Tick, Delivery!Tick
  <2> QED
    BY <2>2, <2>3 DEF Delivery!Next
<1> QED
  BY <1>1, <1>2, <1>3, <1>4, <1>5, <1>6, <1>7, <1>8, <1>9 DEF Next

(***************************************************************************)
(* The bus is a MessageDelivery: whatever the threads, the timer and the   *)
(* queues do, a message is handled at most once, by its destination, not   *)
(* before its time and not before one that must come first, and it is lost *)
(* only when the distributor drops it.                                     *)
(***************************************************************************)
THEOREM KeepsDelivery == Spec => ImplementsDelivery
<1>1. Init => WayInv /\ Delivery!Init
  BY WayInit
<1>2. WayInv /\ TypeInv' /\ NeverEarly /\ [Next]_vars => WayInv'
  BY WayStep DEF WayInv
<1>3. WayInv /\ NeverEarly /\ [Next]_vars => [Delivery!Next]_(Delivery!dvars)
  BY WayStep
<1> QED
  BY <1>1, <1>2, <1>3, TypeInvariant, NotEarly, PTL
  DEF Spec, ImplementsDelivery, Delivery!Spec
=============================================================================
