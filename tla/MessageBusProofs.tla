-------------------------- MODULE MessageBusProofs --------------------------
(***************************************************************************)
(* What MessageBus keeps for every number of threads, every route, every   *)
(* queue limit and every set of delays.                                    *)
(***************************************************************************)
EXTENDS MessageBus, WellFoundedInduction, TLAPS

-----------------------------------------------------------------------------
(* Lemmas: naturals, sequences, the timer *)

\* A nonempty set of naturals has a least element.
LEMMA LeastNat ==
  ASSUME NEW S, S \subseteq Nat, S # {}
  PROVE  \E x \in S : \A y \in S : x <= y
PROOF
<1> DEFINE R == OpToRel(<, Nat)
<1>1. IsWellFoundedOn(R, Nat)
  BY NatLessThanWellFounded
<1>2. \A x, y \in Nat : <<y, x>> \in R <=> y < x
  BY DEF OpToRel
<1> HIDE DEF R
<1>3. PICK x \in S : \A y \in S : <<y, x>> \notin R
  BY <1>1, WFMin
<1>4. ASSUME NEW y \in S PROVE x <= y
  <2>1. x \in Nat /\ y \in Nat
    OBVIOUS
  <2>2. ~ (y < x)
    BY <1>2, <1>3, <2>1
  <2> QED BY <2>1, <2>2
<1> QED BY <1>4

\* A nonempty delayed queue has a top.
LEMMA TopExists ==
  ASSUME NEW d \in SUBSET Msg, d # {}
  PROVE  \E m \in Msg : IsTop(m, d)
PROOF
<1> DEFINE D == {m.due : m \in d}
<1>1. D \subseteq Nat /\ D # {}
  BY DEF Msg
<1>2. PICK x \in D : \A y \in D : x <= y
  BY <1>1, LeastNat
<1>3. PICK m \in d : m.due = x
  OBVIOUS
<1> QED BY <1>2, <1>3 DEF IsTop

\* The value update_delayed_timer computes is a delay or the disarmed timer.
LEMMA TimerValueType ==
  ASSUME NEW d \in SUBSET Msg, NEW t \in Nat
  PROVE  TimerValue(d, t) \in Nat \cup {Off}
PROOF
<1>1. CASE d = {}
  BY <1>1 DEF TimerValue
<1>2. CASE d # {}
  <2> DEFINE top == CHOOSE m \in d : IsTop(m, d)
  <2>1. top \in d
    BY <1>2, TopExists DEF IsTop
  <2>2. top.due \in Nat
    BY <2>1 DEF Msg
  <2>3. TimerValue(d, t) = IF t < top.due THEN top.due - t ELSE 0
    BY <1>2 DEF TimerValue
  <2> HIDE DEF top
  <2> QED BY <2>2, <2>3
<1> QED BY <1>1, <1>2

\* Setting the timer to such a value leaves a time in it.
LEMMA SetTimerType ==
  ASSUME NEW v \in Nat \cup {Off}, now \in Nat, timer \in Nat \cup {Off}, SetTimer(v)
  PROVE  timer' \in Nat \cup {Off}
PROOF
<1>1. CASE ~FdOpen \/ v = Off
  BY <1>1 DEF SetTimer
<1>2. CASE FdOpen /\ v # Off
  BY <1>2 DEF SetTimer
<1> QED BY <1>1, <1>2

\* An element of a sequence that was extended is old or the new one.
LEMMA ElemsAppend ==
  ASSUME NEW S, NEW s \in Seq(S), NEW x \in S
  PROVE  Elems(Append(s, x)) \subseteq Elems(s) \cup {x}
PROOF
<1> SUFFICES ASSUME NEW i \in 1..(Len(s) + 1)
             PROVE  Append(s, x)[i] \in Elems(s) \cup {x}
  BY DEF Elems
<1>1. CASE i = Len(s) + 1
  BY <1>1
<1>2. CASE i \in 1..Len(s)
  BY <1>2 DEF Elems
<1> QED BY <1>1, <1>2

\* An element of the tail is an element of the sequence.
LEMMA ElemsTail ==
  ASSUME NEW S, NEW s \in Seq(S), s # <<>>
  PROVE  /\ Head(s) \in Elems(s)
         /\ Head(s) \in S
         /\ Elems(Tail(s)) \subseteq Elems(s)
BY DEF Elems

\* The elements of a sequence have its type.
LEMMA ElemsType ==
  ASSUME NEW S, NEW s \in Seq(S)
  PROVE  Elems(s) \subseteq S
BY DEF Elems

-----------------------------------------------------------------------------
(* Type correctness *)

\* The distributor and a worker hold a message exactly while they handle it, and
\* the distributor is started by thread_init.
HoldsWhileBusy ==
  /\ mpc = "init" <=> dpc = "off"
  /\ dmsg # NoMsg <=> dpc \in {"route", "notify"}
  /\ \A t \in Threads : wmsg[t] # NoMsg <=> wpc[t] = "handle"

TypeInv == TypeOK /\ HoldsWhileBusy

\* The initial state has the types.
LEMMA TypeInit == Init => TypeInv
PROOF
<1> SUFFICES ASSUME Init PROVE TypeInv
  OBVIOUS
<1> USE DEF Init
<1>1. /\ queue \in [Producers -> Seq(Msg)]
      /\ inbox \in [Threads -> Seq(Msg)]
      /\ handled \in [Threads -> Seq(Msg)]
  OBVIOUS
<1>2. /\ wpc \in [Threads -> WorkerPC]
      /\ wmsg \in [Threads -> Msg \cup {NoMsg}]
      /\ cpc \in [Callers -> CallerPC]
  BY DEF WorkerPC, CallerPC
<1>3. TypeOK
  BY <1>1, <1>2 DEF TypeOK, ManagerPC, DistributorPC, StopPC
<1>4. HoldsWhileBusy
  BY DEF HoldsWhileBusy
<1> QED BY <1>3, <1>4 DEF TypeInv

\* A message a caller sends has the type of messages.
LEMMA MessageType ==
  ASSUME NEW c \in Callers, NEW dst \in Threads, NEW delay \in Nat,
         now \in Nat, sent \in Nat
  PROVE  Message(c, dst, delay) \in Msg
BY DEF Message, Msg

\* Every step keeps the types and what each thread holds.
LEMMA TypeStep == TypeInv /\ [Next]_vars => TypeInv'
PROOF
<1> SUFFICES ASSUME TypeInv, [Next]_vars
             PROVE  TypeInv'
  OBVIOUS
<1> USE ConstantsAssumption
    DEF TypeInv, TypeOK, HoldsWhileBusy, ManagerPC, DistributorPC, WorkerPC,
        CallerPC, StopPC, vars, managerVars, workerVars, callerVars, stopVars,
        historyVars
<1>1. CASE ManagerInit
  BY <1>1 DEF ManagerInit
<1>2. CASE ManagerCompute
  BY <1>2, TimerValueType DEF ManagerCompute
<1>3. CASE ManagerSetTimer
  BY <1>3, SetTimerType DEF ManagerSetTimer, MissedIf
<1>4. CASE EpollExpired \/ EpollInterrupted
  BY <1>4 DEF EpollExpired, EpollInterrupted
<1>5. CASE ReadTimer
  BY <1>5 DEF ReadTimer
<1>6. CASE DrainBegin
  BY <1>6 DEF DrainBegin
<1>7. CASE DrainOne
  BY <1>7 DEF DrainOne, Enqueue, Producers
<1>8. CASE DrainNotify
  BY <1>8 DEF DrainNotify, NotifyDistributor, MissedIf
<1>9. CASE DrainEnd
  BY <1>9 DEF DrainEnd
<1>10. CASE DistributorPredicate \/ DistributorBlock
  BY <1>10 DEF DistributorPredicate, DistributorBlock
<1>11. CASE DistributorDequeue
  <2>1. CASE QueueEmpty /\ dpc' = "pred" /\ UNCHANGED <<queue, dmsg>>
    BY <1>11, <2>1 DEF DistributorDequeue
  <2>2. ASSUME NEW p \in Producers, queue[p] # <<>>, dmsg' = Head(queue[p]),
               queue' = [queue EXCEPT ![p] = Tail(@)], dpc' = "route"
        PROVE  TypeInv'
    <3>1. Head(queue[p]) \in Msg /\ Tail(queue[p]) \in Seq(Msg)
      BY <2>2
    <3> QED BY <1>11, <2>2, <3>1 DEF DistributorDequeue
  <2> QED BY <1>11, <2>1, <2>2 DEF DistributorDequeue
<1>12. CASE DistributorRoute
  <2>1. dmsg \in Msg /\ dmsg.dst \in Threads
    BY <1>12 DEF DistributorRoute, Msg
  <2>2. Append(inbox[dmsg.dst], dmsg) \in Seq(Msg)
    BY <2>1
  <2>3. inbox' \in [Threads -> Seq(Msg)]
    BY <1>12, <2>1, <2>2 DEF DistributorRoute
  <2> QED BY <1>12, <2>1, <2>3 DEF DistributorRoute
<1>13. CASE DistributorNotify
  BY <1>13 DEF DistributorNotify, NotifyWorker, MissedIf, Msg
<1>14. ASSUME NEW t \in Threads, WorkerPredicate(t) \/ WorkerBlock(t)
       PROVE  TypeInv'
  <2>1. inbox[t] # <<>> => Head(inbox[t]) \in Msg /\ Tail(inbox[t]) \in Seq(Msg)
    OBVIOUS
  <2>2. CASE WorkerPredicate(t) /\ inbox[t] # <<>>
    <3>1. /\ wpc' = [wpc EXCEPT ![t] = "handle"]
          /\ wmsg' = [wmsg EXCEPT ![t] = Head(inbox[t])]
          /\ inbox' = [inbox EXCEPT ![t] = Tail(@)]
      BY <2>2 DEF WorkerPredicate
    <3>2. /\ wpc' \in [Threads -> WorkerPC]
          /\ wmsg' \in [Threads -> Msg \cup {NoMsg}]
          /\ inbox' \in [Threads -> Seq(Msg)]
      BY <2>1, <2>2, <3>1
    <3>3. \A u \in Threads : wmsg'[u] # NoMsg <=> wpc'[u] = "handle"
      BY <2>1, <2>2, <3>1
    <3> QED BY <2>2, <3>2, <3>3 DEF WorkerPredicate
  <2>3. CASE WorkerPredicate(t) /\ inbox[t] = <<>>
    <3>1. wpc' = [wpc EXCEPT ![t] = "towait"] /\ wpc[t] # "handle"
      BY <2>3 DEF WorkerPredicate
    <3>2. wpc' \in [Threads -> WorkerPC]
      BY <3>1
    <3> QED BY <2>3, <3>1, <3>2 DEF WorkerPredicate
  <2>4. CASE WorkerBlock(t)
    BY <2>4 DEF WorkerBlock
  <2> QED BY <1>14, <2>2, <2>3, <2>4
<1>15. ASSUME NEW t \in Threads, HandlerReturn(t)
       PROVE  TypeInv'
  BY <1>15 DEF HandlerReturn
<1>16. CASE SpuriousWake
  <2>1. CASE dpc = "wait" /\ dpc' = "pred" /\ UNCHANGED wpc
    BY <1>16, <2>1 DEF SpuriousWake
  <2>2. ASSUME NEW t \in Threads, wpc[t] = "wait",
               wpc' = [wpc EXCEPT ![t] = "pred"], UNCHANGED dpc
        PROVE  TypeInv'
    BY <1>16, <2>2 DEF SpuriousWake
  <2> QED BY <1>16, <2>1, <2>2 DEF SpuriousWake
<1>17. ASSUME NEW c \in Callers, NEW dst \in Threads, SendNow(c, dst)
       PROVE  TypeInv'
  BY <1>17, MessageType DEF SendNow, Enqueue, Producers
<1>18. ASSUME NEW c \in Callers, NEW dst \in Threads, NEW delay \in Delays,
              SendDelayed(c, dst, delay)
       PROVE  TypeInv'
  BY <1>18, MessageType DEF SendDelayed
<1>19. ASSUME NEW c \in Callers, SendNotify(c)
       PROVE  TypeInv'
  BY <1>19 DEF SendNotify, NotifyDistributor, MissedIf
<1>20. ASSUME NEW c \in Callers, SendSetTimer(c)
       PROVE  TypeInv'
  <2>1. TimerValue(delayed, now) \in Nat \cup {Off}
    BY TimerValueType
  <2>2. timer' \in Nat \cup {Off}
    BY <1>20, <2>1, SetTimerType DEF SendSetTimer
  <2> QED BY <1>20, <2>2 DEF SendSetTimer
<1>21. CASE StopRequest \/ StopNotify \/ StopJoin
  <2>1. CASE StopRequest
    BY <2>1 DEF StopRequest
  <2>2. CASE StopNotify
    BY <2>2 DEF StopNotify, NotifyDistributor, MissedIf
  <2>3. CASE StopJoin
    BY <2>3 DEF StopJoin
  <2> QED BY <1>21, <2>1, <2>2, <2>3
<1>22. CASE StopTimer
  BY <1>22, SetTimerType DEF StopTimer
<1>23. CASE Tick
  BY <1>23 DEF Tick
<1>24. CASE UNCHANGED vars
  BY <1>24
<1> QED
  BY <1>1, <1>2, <1>3, <1>4, <1>5, <1>6, <1>7, <1>8, <1>9, <1>10, <1>11, <1>12,
     <1>13, <1>14, <1>15, <1>16, <1>17, <1>18, <1>19, <1>20, <1>21, <1>22, <1>23,
     <1>24
  DEF Next, ManagerStep, DistributorStep, WorkerStep, CallerStep, StopStep

\* Every reachable state has the types of the code, the timer values included:
\* the time computed for timerfd_settime never underflows.
THEOREM TypeCorrect == Spec => []TypeOK
PROOF
<1>1. TypeInv => TypeOK
  BY DEF TypeInv
<1> QED BY <1>1, TypeInit, TypeStep, PTL DEF Spec

\* The strengthened type invariant, which the other proofs rest on.
LEMMA TypeInvariant == Spec => []TypeInv
BY TypeInit, TypeStep, PTL DEF Spec

-----------------------------------------------------------------------------
(* No message is early *)

\* No message leaves the delayed queue before its time, whatever happened to the
\* timer: every message past it has reached its dst_time_.
NeverEarly ==
  /\ \A p \in Producers : \A m \in Elems(queue[p]) : m.due <= now
  /\ dmsg # NoMsg => dmsg.due <= now
  /\ \A t \in Threads : \A m \in Elems(inbox[t]) : m.due <= now
  /\ \A t \in Threads : wmsg[t] # NoMsg => wmsg[t].due <= now
  /\ \A t \in Threads : \A m \in Elems(handled[t]) : m.due <= now

\* The clock reading of a drain is never ahead of the clock.
EarlyInv == TypeInv /\ NeverEarly /\ mnow <= now

\* Enqueueing a message that has reached its time.
LEMMA EnqueueDue ==
  ASSUME EarlyInv, NEW p \in Producers, NEW m \in Msg, m.due <= now,
         Enqueue(p, m)
  PROVE  \A q \in Producers : \A n \in Elems(queue'[q]) : n.due <= now
PROOF
<1> USE DEF TypeInv, TypeOK, EarlyInv, NeverEarly
<1>1. Elems(Append(queue[p], m)) \subseteq Elems(queue[p]) \cup {m}
  BY ElemsAppend
<1>2. queue' = [queue EXCEPT ![p] = Append(queue[p], m)]
  BY DEF Enqueue
<1> SUFFICES ASSUME NEW q \in Producers, NEW n \in Elems(queue'[q])
             PROVE  n.due <= now
  OBVIOUS
<1>3. CASE q = p
  BY <1>1, <1>2, <1>3
<1>4. CASE q # p
  BY <1>2, <1>4
<1> QED BY <1>3, <1>4

\* Every step keeps messages behind their time: only a message that is due leaves
\* the delayed queue, by a clock that was read earlier.
LEMMA EarlyStep == EarlyInv /\ TypeInv' /\ [Next]_vars => EarlyInv'
PROOF
<1> SUFFICES ASSUME EarlyInv, TypeInv', [Next]_vars
             PROVE  (NeverEarly /\ mnow <= now)'
  BY DEF EarlyInv
<1> USE ConstantsAssumption
    DEF EarlyInv, NeverEarly, TypeInv, TypeOK
<1>1. CASE UNCHANGED <<now, queue, dmsg, inbox, wmsg, handled>> /\ mnow' \in {mnow, now, 0}
  BY <1>1
<1>2. CASE DrainOne
  <2>1. PICK m \in delayed : IsDue(m, mnow) /\ Enqueue(Manager, m)
    BY <1>2 DEF DrainOne
  <2>2. m \in Msg /\ m.due \in Nat /\ m.due <= now
    BY <2>1 DEF IsDue, Msg
  <2>3. UNCHANGED <<now, dmsg, inbox, wmsg, handled, mnow>>
    BY <1>2 DEF DrainOne, workerVars, historyVars
  <2>4. Manager \in Producers
    BY DEF Producers
  <2>5. \A q \in Producers : \A n \in Elems(queue'[q]) : n.due <= now
    BY <2>1, <2>2, <2>4, EnqueueDue
  <2> QED BY <2>3, <2>5
<1>3. ASSUME NEW c \in Callers, NEW dst \in Threads, SendNow(c, dst)
      PROVE  (NeverEarly /\ mnow <= now)'
  <2>1. Message(c, dst, 0) \in Msg /\ Message(c, dst, 0).due <= now
    <3>1. Message(c, dst, 0) \in Msg
      BY MessageType
    <3>2. Message(c, dst, 0).due = now
      BY DEF Message
    <3> QED BY <3>1, <3>2
  <2>2. Enqueue(c, Message(c, dst, 0)) /\ c \in Producers
    BY <1>3 DEF SendNow, Producers
  <2>3. \A q \in Producers : \A n \in Elems(queue'[q]) : n.due <= now
    BY <2>1, <2>2, EnqueueDue
  <2>4. UNCHANGED <<now, dmsg, inbox, wmsg, handled, mnow>>
    BY <1>3 DEF SendNow, workerVars, historyVars, managerVars
  <2> QED BY <2>3, <2>4
<1>4. ASSUME NEW p \in Producers, queue[p] # <<>>, dmsg' = Head(queue[p]),
             queue' = [queue EXCEPT ![p] = Tail(@)],
             UNCHANGED <<now, inbox, wmsg, handled, mnow>>
      PROVE  (NeverEarly /\ mnow <= now)'
  <2>1. /\ Head(queue[p]) \in Elems(queue[p])
        /\ Elems(Tail(queue[p])) \subseteq Elems(queue[p])
    BY <1>4, ElemsTail
  <2>2. \A q \in Producers : Elems(queue'[q]) \subseteq Elems(queue[q])
    BY <1>4, <2>1
  <2>3. dmsg'.due <= now
    BY <1>4, <2>1
  <2> QED BY <1>4, <2>2, <2>3
<1>5. CASE DistributorRoute /\ HasRoom(dmsg.dst)
  <2>1. dmsg \in Msg /\ dmsg.dst \in Threads /\ dmsg.due <= now
    BY <1>5 DEF DistributorRoute, HoldsWhileBusy, Msg
  <2>2. /\ inbox' = [inbox EXCEPT ![dmsg.dst] = Append(inbox[dmsg.dst], dmsg)]
        /\ UNCHANGED <<now, queue, dmsg, wmsg, handled, mnow>>
    BY <1>5, <2>1 DEF DistributorRoute, managerVars
  <2>3. Elems(Append(inbox[dmsg.dst], dmsg)) \subseteq Elems(inbox[dmsg.dst]) \cup {dmsg}
    BY <2>1, ElemsAppend
  <2>4. \A t \in Threads : Elems(inbox'[t]) \subseteq Elems(inbox[t]) \cup {dmsg}
    BY <2>1, <2>2, <2>3
  <2> QED BY <2>1, <2>2, <2>4
<1>6. CASE (DistributorRoute /\ ~HasRoom(dmsg.dst)) \/ DistributorNotify
  <2>1. dmsg' = NoMsg /\ UNCHANGED <<now, queue, inbox, wmsg, handled, mnow>>
    BY <1>6 DEF DistributorRoute, DistributorNotify, managerVars, historyVars
  <2> QED BY <2>1
<1>7. ASSUME NEW t \in Threads, WorkerPredicate(t), inbox[t] # <<>>
      PROVE  (NeverEarly /\ mnow <= now)'
  <2>1. /\ wmsg' = [wmsg EXCEPT ![t] = Head(inbox[t])]
        /\ inbox' = [inbox EXCEPT ![t] = Tail(@)]
        /\ UNCHANGED <<now, queue, dmsg, handled, mnow>>
    BY <1>7 DEF WorkerPredicate, managerVars, historyVars
  <2>2. /\ Head(inbox[t]) \in Elems(inbox[t])
        /\ Elems(Tail(inbox[t])) \subseteq Elems(inbox[t])
    BY <1>7, ElemsTail
  <2>3. \A u \in Threads : Elems(inbox'[u]) \subseteq Elems(inbox[u])
    BY <2>1, <2>2
  <2>4. \A u \in Threads : wmsg'[u] # NoMsg => wmsg'[u].due <= now
    BY <2>1, <2>2
  <2> QED BY <2>1, <2>3, <2>4
<1>8. ASSUME NEW t \in Threads, HandlerReturn(t)
      PROVE  (NeverEarly /\ mnow <= now)'
  <2>1. /\ handled' = [handled EXCEPT ![t] = Append(@, wmsg[t])]
        /\ wmsg' = [wmsg EXCEPT ![t] = NoMsg]
        /\ UNCHANGED <<now, queue, dmsg, inbox, mnow>>
    BY <1>8 DEF HandlerReturn, managerVars
  <2>2. wmsg[t] \in Msg /\ wmsg[t].due <= now
    BY <1>8 DEF HandlerReturn, HoldsWhileBusy
  <2>3. Elems(Append(handled[t], wmsg[t])) \subseteq Elems(handled[t]) \cup {wmsg[t]}
    BY <2>2, ElemsAppend
  <2>4. \A u \in Threads : \A m \in Elems(handled'[u]) : m.due <= now
    BY <2>1, <2>2, <2>3
  <2>5. \A u \in Threads : wmsg'[u] # NoMsg => wmsg'[u].due <= now
    BY <2>1
  <2> QED BY <2>1, <2>4, <2>5
<1>9. CASE Tick
  <2>1. now' = now + 1 /\ UNCHANGED <<queue, dmsg, inbox, wmsg, handled, mnow>>
    BY <1>9 DEF Tick, managerVars, workerVars, historyVars
  <2>2. \A m \in Msg : m.due <= now => m.due <= now'
    BY <2>1 DEF Msg
  <2>3. \A p \in Producers : Elems(queue[p]) \subseteq Msg
    BY ElemsType
  <2>4. \A t \in Threads : Elems(inbox[t]) \subseteq Msg /\ Elems(handled[t]) \subseteq Msg
    BY ElemsType
  <2>5. mnow' <= now'
    BY <2>1
  <2>6. NeverEarly'
    BY <2>1, <2>2, <2>3, <2>4
  <2> QED BY <2>5, <2>6
<1>10. CASE ManagerStep /\ ~DrainOne
  <2>1. UNCHANGED <<now, queue, dmsg, inbox, wmsg, handled>> /\ mnow' \in {mnow, now, 0}
    BY <1>10
    DEF ManagerStep, ManagerInit, ManagerCompute, ManagerSetTimer, EpollExpired,
        ReadTimer, DrainBegin, DrainNotify, DrainEnd, workerVars, historyVars
  <2> QED BY <1>1, <2>1
<1>11. CASE DistributorStep
  <2>1. CASE DistributorPredicate \/ DistributorBlock
    BY <1>1, <2>1
    DEF DistributorPredicate, DistributorBlock, workerVars, historyVars, managerVars
  <2>2. CASE DistributorDequeue
    <3>1. CASE UNCHANGED <<queue, dmsg>>
      BY <1>1, <2>2, <3>1
      DEF DistributorDequeue, workerVars, historyVars, managerVars
    <3>2. ASSUME NEW p \in Producers, queue[p] # <<>>, dmsg' = Head(queue[p]),
                 queue' = [queue EXCEPT ![p] = Tail(@)]
          PROVE  (NeverEarly /\ mnow <= now)'
      <4>1. UNCHANGED <<now, inbox, wmsg, handled, mnow>>
        BY <2>2 DEF DistributorDequeue, workerVars, historyVars, managerVars
      <4> QED BY <1>4, <3>2, <4>1
    <3> QED BY <2>2, <3>1, <3>2 DEF DistributorDequeue
  <2> QED BY <1>5, <1>6, <1>11, <2>1, <2>2 DEF DistributorStep
<1>12. ASSUME NEW t \in Threads, WorkerStep(t)
       PROVE  (NeverEarly /\ mnow <= now)'
  <2>1. CASE WorkerBlock(t)
    BY <1>1, <2>1 DEF WorkerBlock, historyVars, managerVars
  <2>2. CASE WorkerPredicate(t) /\ inbox[t] = <<>>
    BY <1>1, <2>2 DEF WorkerPredicate, historyVars, managerVars
  <2> QED BY <1>7, <1>8, <1>12, <2>1, <2>2 DEF WorkerStep
<1>13. ASSUME NEW c \in Callers, NEW dst \in Threads, NEW delay \in Delays,
              SendDelayed(c, dst, delay)
       PROVE  (NeverEarly /\ mnow <= now)'
  BY <1>1, <1>13 DEF SendDelayed, workerVars, historyVars, managerVars
<1>14. ASSUME NEW c \in Callers, CallerStep(c)
       PROVE  (NeverEarly /\ mnow <= now)'
  BY <1>1, <1>14
  DEF CallerStep, SendNotify, SendSetTimer, workerVars, historyVars, managerVars
<1>15. CASE EpollInterrupted \/ SpuriousWake \/ StopRequest \/ StopStep \/ UNCHANGED vars
  BY <1>1, <1>15
  DEF EpollInterrupted, SpuriousWake, StopRequest, StopStep, StopTimer, StopNotify,
      StopJoin, vars, workerVars, historyVars, managerVars
<1> QED
  BY <1>2, <1>3, <1>9, <1>10, <1>11, <1>12, <1>13, <1>14, <1>15 DEF Next

\* No message leaves the delayed queue before its time: neither a timer that
\* expires early, nor one set for another message, nor the wake-up that stop()
\* causes lets a handler see it early.
THEOREM NotEarly == Spec => []NeverEarly
PROOF
<1>1. Init => NeverEarly /\ mnow <= now
  BY DEF Init, NeverEarly, Elems
<1>2. Init => EarlyInv
  BY <1>1, TypeInit DEF EarlyInv
<1>3. EarlyInv => NeverEarly
  BY DEF EarlyInv
<1> QED BY <1>2, <1>3, EarlyStep, TypeInvariant, PTL DEF Spec

-----------------------------------------------------------------------------
(* stop() *)

\* How far stop() has come says what the two threads of the bus can still do: the
\* distributor that stop() did not join, because thread_init had not started it
\* yet, can only find the exit flag set.
StopOrder ==
  /\ mexit <=> spc # "idle"
  /\ spc \in {"join", "done"} => dpc \in {"off", "pred", "done"}
  /\ spc = "done" => mpc = "done"

\* Every step keeps the order of stop(): flag, joins, return.
LEMMA StopOrderStep == TypeInv /\ StopOrder /\ [Next]_vars => StopOrder'
PROOF
<1> SUFFICES ASSUME TypeInv, StopOrder, [Next]_vars
             PROVE  StopOrder'
  OBVIOUS
<1> USE DEF TypeInv, TypeOK, HoldsWhileBusy, StopOrder
<1>1. CASE ManagerStep
  BY <1>1
  DEF ManagerStep, ManagerInit, ManagerCompute, ManagerSetTimer, EpollExpired,
      ReadTimer, DrainBegin, DrainOne, DrainNotify, DrainEnd, NotifyDistributor,
      stopVars
<1>2. CASE DistributorStep
  BY <1>2
  DEF DistributorStep, DistributorPredicate, DistributorBlock, DistributorDequeue,
      DistributorRoute, DistributorNotify, stopVars, managerVars
<1>3. ASSUME NEW t \in Threads, WorkerStep(t)
      PROVE  StopOrder'
  BY <1>3
  DEF WorkerStep, WorkerPredicate, WorkerBlock, HandlerReturn, stopVars, managerVars
<1>4. ASSUME NEW c \in Callers, NEW dst \in Threads, NEW delay \in Delays,
             SendDelayed(c, dst, delay)
      PROVE  StopOrder'
  BY <1>4 DEF SendDelayed, stopVars, managerVars
<1>5. ASSUME NEW c \in Callers, CallerStep(c)
      PROVE  StopOrder'
  BY <1>5
  DEF CallerStep, SendNotify, SendSetTimer, NotifyDistributor, stopVars, managerVars
<1>6. CASE EpollInterrupted \/ SpuriousWake \/ Tick \/ UNCHANGED vars
  BY <1>6 DEF EpollInterrupted, SpuriousWake, Tick, vars, stopVars, managerVars
<1>7. CASE StopRequest \/ StopStep
  BY <1>7
  DEF StopRequest, StopStep, StopTimer, StopNotify, StopJoin, NotifyDistributor,
      stopVars, managerVars
<1>8. ASSUME NEW c \in Callers, NEW dst \in Threads, SendNow(c, dst)
      PROVE  StopOrder'
  BY <1>8 DEF SendNow, stopVars, managerVars
<1> QED
  BY <1>1, <1>2, <1>3, <1>4, <1>5, <1>6, <1>7, <1>8 DEF Next

\* When stop() has returned, neither thread of the bus moves a message any more,
\* in whatever order the signal and the start of the threads came.
THEOREM StopQuiet == Spec => []StoppedBusIsQuiet
PROOF
<1>1. Init => StopOrder
  BY DEF Init, StopOrder
<1>2. TypeInv /\ StopOrder => StoppedBusIsQuiet
  BY DEF TypeInv, TypeOK, HoldsWhileBusy, StopOrder, StoppedBusIsQuiet
<1> QED BY <1>1, <1>2, StopOrderStep, TypeInvariant, PTL DEF Spec

-----------------------------------------------------------------------------
(* The manager is woken *)

\* The lock on the delayed queue: a sender about to arm the timer has a message in
\* it, no other sender is there, and the manager does not drain it.
SettimeAlone ==
  \A c \in Callers : cpc[c] = "settime" =>
    /\ delayed # {}
    /\ mpc \notin {"drain", "enqueued"}
    /\ \A b \in Callers : cpc[b] = "settime" => b = c

\* While the manager carries the value "disarmed" to the timer, the timer is armed
\* for whoever needs it or that step will overtake it.
DisarmedSafely ==
  (mpc = "set" /\ mval = Off) \/ mpc = "epoll" =>
    \/ timer # Off
    \/ "timer" \in missed
    \/ /\ delayed # {} => \E c \in Callers : cpc[c] = "settime"
       /\ spc \in {"idle", "timer"}

WokenInv == TypeInv /\ StopOrder /\ SettimeAlone /\ DisarmedSafely

\* A nonempty delayed queue asks for an armed timer.
LEMMA TimerValueArmed ==
  ASSUME NEW d \in SUBSET Msg, d # {}, NEW t \in Nat
  PROVE  TimerValue(d, t) \in Nat
PROOF
<1> DEFINE top == CHOOSE m \in d : IsTop(m, d)
<1>1. top \in d
  BY TopExists DEF IsTop
<1>2. top.due \in Nat
  BY <1>1 DEF Msg
<1>3. TimerValue(d, t) = IF t < top.due THEN top.due - t ELSE 0
  BY DEF TimerValue
<1> HIDE DEF top
<1> QED BY <1>2, <1>3

\* Setting an open timer to a delay arms it.
LEMMA SetTimerArms ==
  ASSUME NEW v \in Nat, now \in Nat, FdOpen, SetTimer(v)
  PROVE  timer' # Off
PROOF
<1>1. v # Off /\ now + v # Off
  BY ConstantsAssumption
<1> QED BY <1>1 DEF SetTimer

\* Every step keeps the exclusion of the lock on the delayed queue.
LEMMA SettimeAloneStep ==
  TypeInv /\ SettimeAlone /\ [Next]_vars => SettimeAlone'
PROOF
<1> SUFFICES ASSUME TypeInv, SettimeAlone, [Next]_vars
             PROVE  SettimeAlone'
  OBVIOUS
<1> USE DEF TypeInv, TypeOK, SettimeAlone
<1>1. CASE UNCHANGED <<delayed, cpc>> /\ (mpc' = mpc \/ mpc' \notin {"drain", "enqueued"})
  BY <1>1
<1>2. CASE ManagerInit \/ ManagerCompute \/ ManagerSetTimer \/ EpollExpired \/ EpollInterrupted
             \/ ReadTimer \/ DrainEnd
  BY <1>1, <1>2
  DEF ManagerInit, ManagerCompute, ManagerSetTimer, EpollExpired, EpollInterrupted,
      ReadTimer, DrainEnd, callerVars
<1>3. CASE DrainBegin
  BY <1>3 DEF DrainBegin, DelayedLockFree, callerVars
<1>4. CASE DrainOne \/ DrainNotify
  BY <1>4 DEF DrainOne, DrainNotify, callerVars
<1>5. CASE DistributorStep
  BY <1>1, <1>5
  DEF DistributorStep, DistributorPredicate, DistributorBlock, DistributorDequeue,
      DistributorRoute, DistributorNotify, callerVars, managerVars
<1>6. ASSUME NEW t \in Threads, WorkerStep(t)
      PROVE  SettimeAlone'
  BY <1>1, <1>6
  DEF WorkerStep, WorkerPredicate, WorkerBlock, HandlerReturn, callerVars, managerVars
<1>7. ASSUME NEW c \in Callers, NEW dst \in Threads, SendNow(c, dst)
      PROVE  SettimeAlone'
  BY <1>7 DEF SendNow, managerVars
<1>8. ASSUME NEW c \in Callers, NEW dst \in Threads, NEW delay \in Delays,
             SendDelayed(c, dst, delay)
      PROVE  SettimeAlone'
  BY <1>8 DEF SendDelayed, DelayedLockFree, managerVars
<1>9. ASSUME NEW c \in Callers, CallerStep(c)
      PROVE  SettimeAlone'
  BY <1>9 DEF CallerStep, SendNotify, SendSetTimer, managerVars
<1>10. CASE SpuriousWake \/ StopRequest \/ StopStep \/ Tick \/ UNCHANGED vars
  BY <1>1, <1>10
  DEF SpuriousWake, StopRequest, StopStep, StopTimer, StopNotify, StopJoin, Tick,
      vars, callerVars, managerVars
<1> QED
  BY <1>2, <1>3, <1>4, <1>5, <1>6, <1>7, <1>8, <1>9, <1>10 DEF Next, ManagerStep

\* Every step keeps the timer armed for whoever needs it, or records the overtaking.
LEMMA DisarmedSafelyStep ==
  WokenInv /\ TypeInv' /\ [Next]_vars => DisarmedSafely'
PROOF
<1> SUFFICES ASSUME WokenInv, TypeInv', [Next]_vars
             PROVE  DisarmedSafely'
  OBVIOUS
<1> USE DEF WokenInv, TypeInv, TypeOK, StopOrder, SettimeAlone, DisarmedSafely
<1>1. CASE UNCHANGED <<delayed, timer, mpc, mval, cpc, spc>> /\ missed \subseteq missed'
  BY <1>1
<1>2. CASE UNCHANGED <<delayed, timer, cpc, spc, missed>>
             /\ mpc' \in {"check", "done", "read", "peek", "drain", "enqueued"}
  BY <1>2
<1>3. CASE ManagerInit \/ EpollExpired \/ EpollInterrupted \/ DrainBegin \/ DrainEnd
             \/ ReadTimer \/ DrainOne \/ DrainNotify
  BY <1>3
  DEF ManagerInit, EpollExpired, EpollInterrupted, DrainBegin, DrainEnd, ReadTimer,
      DrainOne, DrainNotify
<1>4. CASE ManagerCompute
  <2>1. CASE mexit
    BY <1>4, <2>1 DEF ManagerCompute
  <2>2. CASE ~mexit /\ delayed # {}
    <3>1. TimerValue(delayed, now) # Off
      BY <2>2, TimerValueArmed, ConstantsAssumption
    <3> QED BY <1>4, <2>2, <3>1 DEF ManagerCompute
  <2>3. CASE ~mexit /\ delayed = {}
    BY <1>4, <2>3 DEF ManagerCompute, stopVars
  <2> QED BY <2>1, <2>2, <2>3
<1>5. CASE ManagerSetTimer
  <2>1. CASE mval # Off
    <3>1. mval \in Nat /\ FdOpen /\ SetTimer(mval)
      BY <1>5, <2>1 DEF ManagerSetTimer, FdOpen
    <3>2. timer' # Off
      BY <3>1, SetTimerArms
    <3> QED BY <3>2
  <2>2. CASE mval = Off /\ timer # Off
    BY <1>5, <2>2 DEF ManagerSetTimer, MissedIf, Overtaken
  <2>3. CASE mval = Off /\ timer = Off
    BY <1>5, <2>3 DEF ManagerSetTimer, MissedIf, Overtaken, callerVars, stopVars
  <2> QED BY <2>1, <2>2, <2>3
<1>6. CASE DistributorStep
  <2>1. missed \subseteq missed'
    BY <1>6
    DEF DistributorStep, DistributorPredicate, DistributorBlock, DistributorDequeue,
        DistributorRoute, DistributorNotify, NotifyWorker, MissedIf
  <2> QED
    BY <1>1, <1>6, <2>1
    DEF DistributorStep, DistributorPredicate, DistributorBlock, DistributorDequeue,
        DistributorRoute, DistributorNotify, callerVars, managerVars, stopVars
<1>7. ASSUME NEW t \in Threads, WorkerStep(t)
      PROVE  DisarmedSafely'
  BY <1>1, <1>7
  DEF WorkerStep, WorkerPredicate, WorkerBlock, HandlerReturn, callerVars, managerVars,
      stopVars
<1>8. ASSUME NEW c \in Callers, NEW dst \in Threads, SendNow(c, dst)
      PROVE  DisarmedSafely'
  <2>1. \A b \in Callers : cpc[b] = "settime" => cpc'[b] = "settime"
    BY <1>8 DEF SendNow, MaySend
  <2> QED BY <1>8, <2>1 DEF SendNow, managerVars, stopVars
<1>9. ASSUME NEW c \in Callers, NEW dst \in Threads, NEW delay \in Delays,
             SendDelayed(c, dst, delay)
      PROVE  DisarmedSafely'
  <2>1. cpc'[c] = "settime"
    BY <1>9 DEF SendDelayed
  <2> QED BY <1>9, <2>1 DEF SendDelayed, managerVars, stopVars
<1>10. ASSUME NEW c \in Callers, SendNotify(c)
       PROVE  DisarmedSafely'
  <2>1. missed \subseteq missed'
    BY <1>10 DEF SendNotify, NotifyDistributor, MissedIf
  <2>2. \A b \in Callers : cpc[b] = "settime" => cpc'[b] = "settime"
    BY <1>10 DEF SendNotify
  <2> QED BY <1>10, <2>1, <2>2 DEF SendNotify, managerVars, stopVars
<1>11. ASSUME NEW c \in Callers, SendSetTimer(c)
       PROVE  DisarmedSafely'
  <2>1. delayed # {}
    BY <1>11 DEF SendSetTimer
  <2>2. TimerValue(delayed, now) \in Nat
    BY <2>1, TimerValueArmed
  <2>3. CASE FdOpen
    <3>1. timer' # Off
      BY <1>11, <2>2, <2>3, SetTimerArms DEF SendSetTimer
    <3> QED BY <3>1
  <2>4. CASE ~FdOpen
    BY <1>11, <2>4 DEF SendSetTimer, FdOpen
  <2> QED BY <2>3, <2>4
<1>12. CASE StopTimer
  <2>1. CASE FdOpen
    <3>1. timer' # Off
      BY <1>12, <2>1, SetTimerArms DEF StopTimer
    <3> QED BY <3>1
  <2>2. CASE ~FdOpen
    BY <1>12, <2>2 DEF StopTimer, FdOpen
  <2> QED BY <2>1, <2>2
<1>13. CASE StopNotify
  <2>1. missed \subseteq missed'
    BY <1>13 DEF StopNotify, NotifyDistributor, MissedIf
  <2> QED BY <1>13, <2>1 DEF StopNotify, callerVars, managerVars
<1>14. CASE StopRequest \/ StopJoin
  BY <1>14 DEF StopRequest, StopJoin, callerVars, managerVars
<1>15. CASE SpuriousWake \/ Tick \/ UNCHANGED vars
  BY <1>1, <1>15 DEF SpuriousWake, Tick, vars, callerVars, managerVars, stopVars
<1> QED
  BY <1>3, <1>4, <1>5, <1>6, <1>7, <1>8, <1>9, <1>10, <1>11, <1>12, <1>13, <1>14, <1>15
  DEF Next, ManagerStep, CallerStep, StopStep

\* The manager never sleeps with its timer disarmed while a delayed message waits
\* or stop() has set the timer to end it, unless a value it computed before
\* overtook theirs.
THEOREM ManagerIsWoken == Spec => []WokenWhenNeeded
PROOF
<1>1. Init => StopOrder /\ SettimeAlone /\ DisarmedSafely
  BY DEF Init, StopOrder, SettimeAlone, DisarmedSafely
<1>2. Init => WokenInv
  BY <1>1, TypeInit DEF WokenInv
<1>3. WokenInv /\ TypeInv' /\ [Next]_vars => WokenInv'
  BY StopOrderStep, SettimeAloneStep, DisarmedSafelyStep DEF WokenInv
<1>4. WokenInv => WokenWhenNeeded
  BY DEF WokenInv, DisarmedSafely, WokenWhenNeeded
<1> QED BY <1>2, <1>3, <1>4, TypeInvariant, PTL DEF Spec
=============================================================================
