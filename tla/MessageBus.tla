----------------------------- MODULE MessageBus -----------------------------
(***************************************************************************)
(* The message bus of matrix/: IMessage::send, the IMessageThreadManager   *)
(* (a thread that serves delayed messages from a timerfd, a thread that    *)
(* distributes messages) and the IMessageThreads that handle them.         *)
(*                                                                         *)
(* Each thread is a program counter, and a step is what the thread does    *)
(* between two points where another thread can interfere.  The mutexes     *)
(* msg_lock_ of the manager and of a worker are taken by one thread only,  *)
(* so they exclude nobody and have no variable: a thread that has found    *)
(* its predicate false and has not yet blocked is at "towait", where a     *)
(* notification is lost.  thread_lock_ is held by the distributor at       *)
(* "notify".  msg_delayed_lock_ is held by the manager at "drain" and      *)
(* "enqueued", by a sender at "settime".                                   *)
(***************************************************************************)
EXTENDS Naturals, Sequences, FiniteSets

CONSTANTS
  Threads,     \* the IMessageThreads (in the program MediaInputModule and MediaMatrix)
  Clients,     \* other threads that send: main, the bus thread, streaming threads
  Manager,     \* the manager's thread, as a producer of the main queue
  Off,         \* a disarmed timer
  NoMsg,       \* the null IMessagePtr
  Routes,      \* who sends to whom, pairs of a caller and a worker
  QueueLimit,  \* the limit on a worker's queue, 100 in the code
  Delays,      \* the delays a sender may ask for, in clock ticks
  MayStop,     \* whether stop() is called
  MaxTime,     \* bound on the clock
  MaxMsgs      \* bound on the number of messages sent

Callers == Threads \cup Clients
Producers == Callers \cup {Manager}

Msg == [id : Nat, src : Callers, dst : Threads, due : Nat, delayed : BOOLEAN]

ASSUME ConstantsAssumption ==
  /\ Manager \notin Callers
  /\ Threads \cap Clients = {}
  /\ Off \notin Nat
  /\ NoMsg \notin Msg
  /\ Routes \subseteq Callers \X Threads
  /\ QueueLimit \in Nat \ {0}
  /\ Delays \subseteq Nat \ {0}
  /\ MayStop \in BOOLEAN
  /\ MaxTime \in Nat
  /\ MaxMsgs \in Nat

VARIABLES
  now,         \* CLOCK_MONOTONIC
  delayed,     \* msg_delayed_queue_, a priority queue on dst_time_
  timer,       \* msg_timer_fd_: Off, or the time it expires
  queue,       \* msg_queue_ of the manager: FIFO for each producing thread
  mpc,         \* where the manager's thread is
  mval,        \* the timer value it has computed and not yet set
  mnow,        \* the clock it read for this drain
  mexit,       \* thread_exit_pending_ of the manager
  dpc,         \* where the distributor thread is
  dmsg,        \* the message it holds
  inbox,       \* msg_queue_ of each worker, which the distributor alone fills
  wpc,         \* where each worker is
  wmsg,        \* the message each worker holds
  cpc,         \* where each caller of IMessage::send is
  spc,         \* where the thread that calls stop() is
  sent,        \* the number of messages sent
  handled,     \* history: what each worker has handled, in order
  dropped,     \* history: the messages the distributor threw away
  missed       \* history: what was overtaken, "notification" or an armed "timer"

managerVars == <<mpc, mval, mnow, timer>>
workerVars == <<inbox, wpc, wmsg>>
callerVars == <<cpc, sent>>
stopVars == <<mexit, spc>>
historyVars == <<handled, dropped>>
vars == <<now, delayed, queue, dpc, dmsg, missed,
          managerVars, workerVars, callerVars, stopVars, historyVars>>

-----------------------------------------------------------------------------
(* The timer and the delayed queue *)

\* m can be at the top of the priority queue d, which TimestampCompare orders.
IsTopReversed(m, d) == m \in d /\ \A n \in d : m.due >= n.due
IsTop(m, d) == m \in d /\ \A n \in d : m.due <= n.due

\* What update_delayed_timer asks of timerfd_settime: disarm, or a delay.  A time
\* that is past asks for 1 ns, which is 0 ticks.
TimerValueUnguarded(d, t) ==
  IF d = {} THEN Off
  ELSE LET top == CHOOSE m \in d : IsTop(m, d) IN top.due - t

TimerValuePastDisarms(d, t) ==
  IF d = {} THEN Off
  ELSE LET top == CHOOSE m \in d : IsTop(m, d)
       IN  IF t < top.due THEN top.due - t ELSE Off

TimerValue(d, t) ==
  IF d = {} THEN Off
  ELSE LET top == CHOOSE m \in d : IsTop(m, d)
       IN  IF t < top.due THEN top.due - t ELSE 0

FdOpen == mpc \notin {"init", "done"}

SetTimer(v) ==
  timer' = IF ~FdOpen THEN timer ELSE IF v = Off THEN Off ELSE now + v

Expired == timer # Off /\ timer <= now

\* msg_delayed_lock_ is free.
DelayedLockFree ==
  /\ mpc \notin {"drain", "enqueued"}
  /\ \A c \in Callers : cpc[c] # "settime"

IsDue(m, t) == t >= m.due

Enqueue(p, m) == queue' = [queue EXCEPT ![p] = Append(@, m)]

QueueEmpty == \A p \in Producers : queue[p] = <<>>

\* What is overtaken by the step under way, if it is.
MissedIf(what, overtaken) == missed' = IF overtaken THEN missed \cup {what} ELSE missed

\* A notification wakes the distributor only if it is blocked.
NotifyDistributor ==
  /\ dpc' = IF dpc = "wait" THEN "pred" ELSE dpc
  /\ MissedIf("notification", dpc = "towait")

NotifyWorker(t) ==
  /\ wpc' = IF wpc[t] = "wait" THEN [wpc EXCEPT ![t] = "pred"] ELSE wpc
  /\ MissedIf("notification", wpc[t] = "towait")

-----------------------------------------------------------------------------
Init ==
  /\ now = 0 /\ delayed = {} /\ timer = Off
  /\ queue = [p \in Producers |-> <<>>]
  /\ mpc = "init" /\ mval = Off /\ mnow = 0 /\ mexit = FALSE
  /\ dpc = "off" /\ dmsg = NoMsg
  /\ inbox = [t \in Threads |-> <<>>]
  /\ wpc = [t \in Threads |-> "pred"]
  /\ wmsg = [t \in Threads |-> NoMsg]
  /\ cpc = [c \in Callers |-> "idle"]
  /\ spc = "idle"
  /\ sent = 0
  /\ handled = [t \in Threads |-> <<>>]
  /\ dropped = {}
  /\ missed = {}

-----------------------------------------------------------------------------
(* The manager's thread: thread_loop *)

\* thread_init: the timer exists from here on, the distributor runs.
ManagerInit ==
  /\ mpc = "init"
  /\ mpc' = "check"
  /\ dpc' = "pred"
  /\ UNCHANGED <<now, delayed, queue, dmsg, missed, mval, mnow, timer,
                 workerVars, callerVars, stopVars, historyVars>>

\* The loop test, then update_delayed_timer without msg_delayed_lock_: the queue
\* and the clock are read here, the timer is set in the next step.  When the loop
\* ends, thread_deinit closes the timer and the thread is over.
ManagerCompute ==
  /\ mpc = "check"
  /\ IF mexit
     THEN mpc' = "done" /\ UNCHANGED mval
     ELSE mpc' = "set" /\ mval' = TimerValue(delayed, now)
  /\ UNCHANGED <<now, delayed, queue, dpc, dmsg, missed, mnow, timer,
                 workerVars, callerVars, stopVars, historyVars>>

\* A value computed before a sender or stop() set the timer is set after it.
Overtaken == mval = Off /\ timer # Off

ManagerSetTimer ==
  /\ mpc = "set"
  /\ mpc' = "epoll"
  /\ SetTimer(mval)
  /\ mval' = Off
  /\ MissedIf("timer", Overtaken)
  /\ UNCHANGED <<now, delayed, queue, dpc, dmsg, mnow,
                 workerVars, callerVars, stopVars, historyVars>>

\* epoll_wait returns because the timer has expired.
EpollExpired ==
  /\ mpc = "epoll"
  /\ Expired
  /\ mpc' = IF mexit THEN "done" ELSE "read"
  /\ UNCHANGED <<now, delayed, queue, dpc, dmsg, missed, mval, mnow, timer,
                 workerVars, callerVars, stopVars, historyVars>>

\* A signal interrupts epoll_wait, which has no event to return.
EpollInterrupted ==
  /\ mpc = "epoll"
  /\ ~Expired
  /\ mpc' = IF mexit THEN "done" ELSE "check"
  /\ UNCHANGED <<now, delayed, queue, dpc, dmsg, missed, mval, mnow, timer,
                 workerVars, callerVars, stopVars, historyVars>>

\* read() clears the expiration; it fails if the timer was set again since.
ReadTimer ==
  /\ mpc = "read"
  /\ IF Expired
     THEN mpc' = "peek" /\ timer' = Off
     ELSE mpc' = "check" /\ UNCHANGED timer
  /\ UNCHANGED <<now, delayed, queue, dpc, dmsg, missed, mval, mnow,
                 workerVars, callerVars, stopVars, historyVars>>

\* The check of the delayed queue outside the lock; if it is not empty, the lock
\* and one reading of the clock.
DrainBegin ==
  /\ mpc = "peek"
  /\ \/ delayed = {} /\ mpc' = "check" /\ UNCHANGED mnow
     \/ delayed # {} /\ DelayedLockFree /\ mpc' = "drain" /\ mnow' = now
  /\ UNCHANGED <<now, delayed, queue, dpc, dmsg, missed, mval, timer,
                 workerVars, callerVars, stopVars, historyVars>>

\* Of several messages with the least dst_time_ any may be the top.
DrainOne ==
  /\ mpc = "drain"
  /\ \E m \in delayed :
       /\ IsTop(m, delayed)
       /\ IsDue(m, mnow)
       /\ delayed' = delayed \ {m}
       /\ Enqueue(Manager, m)
  /\ mpc' = "enqueued"
  /\ UNCHANGED <<now, dpc, dmsg, missed, mval, mnow, timer,
                 workerVars, callerVars, stopVars, historyVars>>

DrainNotify ==
  /\ mpc = "enqueued"
  /\ mpc' = "drain"
  /\ NotifyDistributor
  /\ UNCHANGED <<now, delayed, queue, dmsg, mval, mnow, timer,
                 workerVars, callerVars, stopVars, historyVars>>

DrainEnd ==
  /\ mpc = "drain"
  /\ \A m \in delayed : ~IsDue(m, mnow)
  /\ mpc' = "check"
  /\ mnow' = 0
  /\ UNCHANGED <<now, delayed, queue, dpc, dmsg, missed, mval, timer,
                 workerVars, callerVars, stopVars, historyVars>>

ManagerStep ==
  \/ ManagerInit \/ ManagerCompute \/ ManagerSetTimer
  \/ EpollExpired \/ ReadTimer \/ DrainBegin \/ DrainOne \/ DrainNotify \/ DrainEnd

-----------------------------------------------------------------------------
(* The distributor: distribute_messages *)

DistributorPredicate ==
  /\ dpc = "pred"
  /\ dpc' = IF mexit THEN "done" ELSE IF QueueEmpty THEN "towait" ELSE "deq"
  /\ UNCHANGED <<now, delayed, queue, dmsg, missed,
                 managerVars, workerVars, callerVars, stopVars, historyVars>>

DistributorBlock ==
  /\ dpc = "towait"
  /\ dpc' = "wait"
  /\ UNCHANGED <<now, delayed, queue, dmsg, missed,
                 managerVars, workerVars, callerVars, stopVars, historyVars>>

\* try_dequeue takes the oldest message of one producer, whichever it finds.
DistributorDequeue ==
  /\ dpc = "deq"
  /\ \/ /\ QueueEmpty
        /\ dpc' = "pred"
        /\ UNCHANGED <<queue, dmsg>>
     \/ \E p \in Producers :
          /\ queue[p] # <<>>
          /\ dmsg' = Head(queue[p])
          /\ queue' = [queue EXCEPT ![p] = Tail(@)]
          /\ dpc' = "route"
  /\ UNCHANGED <<now, delayed, missed,
                 managerVars, workerVars, callerVars, stopVars, historyVars>>

HasRoom(t) == Len(inbox[t]) < QueueLimit

\* Under thread_lock_: find the destination and fill its queue, or drop.
DistributorRoute ==
  /\ dpc = "route"
  /\ IF HasRoom(dmsg.dst)
     THEN /\ inbox' = [inbox EXCEPT ![dmsg.dst] = Append(@, dmsg)]
          /\ dpc' = "notify"
          /\ UNCHANGED <<dmsg, dropped>>
     ELSE /\ dropped' = dropped \cup {dmsg}
          /\ dmsg' = NoMsg
          /\ dpc' = "deq"
          /\ UNCHANGED inbox
  /\ UNCHANGED <<now, delayed, queue, missed, handled, wpc, wmsg,
                 managerVars, callerVars, stopVars>>

DistributorNotify ==
  /\ dpc = "notify"
  /\ NotifyWorker(dmsg.dst)
  /\ dmsg' = NoMsg
  /\ dpc' = "deq"
  /\ UNCHANGED <<now, delayed, queue, inbox, wmsg,
                 managerVars, callerVars, stopVars, historyVars>>

DistributorStep ==
  \/ DistributorPredicate \/ DistributorBlock \/ DistributorDequeue
  \/ DistributorRoute \/ DistributorNotify

-----------------------------------------------------------------------------
(* The workers: IMessageThread::thread_loop *)

\* The predicate of the wait and try_dequeue.
WorkerPredicate(t) ==
  /\ wpc[t] = "pred"
  /\ IF inbox[t] = <<>>
     THEN /\ wpc' = [wpc EXCEPT ![t] = "towait"]
          /\ UNCHANGED <<inbox, wmsg>>
     ELSE /\ wpc' = [wpc EXCEPT ![t] = "handle"]
          /\ wmsg' = [wmsg EXCEPT ![t] = Head(inbox[t])]
          /\ inbox' = [inbox EXCEPT ![t] = Tail(@)]
  /\ UNCHANGED <<now, delayed, queue, dpc, dmsg, missed,
                 managerVars, callerVars, stopVars, historyVars>>

WorkerBlock(t) ==
  /\ wpc[t] = "towait"
  /\ wpc' = [wpc EXCEPT ![t] = "wait"]
  /\ UNCHANGED <<now, delayed, queue, dpc, dmsg, missed, inbox, wmsg,
                 managerVars, callerVars, stopVars, historyVars>>

\* handle_message returns; what it sends are the caller steps below.
HandlerReturn(t) ==
  /\ wpc[t] = "handle"
  /\ cpc[t] = "idle"
  /\ handled' = [handled EXCEPT ![t] = Append(@, wmsg[t])]
  /\ wmsg' = [wmsg EXCEPT ![t] = NoMsg]
  /\ wpc' = [wpc EXCEPT ![t] = "pred"]
  /\ UNCHANGED <<now, delayed, queue, dpc, dmsg, missed, inbox, dropped,
                 managerVars, callerVars, stopVars>>

WorkerStep(t) == WorkerPredicate(t) \/ WorkerBlock(t) \/ HandlerReturn(t)

\* A condition variable may wake without a notification.
SpuriousWake ==
  /\ \/ dpc = "wait" /\ dpc' = "pred" /\ UNCHANGED wpc
     \/ \E t \in Threads :
          wpc[t] = "wait" /\ wpc' = [wpc EXCEPT ![t] = "pred"] /\ UNCHANGED dpc
  /\ UNCHANGED <<now, delayed, queue, dmsg, missed, inbox, wmsg,
                 managerVars, callerVars, stopVars, historyVars>>

-----------------------------------------------------------------------------
(* The callers of IMessage::send; a worker sends from its handler *)

MaySend(c, dst) ==
  /\ <<c, dst>> \in Routes
  /\ cpc[c] = "idle"
  /\ c \in Threads => wpc[c] = "handle"
  /\ sent < MaxMsgs

Message(c, dst, delay) ==
  [id |-> sent, src |-> c, dst |-> dst, due |-> now + delay, delayed |-> delay # 0]

SendNow(c, dst) ==
  /\ MaySend(c, dst)
  /\ Enqueue(c, Message(c, dst, 0))
  /\ sent' = sent + 1
  /\ cpc' = [cpc EXCEPT ![c] = "notify"]
  /\ UNCHANGED <<now, delayed, dpc, dmsg, missed,
                 managerVars, workerVars, stopVars, historyVars>>

SendNotify(c) ==
  /\ cpc[c] = "notify"
  /\ NotifyDistributor
  /\ cpc' = [cpc EXCEPT ![c] = "idle"]
  /\ UNCHANGED <<now, delayed, queue, dmsg, sent,
                 managerVars, workerVars, stopVars, historyVars>>

SendDelayed(c, dst, delay) ==
  /\ MaySend(c, dst)
  /\ now + delay <= MaxTime
  /\ DelayedLockFree
  /\ delayed' = delayed \cup {Message(c, dst, delay)}
  /\ sent' = sent + 1
  /\ cpc' = [cpc EXCEPT ![c] = "settime"]
  /\ UNCHANGED <<now, queue, dpc, dmsg, missed,
                 managerVars, workerVars, stopVars, historyVars>>

\* update_delayed_timer, still under the lock, then the unlock.
SendSetTimer(c) ==
  /\ cpc[c] = "settime"
  /\ SetTimer(TimerValue(delayed, now))
  /\ cpc' = [cpc EXCEPT ![c] = "idle"]
  /\ UNCHANGED <<now, delayed, queue, dpc, dmsg, missed, sent, mpc, mval, mnow,
                 workerVars, stopVars, historyVars>>

CallerStep(c) == SendNotify(c) \/ SendSetTimer(c)

-----------------------------------------------------------------------------
(* IMessageThreadManager::stop, from the signal handler *)

StopRequest ==
  /\ MayStop
  /\ spc = "idle"
  /\ mexit' = TRUE
  /\ spc' = "timer"
  /\ UNCHANGED <<now, delayed, queue, dpc, dmsg, missed,
                 managerVars, workerVars, callerVars, historyVars>>

StopTimerForgotten ==
  /\ spc = "timer"
  /\ spc' = "notify"
  /\ UNCHANGED <<now, delayed, queue, dpc, dmsg, missed, mexit,
                 managerVars, workerVars, callerVars, historyVars>>

StopTimer ==
  /\ spc = "timer"
  /\ SetTimer(0)
  /\ spc' = "notify"
  /\ UNCHANGED <<now, delayed, queue, dpc, dmsg, missed, mpc, mval, mnow,
                 mexit, workerVars, callerVars, historyVars>>

StopNotify ==
  /\ spc = "notify"
  /\ NotifyDistributor
  /\ spc' = "joindist"
  /\ UNCHANGED <<now, delayed, queue, dmsg, mexit,
                 managerVars, workerVars, callerVars, historyVars>>

\* msg_distribute_thread_.join() unless it is not joinable, then IThread::join.
StopJoinManagerOnly ==
  /\ \/ spc = "joindist" /\ spc' = "join"
     \/ spc = "join" /\ mpc = "done" /\ spc' = "done"
  /\ UNCHANGED <<now, delayed, queue, dpc, dmsg, missed, mexit,
                 managerVars, workerVars, callerVars, historyVars>>

StopJoin ==
  /\ \/ spc = "joindist" /\ dpc \in {"off", "done"} /\ spc' = "join"
     \/ spc = "join" /\ mpc = "done" /\ spc' = "done"
  /\ UNCHANGED <<now, delayed, queue, dpc, dmsg, missed, mexit,
                 managerVars, workerVars, callerVars, historyVars>>

StopStep == StopTimer \/ StopNotify \/ StopJoin

\* The clock is bounded by MaxTime, and runs on until an armed timer expires.
Tick ==
  /\ now < MaxTime \/ (timer # Off /\ now < timer)
  /\ now' = now + 1
  /\ UNCHANGED <<delayed, queue, dpc, dmsg, missed,
                 managerVars, workerVars, callerVars, stopVars, historyVars>>

-----------------------------------------------------------------------------
Next ==
  \/ ManagerStep
  \/ EpollInterrupted
  \/ DistributorStep
  \/ \E t \in Threads : WorkerStep(t)
  \/ \E c \in Callers, dst \in Threads :
       SendNow(c, dst) \/ \E delay \in Delays : SendDelayed(c, dst, delay)
  \/ \E c \in Callers : CallerStep(c)
  \/ SpuriousWake
  \/ StopRequest
  \/ StopStep
  \/ Tick

Spec == Init /\ [][Next]_vars

\* The scheduler runs every thread that can run, time passes and a timer that
\* has expired wakes epoll_wait.  Nothing obliges a thread to send, a signal to
\* arrive or a condition variable to wake by itself.
Fairness ==
  /\ WF_vars(ManagerStep)
  /\ WF_vars(DistributorStep)
  /\ \A t \in Threads : WF_vars(WorkerStep(t))
  /\ \A c \in Callers : WF_vars(CallerStep(c))
  /\ WF_vars(StopStep)
  /\ WF_vars(Tick)

FairSpec == Spec /\ Fairness

-----------------------------------------------------------------------------
(* Properties *)

ManagerPC == {"init", "check", "set", "epoll", "read", "peek", "drain", "enqueued", "done"}
DistributorPC == {"off", "pred", "towait", "wait", "deq", "route", "notify", "done"}
WorkerPC == {"pred", "towait", "wait", "handle"}
CallerPC == {"idle", "notify", "settime"}
StopPC == {"idle", "timer", "notify", "joindist", "join", "done"}

\* The types of the state.  The timer values in it are natural numbers: the code
\* subtracts unsigned 64-bit times, and an underflow would arm the timer for
\* centuries.
TypeOK ==
  /\ now \in Nat
  /\ delayed \in SUBSET Msg
  /\ timer \in Nat \cup {Off}
  /\ queue \in [Producers -> Seq(Msg)]
  /\ mpc \in ManagerPC /\ mval \in Nat \cup {Off} /\ mnow \in Nat /\ mexit \in BOOLEAN
  /\ dpc \in DistributorPC /\ dmsg \in Msg \cup {NoMsg}
  /\ inbox \in [Threads -> Seq(Msg)]
  /\ wpc \in [Threads -> WorkerPC] /\ wmsg \in [Threads -> Msg \cup {NoMsg}]
  /\ cpc \in [Callers -> CallerPC]
  /\ spc \in StopPC
  /\ sent \in Nat
  /\ handled \in [Threads -> Seq(Msg)]
  /\ dropped \in SUBSET Msg
  /\ missed \subseteq {"notification", "timer"}

\* The manager waits for its timer alone, so it must not sleep with the timer
\* disarmed while somebody needs it: with a delayed message the timer is armed or
\* the sender is about to arm it, and once stop() has armed the timer to end the
\* thread it stays armed.  The manager, every sender and stop() set the same timer,
\* the manager from a value it computed without the lock; only that value, set
\* after somebody else's, is excused.
WokenWhenNeeded ==
  mpc = "epoll" /\ timer = Off /\ "timer" \notin missed =>
    /\ delayed # {} => \E c \in Callers : cpc[c] = "settime"
    /\ spc \in {"idle", "timer"}

Elems(s) == {s[i] : i \in DOMAIN s}

\* When the stop() of the manager has returned, the distributor moves no message
\* any more, even if stop() came before the distributor was started and so did
\* not join it.
StoppedBusIsQuiet ==
  spc = "done" => /\ mpc = "done"
                  /\ dpc \in {"pred", "done"}
                  /\ dmsg = NoMsg

Arrived(i) ==
  \/ \E t \in Threads : \E m \in Elems(handled[t]) : m.id = i
  \/ \E m \in dropped : m.id = i

\* Every message sent is handled or dropped for a full queue, unless the bus is
\* stopped, a notification fell between a predicate and its wait, or the
\* manager disarmed the timer of a message it had not seen.
ArrivesUnlessOvertaken ==
  \A i \in 0..(MaxMsgs - 1) : sent > i ~> (Arrived(i) \/ missed # {} \/ mexit)

\* "Distribute messages to IMessageThread" (imessage_thread_manager.cpp:204):
\* every message sent before a stop is handled or dropped for a full queue.
ArrivesOrStopped == \A i \in 0..(MaxMsgs - 1) : sent > i ~> (Arrived(i) \/ mexit)

\* stop() returns, with the same exceptions.
StopReturnsUnlessOvertaken == mexit ~> (spc = "done" \/ missed # {})

-----------------------------------------------------------------------------
(* The bus implements the delivery its users rely on *)

\* Where a message sent can be before it is handled: the distributor holds it
\* between the main queue and a worker's, which it is in already at "notify".
Queued == UNION {Elems(queue[p]) : p \in Producers}
Routing == IF dpc = "route" THEN {dmsg} ELSE {}
Inboxed == UNION {Elems(inbox[t]) : t \in Threads}
InHand == {wmsg[t] : t \in Threads} \ {NoMsg}

Pending == delayed \cup Queued \cup Routing \cup Inboxed \cup InHand

Delivery == INSTANCE MessageDelivery
  WITH pending <- Pending, delivered <- handled, lost <- dropped, count <- sent

ImplementsDelivery == Delivery!Spec
=============================================================================
