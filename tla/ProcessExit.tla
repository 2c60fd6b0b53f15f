----------------------------- MODULE ProcessExit -----------------------------
(***************************************************************************)
(* How the process ends: the threads of the program (IThread, the message  *)
(* workers, the distributor and the bus thread), the handler of SIGINT and *)
(* SIGTERM, which runs on whatever thread the signal interrupts, and       *)
(* main(), which waits for MediaMatrix and tears the pipeline down. Queues *)
(* and messages are in MessageBus; here a message only wakes somebody.     *)
(***************************************************************************)
EXTENDS Naturals, FiniteSets

CONSTANTS
  Hosts,        \* threads a signal may interrupt
  MaxSignals    \* bound on the signals delivered

IThreads == {"manager", "matrix", "input"}
Threads  == IThreads \cup {"main", "distributor", "bus"}

ASSUME HostsAssumption == Hosts \subseteq Threads /\ MaxSignals \in Nat

VARIABLES
  pc,           \* Threads -> where each thread is
  pending,      \* thread_exit_pending_
  running,      \* thread_running_
  armed,        \* whether the timer of the manager will expire
  joined,       \* whether msg_distribute_thread_ has been joined
  delayedLock,  \* holder of msg_delayed_lock_, or "nobody"
  handler,      \* Hosts -> where the signal handler on that thread is
  interrupted,  \* a signal came while the manager was in epoll_wait, which returns for it
  signals,
  misrouted,    \* a message for MediaMatrix went to its sender (history)
  disturbed     \* what was out of the ordinary (history)

vars == << pc, pending, running, armed, joined, delayedLock, handler, interrupted, signals,
           misrouted, disturbed >>

LoopPlaces   == {"thread_init", "check", "update", "epoll", "drain", "handle", "decided",
                 "waiting", "sending", "returned", "closing", "retest", "over", "gone"}
MainPlaces   == {"init", "join", "stop_wait", "wait", "join bus", "free", "returned",
                 "exited", "crashed"}
HandlerPlaces == {"no signal", "stop manager", "wake manager", "joinable", "join distributor",
                  "join manager", "stop input", "stop matrix", "done"}

Places == LoopPlaces \cup MainPlaces \cup {"unborn"}

TypeOK ==
  /\ pc \in [Threads -> Places]
  /\ pc["main"] \in MainPlaces
  /\ \A t \in IThreads : pc[t] \in LoopPlaces /\ (running[t] <=> pc[t] \notin {"closing", "over"})
  /\ pending \in [IThreads -> BOOLEAN] /\ running \in [IThreads -> BOOLEAN]
  /\ armed \in BOOLEAN /\ joined \in BOOLEAN /\ misrouted \in BOOLEAN
  /\ delayedLock \in {"nobody", "matrix"}
  /\ delayedLock = "matrix" <=> pc["matrix"] = "sending"
  /\ handler \in [Hosts -> HandlerPlaces] /\ signals \in 0 .. MaxSignals
  /\ interrupted \in BOOLEAN /\ (interrupted => pc["manager"] = "epoll")
  /\ disturbed \subseteq {"init failed", "early", "twice", "overslept"}

\* After inst_all_modules: the three IThreads have been started, and
\* MediaMatrix has started its bus thread
Init ==
  /\ pc = [[t \in Threads |-> "check"]
             EXCEPT !["main"] = "init", !["manager"] = "thread_init", !["distributor"] = "unborn"]
  /\ pending = [t \in IThreads |-> FALSE] /\ running = [t \in IThreads |-> TRUE]
  /\ armed = FALSE /\ joined = FALSE /\ delayedLock = "nobody"
  /\ handler = [h \in Hosts |-> "no signal"] /\ interrupted = FALSE /\ signals = 0
  /\ misrouted = FALSE /\ disturbed = {}

InHandler(t) == t \in Hosts /\ handler[t] \notin {"no signal", "done"}

Alive == pc["main"] \notin {"exited", "crashed"}

Go(t, from, to) ==
  /\ Alive /\ ~InHandler(t)
  /\ pc[t] = from /\ pc' = [pc EXCEPT ![t] = to]

LoopUnchanged ==
  UNCHANGED << pending, joined, handler, interrupted, signals, misrouted, disturbed >>

\* a step that goes to sleep although the flag has been set
Oversleeps(t) ==
  /\ disturbed' = IF pending[t] THEN disturbed \cup {"overslept"} ELSE disturbed
  /\ UNCHANGED << pending, joined, handler, interrupted, signals, misrouted >>

-----------------------------------------------------------------------------
(***************************************************************************)
(* The manager: thread_init (which starts the distributor, or returns 0    *)
(* from thread_loop), then update_delayed_timer and epoll_wait. Whether a  *)
(* delayed message keeps the timer running is left open.                   *)
(***************************************************************************)
ThreadInit ==
  /\ \/ /\ Alive /\ pc["manager"] = "thread_init" /\ ~InHandler("manager")
        /\ pc' = [pc EXCEPT !["manager"] = "check", !["distributor"] = "check"]
     \/ Go("manager", "thread_init", "returned")
  /\ UNCHANGED << running, armed, delayedLock >> /\ LoopUnchanged

ManagerCheck ==
  /\ Go("manager", "check", IF pending["manager"] THEN "returned" ELSE "update")
  /\ UNCHANGED << running, armed, delayedLock >> /\ LoopUnchanged

UpdateDelayedTimer ==
  /\ Go("manager", "update", "epoll")
  /\ \/ armed' = TRUE /\ LoopUnchanged
     \/ armed' = FALSE /\ Oversleeps("manager")
  /\ UNCHANGED << running, delayedLock >>

\* update_delayed_timer sets the timer anew before each wait, and it is closed
\* outside the loop: what others set it to counts while the manager waits
Arm == armed' = (pc["manager"] = "epoll")

EpollWait ==
  /\ armed \/ interrupted
  /\ \/ Go("manager", "epoll", IF pending["manager"] THEN "returned" ELSE "check")
     \/ armed /\ ~pending["manager"] /\ Go("manager", "epoll", "drain")
  /\ armed' = FALSE /\ interrupted' = FALSE
  /\ UNCHANGED << pending, running, joined, delayedLock, handler, signals, misrouted, disturbed >>

Drain ==
  /\ delayedLock = "nobody"
  /\ Go("manager", "drain", "check")
  /\ UNCHANGED << running, armed, delayedLock >> /\ LoopUnchanged

(***************************************************************************)
(* IMessageThread::thread_loop and distribute_messages: test the flag,     *)
(* then wait; the notification can come between the two.                   *)
(***************************************************************************)
MatrixCheck ==
  /\ IF pending["matrix"] THEN Go("matrix", "check", "returned")
     ELSE Go("matrix", "check", "decided") \/ Go("matrix", "check", "handle")
  /\ UNCHANGED << running, armed, delayedLock >> /\ LoopUnchanged

DistributorCheck ==
  /\ Go("distributor", "check", IF pending["manager"] THEN "over" ELSE "decided")
  /\ UNCHANGED << running, armed, delayedLock >> /\ LoopUnchanged

Wait(t) ==
  /\ Go(t, "decided", "waiting")
  /\ Oversleeps(IF t = "distributor" THEN "manager" ELSE t)
  /\ UNCHANGED << running, armed, delayedLock >>

\* a message: somebody notifies the distributor, or the distributor a worker
Notified(t) ==
  /\ t = "matrix" => pc["distributor"] \in {"check", "decided"}
  /\ Go(t, "waiting", "check")
  /\ UNCHANGED << running, armed, delayedLock >> /\ LoopUnchanged

\* handle_message of MediaMatrix sends delayed messages. (The bus thread does
\* too; the lock they share is the manager's, and one sender is enough here.)
SendDelayed ==
  /\ delayedLock = "nobody"
  /\ Go("matrix", "handle", "sending")
  /\ delayedLock' = "matrix"
  /\ UNCHANGED << running, armed >> /\ LoopUnchanged

SentDelayed ==
  /\ Go("matrix", "sending", "check")
  /\ delayedLock' = "nobody" /\ Arm
  /\ UNCHANGED running /\ LoopUnchanged

HandleMessage ==
  /\ Go("matrix", "handle", "check")
  /\ UNCHANGED << running, armed, delayedLock >> /\ LoopUnchanged

(***************************************************************************)
(* The worker of the inputs: where it waits makes no difference, for       *)
(* nobody joins it. It addresses MediaMatrix by its thread id, which is 0  *)
(* once that has ended, and send() takes 0 for the sender.                 *)
(***************************************************************************)
InputTakes ==
  /\ ~pending["input"]
  /\ Go("input", "check", "handle")
  /\ UNCHANGED << running, armed, delayedLock >> /\ LoopUnchanged

InputSends ==
  /\ Go("input", "handle", "check")
  /\ misrouted' = (misrouted \/ (~running["matrix"] /\ pc["distributor"] # "over"))
  /\ UNCHANGED << pending, running, armed, joined, delayedLock, handler, interrupted, signals,
                  disturbed >>

InputEnds ==
  /\ pending["input"]
  /\ Go("input", "check", "over")
  /\ running' = [running EXCEPT !["input"] = FALSE]
  /\ UNCHANGED << armed, delayedLock >> /\ LoopUnchanged

\* handle_bus_msg, which polls the flag every 500 ms; an end of stream ends it
BusSeesExit ==
  /\ pending["matrix"]
  /\ Go("bus", "check", "over")
  /\ UNCHANGED << running, armed, delayedLock >> /\ LoopUnchanged

EndOfStream ==
  /\ ~pending["matrix"]
  /\ Go("bus", "check", "over")
  /\ UNCHANGED << running, armed, delayedLock >> /\ LoopUnchanged

StillRunning(t) == [running EXCEPT ![t] = ~pending[t]]

(***************************************************************************)
(* thread_entry_impl after thread_loop has returned 0: two reads of the    *)
(* flag, and only the first one clears thread_running_ and thread_id_ and  *)
(* notifies, under thread_lock_, which the thread holds at "closing".      *)
(***************************************************************************)
Returned(t) ==
  /\ Go(t, "returned", IF pending[t] THEN "closing" ELSE "retest")
  /\ running' = StillRunning(t)
  /\ UNCHANGED << armed, delayedLock >> /\ LoopUnchanged

Closed(t) ==
  /\ Go(t, "closing", "over")
  /\ UNCHANGED << running, armed, delayedLock >> /\ LoopUnchanged

Retest(t) ==
  /\ Go(t, "retest", IF pending[t] THEN "gone"
                     ELSE IF t = "manager" THEN "thread_init" ELSE "check")
  /\ UNCHANGED << running, armed, delayedLock >> /\ LoopUnchanged

Loop(t) ==
  \/ t = "matrix" /\ (MatrixCheck \/ HandleMessage \/ SendDelayed \/ SentDelayed)
  \/ t = "input" /\ (InputSends \/ InputEnds)
  \/ t \in {"matrix", "distributor"} /\ Wait(t)
  \/ t \in {"manager", "matrix"} /\ (Returned(t) \/ Closed(t) \/ Retest(t))
  \/ t = "manager" /\ (ThreadInit \/ ManagerCheck \/ UpdateDelayedTimer \/ EpollWait \/ Drain)
  \/ t = "distributor" /\ DistributorCheck
  \/ t = "bus" /\ BusSeesExit

-----------------------------------------------------------------------------
(***************************************************************************)
(* handle_signal -> exit_all_modules on thread h                           *)
(***************************************************************************)
\* IThread::join finds the thread ended once it gets thread_lock_
Ended(t) == ~running[t] /\ pc[t] # "closing"

Active == {h \in Hosts : handler[h] \notin {"no signal", "done"}}

Signal(h) ==
  /\ Alive /\ signals < MaxSignals
  /\ handler[h] \in {"no signal", "done"}
  /\ pc[h] \notin {"unborn", "over", "gone"}
  /\ handler' = [handler EXCEPT ![h] = "stop manager"]
  /\ interrupted' = (interrupted \/ (h = "manager" /\ pc[h] = "epoll"))
  /\ signals' = signals + 1
  /\ disturbed' = disturbed \cup (IF Active # {} THEN {"twice"} ELSE {})
                            \cup (IF pc["distributor"] = "unborn" THEN {"early"} ELSE {})
  /\ UNCHANGED << pc, pending, running, armed, joined, delayedLock, misrouted >>

HandlerStep(h, from, to) ==
  /\ Alive
  /\ handler[h] = from /\ handler' = [handler EXCEPT ![h] = to]
  /\ UNCHANGED << running, delayedLock, interrupted, signals, misrouted, disturbed >>

\* mutant: nobody is notified
AwakeNobody(threads) == pc

\* notify_all reaches the threads that wait now
Awake(threads) ==
  [t \in Threads |-> IF t \in threads /\ pc[t] = "waiting" THEN "check" ELSE pc[t]]

\* IMessageThreadManager::stop
StopManager(h) ==
  /\ HandlerStep(h, "stop manager", "wake manager")
  /\ pending' = [pending EXCEPT !["manager"] = TRUE]
  /\ UNCHANGED << pc, armed, joined >>

WakeManager(h) ==
  /\ HandlerStep(h, "wake manager", "joinable")
  /\ Arm /\ pc' = Awake({"distributor"})
  /\ UNCHANGED << pending, joined >>

\* mutants: no test; the test the wrong way round
JoinableAlways == TRUE

JoinableOnceJoined == joined

Joinable == pc["distributor"] # "unborn" /\ ~joined

TestJoinable(h) ==
  /\ HandlerStep(h, "joinable", IF Joinable THEN "join distributor" ELSE "join manager")
  /\ UNCHANGED << pc, pending, armed, joined >>

\* A thread that joins itself, and a second join, throw std::system_error
JoinDistributor(h) ==
  /\ \/ /\ pc["distributor"] = "over" /\ ~joined
        /\ pc' = pc /\ joined' = TRUE
     \/ /\ h = "distributor" \/ joined \/ \E g \in Hosts \ {h} : handler[g] = "join distributor"
        /\ pc' = [pc EXCEPT !["main"] = "crashed"] /\ UNCHANGED joined
  /\ HandlerStep(h, "join distributor", "join manager")
  /\ UNCHANGED << pending, armed >>

\* mutant: does not wait for the manager
ManagerOverAlways(h) == TRUE

\* IThread::join gives up on its own thread, which it knows by thread_id_: a manager
\* interrupted at "closing" does not know itself any more and waits for its own lock
ManagerOver(h) == (h = "manager" /\ pc["manager"] # "closing") \/ Ended("manager")

JoinManager(h) ==
  /\ ManagerOver(h)
  /\ HandlerStep(h, "join manager", "stop input")
  /\ UNCHANGED << pc, pending, armed, joined >>

StopWorker(h, t, from, to) ==
  /\ HandlerStep(h, from, to)
  /\ pending' = [pending EXCEPT ![t] = TRUE]
  /\ pc' = Awake({t})
  /\ UNCHANGED << armed, joined >>

\* mutant: the workers are stopped in the other order
HandlerMatrixFirst(h) ==
  \/ StopManager(h) \/ WakeManager(h) \/ TestJoinable(h) \/ JoinDistributor(h) \/ JoinManager(h)
  \/ StopWorker(h, "matrix", "stop input", "stop matrix")
  \/ StopWorker(h, "input", "stop matrix", "done")

Handler(h) ==
  \/ StopManager(h) \/ WakeManager(h) \/ TestJoinable(h) \/ JoinDistributor(h) \/ JoinManager(h)
  \/ StopWorker(h, "input", "stop input", "stop matrix")
  \/ StopWorker(h, "matrix", "stop matrix", "done")

-----------------------------------------------------------------------------
(***************************************************************************)
(* main: MediaMatrix::init, join, deinit, and the static destructors       *)
(***************************************************************************)
MainUnchanged ==
  UNCHANGED << running, armed, joined, delayedLock, handler, interrupted, signals, misrouted >>

MediaMatrixInit ==
  /\ \/ Go("main", "init", "join") /\ UNCHANGED disturbed
     \/ Go("main", "init", "stop_wait") /\ disturbed' = disturbed \cup {"init failed"}
  /\ UNCHANGED pending /\ MainUnchanged

Join ==
  /\ Ended("matrix")
  /\ Go("main", "join", "stop_wait")
  /\ UNCHANGED << pending, disturbed >> /\ MainUnchanged

\* deinit: IMessageThread::stop_wait
StopWait ==
  /\ Alive /\ ~InHandler("main")
  /\ pc["main"] = "stop_wait"
  /\ pc' = [Awake({"matrix"}) EXCEPT !["main"] = "wait"]
  /\ pending' = [pending EXCEPT !["matrix"] = TRUE]
  /\ UNCHANGED disturbed /\ MainUnchanged

JoinMatrix ==
  /\ Ended("matrix")
  /\ Go("main", "wait", "join bus")
  /\ UNCHANGED << pending, disturbed >> /\ MainUnchanged

BusJoined == pc["bus"] = "over"

JoinBus ==
  /\ BusJoined
  /\ Go("main", "join bus", "free")
  /\ UNCHANGED << pending, disturbed >> /\ MainUnchanged

\* the bus and the pipeline are released
Free ==
  /\ Go("main", "free", "returned")
  /\ UNCHANGED << pending, disturbed >> /\ MainUnchanged

\* the singletons go; a std::thread that is still joinable ends the process
Exit ==
  /\ Go("main", "returned", IF Joinable THEN "crashed" ELSE "exited")
  /\ UNCHANGED << pending, disturbed >> /\ MainUnchanged

Main ==
  MediaMatrixInit \/ Join \/ StopWait \/ JoinMatrix \/ JoinBus \/ Free \/ Exit

Next ==
  \/ \E t \in Threads \ {"main"} : Loop(t)
  \/ \E t \in {"matrix", "distributor"} : Notified(t)
  \/ EndOfStream \/ InputTakes
  \/ \E h \in Hosts : Signal(h) \/ Handler(h)
  \/ Main

\* Every thread runs, and the manager gets the lock of the delayed messages
\* between two messages; that a signal or a message arrives is not promised
Spec ==
  /\ Init /\ [][Next]_vars
  /\ \A t \in Threads \ {"main"} : WF_vars(Loop(t))
  /\ \A h \in Hosts : WF_vars(Handler(h))
  /\ SF_vars(Drain) /\ WF_vars(Main)

-----------------------------------------------------------------------------
(***************************************************************************)
(* When the bus and the pipeline have been released, the worker of         *)
(* MediaMatrix and the bus thread are over, and the worker of the inputs,  *)
(* whom nobody joins, has been told to stop: it may still be in start() on *)
(* bins of the pipeline for the message it had taken, but takes no other.  *)
(* After a failed init nobody tells it.                                    *)
(***************************************************************************)
OnlyInputUsesReleased ==
  pc["main"] \in {"returned", "exited"} =>
    /\ pc["matrix"] = "over" /\ pc["bus"] = "over"
    /\ pending["input"] \/ "init failed" \in disturbed

OutOfOrder == disturbed \cap {"init failed", "early", "twice"} # {}

(***************************************************************************)
(* The process ends by std::terminate only if the handler ran on the       *)
(* distributor, twice at a time, before the distributor was started, or    *)
(* not at all because init failed.                                         *)
(***************************************************************************)
TerminatesOnlyIf ==
  pc["main"] = "crashed" =>
    OutOfOrder \/ ("distributor" \in Hosts /\ handler["distributor"] = "join manager")

(***************************************************************************)
(* When the singletons are destroyed, only the worker of the inputs, which *)
(* nobody joins, and a manager that ran the handler itself may still be in *)
(* their loops, unless init failed or the handler was too early.           *)
(***************************************************************************)
LeftBehind ==
  pc["main"] = "exited" /\ ~OutOfOrder =>
    \A t \in Threads \ {"main"} :
      pc[t] = "over" \/ t = "input" \/ (t = "manager" /\ t \in Hosts /\ handler[t] # "no signal")

(***************************************************************************)
(* No message for MediaMatrix comes back to its sender: the manager stops  *)
(* before any worker, so the distributor is over when a thread id is 0.    *)
(* After a failed init there is no such order.                             *)
(***************************************************************************)
NeverMisrouted == misrouted => OutOfOrder

(***************************************************************************)
(* What can keep a signalled process from ending: a notification between   *)
(* the test of the flag and the wait, or a timer disarmed after stop() set *)
(* it; a manager that left without saying so; a handler that interrupted   *)
(* the thread holding msg_delayed_lock_, or the manager while it held its  *)
(* thread_lock_ to say that it ends.                                       *)
(***************************************************************************)
Asleep ==
  \/ pc["distributor"] = "waiting" /\ pending["manager"]
  \/ pc["matrix"] = "waiting" /\ pending["matrix"]
  \/ pc["manager"] = "epoll" /\ pending["manager"] /\ ~armed /\ ~interrupted

LockedOut ==
  \/ pc["manager"] = "drain" /\ delayedLock \in Active
  \/ pc["manager"] = "closing" /\ "manager" \in Active

Stuck ==
  \/ "overslept" \in disturbed /\ Asleep
  \/ pc["manager"] = "gone"
  \/ LockedOut

(***************************************************************************)
(* A signal ends the process, whatever thread it interrupts and whatever   *)
(* that was doing, unless the process is stuck for good in one of the ways *)
(* above.                                                                  *)
(***************************************************************************)
SignalEnds == (signals > 0) ~> (~Alive \/ []Stuck)
=============================================================================
