-------------------------- MODULE ProcessExitProofs --------------------------
(***************************************************************************)
(* The safety properties of ProcessExit, for every set of threads a signal *)
(* may interrupt and any number of signals.                                *)
(*                                                                         *)
(* The argument follows the order of exit_all_modules: as long as nothing  *)
(* was out of order, MediaMatrix is told to stop only after the handler    *)
(* has joined the distributor, and main gets past its join only after      *)
(* MediaMatrix was told to stop. Order is that chain, read backwards.      *)
(***************************************************************************)
EXTENDS ProcessExit, TLAPS

\* Places of the handler after the join of the distributor, and after that
\* of the manager
AfterDistributor == {"join manager", "stop input", "stop matrix", "done"}
AfterManager     == {"stop input", "stop matrix", "done"}

ManagerEnded == pc["manager"] = "over" \/ ("manager" \in Hosts /\ handler["manager"] # "no signal")

\* While the handler ran once at a time, and on a distributor that existed,
\* what it has passed has happened.
HandlerOrder ==
  /\ \A g, h \in Hosts : g \in Active /\ h \in Active => g = h
  /\ Active # {} => pc["distributor"] # "unborn"
  /\ \A h \in Hosts :
       /\ handler[h] = "join distributor" => ~joined
       /\ handler[h] \in AfterDistributor => joined
       /\ handler[h] \in AfterManager => ManagerEnded

StopOrder ==
  /\ pending["matrix"] => joined /\ ManagerEnded
  /\ pc["main"] \notin {"init", "join"} => pending["matrix"]

\* What holds whatever the order
TeardownOrder ==
  /\ pc["matrix"] \in {"closing", "over"} => pending["matrix"]
  /\ joined => pc["distributor"] = "over"
  /\ pc["main"] \in {"join bus", "free", "returned", "exited"} => pc["matrix"] = "over"
  /\ pc["main"] \in {"free", "returned", "exited"} => pc["bus"] = "over"

\* The handler tells the worker of the inputs before that of MediaMatrix
InputOrder ==
  /\ \A h \in Hosts : handler[h] \in {"stop matrix", "done"} => pending["input"]
  /\ pending["matrix"] \/ pc["main"] \notin {"init", "join", "crashed"} =>
       pending["input"] \/ "init failed" \in disturbed

ManagerOrder ==
  /\ pc["manager"] = "thread_init" => pc["distributor"] = "unborn"
  /\ pc["manager"] \in {"returned", "retest"} /\ ~pending["manager"] => pc["distributor"] = "unborn"

IInv ==
  /\ TypeOK
  /\ ManagerOrder
  /\ TeardownOrder
  /\ InputOrder
  /\ TerminatesOnlyIf
  /\ NeverMisrouted
  /\ Alive /\ ~OutOfOrder => HandlerOrder /\ StopOrder
  /\ pc["main"] = "exited" /\ ~OutOfOrder => StopOrder

-----------------------------------------------------------------------------
LEMMA InitIInv == Init => IInv
<1> SUFFICES ASSUME Init PROVE IInv
  OBVIOUS
<1> USE HostsAssumption DEF Init, Threads, IThreads
<1>1. /\ pc["main"] = "init" /\ pc["manager"] = "thread_init" /\ pc["distributor"] = "unborn"
      /\ pc["matrix"] = "check" /\ pc["input"] = "check" /\ pc["bus"] = "check"
  OBVIOUS
<1>2. TypeOK
  <2>1. pc \in [Threads -> Places]
    BY <1>1 DEF Places, LoopPlaces, MainPlaces
  <2>2. \A t \in IThreads : /\ pc[t] \in LoopPlaces
                            /\ running[t] <=> pc[t] \notin {"closing", "over"}
    BY <1>1 DEF LoopPlaces
  <2>3. handler \in [Hosts -> HandlerPlaces]
    <3>1. "no signal" \in HandlerPlaces
      BY DEF HandlerPlaces
    <3> QED
      BY <3>1
  <2>7. signals \in 0 .. MaxSignals
    <3>1. signals = 0 /\ MaxSignals \in Nat
      BY DEF HostsAssumption
    <3> HIDE DEF Init
    <3> QED
      BY <3>1
  <2>4. pc["main"] \in MainPlaces
    BY <1>1 DEF MainPlaces
  <2>5. disturbed \subseteq {"init failed", "early", "twice", "overslept"}
    OBVIOUS
  <2>6. delayedLock \in {"nobody", "matrix"} /\ (delayedLock = "matrix" <=> pc["matrix"] = "sending")
    BY <1>1
  <2> QED
    BY <1>1, <2>1, <2>2, <2>3, <2>4, <2>5, <2>6, <2>7 DEF TypeOK
<1>3. /\ TeardownOrder /\ InputOrder /\ TerminatesOnlyIf /\ NeverMisrouted /\ ManagerOrder
      /\ pc["main"] # "exited"
  BY <1>1 DEF ManagerOrder, TeardownOrder, InputOrder, TerminatesOnlyIf, NeverMisrouted
<1>4. HandlerOrder /\ StopOrder
  BY <1>1 DEF HandlerOrder, StopOrder, Active, AfterDistributor, AfterManager
<1> QED
  BY <1>2, <1>3, <1>4 DEF IInv

-----------------------------------------------------------------------------
(***************************************************************************)
(* A step of a thread other than main, as far as the argument is concerned *)
(***************************************************************************)
Settled ==
  /\ \A y \in Threads : pc[y] = "over" => pc'[y] = "over"
  /\ pc["distributor"] # "unborn" => pc'["distributor"] # "unborn"

LoopEffect ==
  /\ Alive /\ TypeOK'
  /\ UNCHANGED << pending, joined, handler, signals >>
  /\ pc'["main"] = pc["main"]
  /\ Settled
  /\ OutOfOrder' <=> OutOfOrder
  /\ "init failed" \in disturbed' <=> "init failed" \in disturbed
  /\ pc'["matrix"] \in {"closing", "over"} =>
       pc["matrix"] \in {"closing", "over"} \/ pending["matrix"]
  /\ misrouted' => misrouted \/ (pc["matrix"] \in {"closing", "over"} /\ pc["distributor"] # "over")

LEMMA GoFacts ==
  ASSUME TypeOK, NEW t \in Threads, NEW from, NEW to \in Places, Go(t, from, to)
  PROVE  /\ Alive /\ pc[t] = from /\ pc'[t] = to
         /\ \A y \in Threads : y # t => pc'[y] = pc[y]
         /\ pc' \in [Threads -> Places]
  BY DEF TypeOK, Go

LEMMA GoEffect ==
  ASSUME TypeOK, NEW t \in Threads \ {"main"}, NEW from \in LoopPlaces \ {"over"},
         NEW to \in LoopPlaces, Go(t, from, to),
         t \in IThreads => running' = [running EXCEPT ![t] = (to \notin {"closing", "over"})],
         t \notin IThreads => running' = running,
         armed' \in BOOLEAN,
         delayedLock' = IF t = "matrix" THEN (IF to = "sending" THEN "matrix" ELSE "nobody")
                        ELSE delayedLock,
         t = "matrix" /\ to \in {"closing", "over"} /\ from # "closing" => pending["matrix"],
         interrupted' \in BOOLEAN, interrupted' => interrupted /\ ~(t = "manager" /\ from = "epoll"),
         UNCHANGED << pending, joined, handler, signals >>,
         misrouted' \in BOOLEAN,
         misrouted' => \/ misrouted
                       \/ pc["matrix"] \in {"closing", "over"} /\ pc["distributor"] # "over",
         disturbed' = disturbed \/ disturbed' = disturbed \cup {"overslept"}
  PROVE  LoopEffect
<1> USE DEF Threads, IThreads
<1>1. /\ Alive /\ pc[t] = from /\ pc'[t] = to
      /\ \A y \in Threads : y # t => pc'[y] = pc[y]
      /\ pc' \in [Threads -> Places]
  BY GoFacts DEF Places
<1>2. pc'["main"] = pc["main"]
  BY <1>1
<1>3. \A y \in IThreads : /\ pc'[y] \in LoopPlaces
                           /\ running'[y] <=> pc'[y] \notin {"closing", "over"}
  BY <1>1 DEF TypeOK
<1>4. delayedLock' \in {"nobody", "matrix"} /\ (delayedLock' = "matrix" <=> pc'["matrix"] = "sending")
  BY <1>1 DEF TypeOK
<1>5. running' \in [IThreads -> BOOLEAN]
  BY DEF TypeOK
<1>6. disturbed' \subseteq {"init failed", "early", "twice", "overslept"}
  BY DEF TypeOK
<1>11. interrupted' => pc'["manager"] = "epoll"
  BY <1>1 DEF TypeOK
<1>7. TypeOK'
  BY <1>1, <1>2, <1>3, <1>4, <1>5, <1>6, <1>11 DEF TypeOK
<1>8. Settled
  BY <1>1 DEF Settled, LoopPlaces
<1>9. pc'["matrix"] \in {"closing", "over"} =>
        pc["matrix"] \in {"closing", "over"} \/ pending["matrix"]
  BY <1>1
<1>10. (OutOfOrder' <=> OutOfOrder) /\ ("init failed" \in disturbed' <=> "init failed" \in disturbed)
  BY DEF OutOfOrder
<1> QED
  BY <1>1, <1>2, <1>7, <1>8, <1>9, <1>10 DEF LoopEffect

\* most steps stay in the loop and touch no lock
LEMMA PlainEffect ==
  ASSUME TypeOK, NEW t \in Threads \ {"main"},
         NEW from \in LoopPlaces \ {"over", "closing", "sending"},
         NEW to \in LoopPlaces \ {"over", "closing", "sending"}, Go(t, from, to),
         interrupted' \in BOOLEAN, interrupted' => interrupted /\ ~(t = "manager" /\ from = "epoll"),
         UNCHANGED << running, delayedLock >>, armed' \in BOOLEAN,
         UNCHANGED << pending, joined, handler, signals, misrouted >>,
         disturbed' = disturbed \/ disturbed' = disturbed \cup {"overslept"}
  PROVE  LoopEffect
<1>1. t \in IThreads => running' = [running EXCEPT ![t] = (to \notin {"closing", "over"})]
  <2>1. ASSUME t \in IThreads PROVE running[t] = TRUE
    <3>1. pc[t] = from
      BY GoFacts DEF Places
    <3>2. running[t] \in BOOLEAN /\ (running[t] <=> pc[t] \notin {"closing", "over"})
      BY <2>1 DEF TypeOK
    <3> QED
      BY <3>1, <3>2
  <2> QED
    BY <2>1 DEF TypeOK
<1>2. delayedLock' = IF t = "matrix" THEN (IF to = "sending" THEN "matrix" ELSE "nobody")
                        ELSE delayedLock
  <2>1. pc[t] = from
    BY GoFacts DEF Places
  <2>2. delayedLock \in {"nobody", "matrix"} /\ (delayedLock = "matrix" <=> pc["matrix"] = "sending")
    BY DEF TypeOK
  <2> QED
    BY <2>1, <2>2
<1>3. misrouted' \in BOOLEAN /\ (misrouted' => misrouted)
  BY DEF TypeOK
<1>4. to \notin {"closing", "over"} /\ from \notin {"closing", "over"}
  OBVIOUS
<1> QED
  BY <1>1, <1>2, <1>3, <1>4, GoEffect

(***************************************************************************)
(* The manager starts the distributor once: it comes back to thread_init   *)
(* only when that has failed.                                              *)
(***************************************************************************)
LEMMA ManagerOrderStep ==
  ASSUME TypeOK, ManagerOrder, NEW t \in Threads \ {"main"}, Loop(t)
  PROVE  ManagerOrder'
<1> USE DEF ManagerOrder, LoopUnchanged, Oversleeps
<1>0. {"manager", "matrix", "input", "distributor", "bus"} \subseteq Threads
  BY DEF Threads, IThreads
<1> USE <1>0
<1>1. CASE t \in {"matrix", "input", "bus"}
  <2>1. pc'["manager"] = pc["manager"] /\ pc'["distributor"] = pc["distributor"]
    BY <1>1 DEF TypeOK, Go, Loop, MatrixCheck, HandleMessage, SendDelayed, SentDelayed,
       InputSends, InputEnds, Wait, Returned, Closed, Retest, BusSeesExit
  <2>2. pending' = pending
    BY <1>1 DEF Loop, MatrixCheck, HandleMessage, SendDelayed, SentDelayed,
       InputSends, InputEnds, Wait, Returned, Closed, Retest, BusSeesExit
  <2> QED
    BY <2>1, <2>2
<1>2. CASE t = "distributor"
  <2>1. /\ pc["distributor"] \in {"check", "decided"} /\ pending' = pending
        /\ pc'["manager"] = pc["manager"]
    BY <1>2 DEF TypeOK, Go, Loop, DistributorCheck, Wait
  <2> QED
    BY <2>1
<1>3. CASE t = "manager"
  <2>1. ASSUME ThreadInit PROVE ManagerOrder'
    BY <2>1 DEF TypeOK, Go, ThreadInit
  <2>2. ASSUME ManagerCheck \/ UpdateDelayedTimer \/ EpollWait \/ Drain PROVE ManagerOrder'
    BY <2>2 DEF TypeOK, Go, ManagerCheck, UpdateDelayedTimer, EpollWait, Drain
  <2>3. ASSUME Returned("manager") \/ Closed("manager") \/ Retest("manager")
        PROVE ManagerOrder'
    BY <2>3 DEF TypeOK, Go, Returned, Closed, Retest
  <2> QED
    BY <1>3, <2>1, <2>2, <2>3 DEF Loop
<1> QED
  BY <1>1, <1>2, <1>3 DEF Threads, IThreads

LEMMA LoopEffectKeeps ==
  ASSUME IInv, LoopEffect, ManagerOrder'
  PROVE  IInv'
<1> USE HostsAssumption DEF IInv, LoopEffect, Settled, Threads, IThreads
<1>1. TypeOK' /\ Alive'
  BY DEF Alive
<1>2. TeardownOrder' /\ InputOrder'
  BY DEF TeardownOrder, InputOrder
<1>3. TerminatesOnlyIf'
  BY <1>1 DEF TerminatesOnlyIf, Alive
<1>4. ManagerEnded => ManagerEnded'
  BY DEF ManagerEnded
<1>5. StopOrder => StopOrder'
  BY <1>4 DEF StopOrder
<1>6. HandlerOrder => HandlerOrder'
  BY <1>4 DEF HandlerOrder, Active
<1>7. NeverMisrouted'
  BY DEF NeverMisrouted, StopOrder, TeardownOrder
<1>8. pc'["main"] # "exited"
  BY DEF Alive
<1> QED
  BY <1>1, <1>2, <1>3, <1>5, <1>6, <1>7, <1>8 DEF Alive

-----------------------------------------------------------------------------
(***************************************************************************)
(* Every step of a thread of the program other than main is such a step.   *)
(***************************************************************************)
LEMMA LoopStep ==
  ASSUME IInv, NEW t \in Threads \ {"main"}, Loop(t)
  PROVE  IInv'
<1> USE DEF LoopUnchanged, Oversleeps
<1>0. TypeOK /\ {"manager", "matrix", "input", "distributor", "bus"} \subseteq Threads \ {"main"}
  BY DEF IInv, Threads, IThreads
<1> DEFINE Inner == LoopPlaces \ {"over", "closing", "sending"}
<1>i. {"thread_init", "check", "update", "epoll", "drain", "handle", "decided", "waiting",
       "returned", "retest", "gone"} \subseteq Inner
  BY DEF LoopPlaces
<1>b. armed \in BOOLEAN /\ misrouted \in BOOLEAN /\ interrupted \in BOOLEAN
  BY <1>0 DEF TypeOK
<1>m. ManagerOrder'
  BY ManagerOrderStep DEF IInv
<1> HIDE DEF Inner
<1>1. ASSUME t = "manager", ThreadInit PROVE LoopEffect
  <2>1. CASE Go("manager", "thread_init", "returned")
    BY <1>0, <1>i, <1>b, <1>1, <2>1, PlainEffect DEF ThreadInit, Inner
  <2>2. CASE /\ Alive /\ pc["manager"] = "thread_init"
             /\ pc' = [pc EXCEPT !["manager"] = "check", !["distributor"] = "check"]
    <3>1. /\ pc'["manager"] = "check" /\ pc'["distributor"] = "check"
          /\ \A y \in Threads \ {"manager", "distributor"} : pc'[y] = pc[y]
          /\ pc' \in [Threads -> Places]
      BY <1>0, <1>i, <2>2 DEF TypeOK, Places, Inner
    <3>2. pc["distributor"] = "unborn"
      BY <2>2 DEF IInv, ManagerOrder
    <3> QED
      BY <1>0, <1>1, <2>2, <3>1, <3>2 DEF ThreadInit, LoopEffect, Settled, TypeOK, OutOfOrder, Threads, IThreads, LoopPlaces
  <2> QED
    BY <1>1, <2>1, <2>2 DEF ThreadInit
<1>2. ASSUME t = "manager", ManagerCheck PROVE LoopEffect
  <2>1. PICK to \in {"returned", "update"} : Go("manager", "check", to)
    BY <1>2 DEF ManagerCheck
  <2> QED
    BY <1>0, <1>i, <1>b, <1>2, <2>1, PlainEffect DEF ManagerCheck, Inner
<1>3. ASSUME t = "manager", UpdateDelayedTimer PROVE LoopEffect
  <2>1. Go("manager", "update", "epoll") /\ armed' \in BOOLEAN /\ UNCHANGED interrupted
    BY <1>3 DEF UpdateDelayedTimer
  <2> QED
    BY <1>0, <1>i, <1>b, <1>3, <2>1, PlainEffect DEF UpdateDelayedTimer, Inner
<1>4. ASSUME t = "manager", EpollWait PROVE LoopEffect
  <2>1. PICK to \in {"returned", "drain", "check"} : Go("manager", "epoll", to)
    BY <1>4 DEF EpollWait
  <2> QED
    BY <1>0, <1>i, <1>b, <1>4, <2>1, PlainEffect DEF EpollWait, Inner
<1>5. ASSUME t = "manager", Drain PROVE LoopEffect
  BY <1>0, <1>i, <1>b, <1>5, PlainEffect DEF Drain, Inner
<1>6. ASSUME t = "matrix", MatrixCheck PROVE LoopEffect
  <2>1. PICK to \in {"returned", "decided", "handle"} : Go("matrix", "check", to)
    BY <1>6 DEF MatrixCheck
  <2> QED
    BY <1>0, <1>i, <1>b, <1>6, <2>1, PlainEffect DEF MatrixCheck, Inner
<1>7. ASSUME t = "matrix", HandleMessage PROVE LoopEffect
  BY <1>0, <1>i, <1>b, <1>7, PlainEffect DEF HandleMessage, Inner
<1>8. ASSUME t = "matrix", SendDelayed PROVE LoopEffect
  <2>1. running["matrix"] = TRUE
    BY <1>0, <1>8 DEF SendDelayed, TypeOK, IThreads, Go
  <2>2. running' = [running EXCEPT !["matrix"] = TRUE]
    BY <1>0, <1>8, <2>1 DEF SendDelayed, TypeOK
  <2> QED
    BY <1>0, <1>b, <1>8, <2>2, GoEffect DEF SendDelayed, LoopUnchanged, IThreads, LoopPlaces
<1>9. ASSUME t = "matrix", SentDelayed PROVE LoopEffect
  <2>1. running["matrix"] = TRUE
    BY <1>0, <1>9 DEF SentDelayed, TypeOK, IThreads, Go
  <2>2. running' = [running EXCEPT !["matrix"] = TRUE]
    BY <1>0, <1>9, <2>1 DEF SentDelayed, TypeOK
  <2> QED
    BY <1>0, <1>b, <1>9, <2>2, GoEffect DEF SentDelayed, Arm, LoopUnchanged, IThreads, LoopPlaces
<1>10. ASSUME t = "input", InputSends PROVE LoopEffect
  <2>1. running["input"] = TRUE /\ (~running["matrix"] => pc["matrix"] \in {"closing", "over"})
    BY <1>0, <1>10 DEF InputSends, TypeOK, IThreads, Go
  <2>2. running' = [running EXCEPT !["input"] = TRUE]
    BY <1>0, <1>10, <2>1 DEF InputSends, TypeOK
  <2>3. /\ misrouted' \in BOOLEAN
        /\ misrouted' => \/ misrouted
                         \/ pc["matrix"] \in {"closing", "over"} /\ pc["distributor"] # "over"
    BY <1>b, <1>10, <2>1 DEF InputSends
  <2> QED
    BY <1>0, <1>b, <1>10, <2>2, <2>3, GoEffect DEF InputSends, IThreads, LoopPlaces
<1>11. ASSUME t = "input", InputEnds PROVE LoopEffect
  <2>1. running' = [running EXCEPT !["input"] = FALSE]
    BY <1>11 DEF InputEnds
  <2> QED
    BY <1>0, <1>b, <1>11, <2>1, GoEffect DEF InputEnds, LoopUnchanged, IThreads, LoopPlaces
<1>12. ASSUME t \in {"matrix", "distributor"}, Wait(t) PROVE LoopEffect
  BY <1>0, <1>i, <1>b, <1>12, PlainEffect DEF Wait, Inner
<1>13. ASSUME t \in {"manager", "matrix"}, Returned(t) PROVE LoopEffect
  BY <1>0, <1>b, <1>13, GoEffect DEF Returned, StillRunning, TypeOK, IThreads, LoopPlaces, Go
<1>17. ASSUME t \in {"manager", "matrix"}, Closed(t) PROVE LoopEffect
  <2>1. running[t] = FALSE
    BY <1>0, <1>17 DEF Closed, TypeOK, IThreads, Go
  <2>2. running' = [running EXCEPT ![t] = FALSE]
    BY <1>0, <1>17, <2>1 DEF Closed, TypeOK
  <2>3. Go(t, "closing", "over")
    BY <1>17 DEF Closed
  <2>4. delayedLock' = IF t = "matrix" THEN "nobody" ELSE delayedLock
    BY <1>0, <1>17, <2>3 DEF Closed, TypeOK, Go
  <2> QED
    BY <1>0, <1>b, <1>17, <2>2, <2>3, <2>4, GoEffect DEF Closed, IThreads, LoopPlaces
<1>14. ASSUME t \in {"manager", "matrix"}, Retest(t) PROVE LoopEffect
  <2>1. PICK to \in {"gone", "thread_init", "check"} : Go(t, "retest", to)
    BY <1>14 DEF Retest
  <2> QED
    BY <1>0, <1>i, <1>b, <1>14, <2>1, PlainEffect DEF Retest, Inner
<1>15. ASSUME t = "distributor", DistributorCheck PROVE LoopEffect
  BY <1>0, <1>b, <1>15, GoEffect DEF DistributorCheck, TypeOK, IThreads, LoopPlaces, Go
<1>16. ASSUME t = "bus", BusSeesExit PROVE LoopEffect
  BY <1>0, <1>b, <1>16, GoEffect DEF BusSeesExit, TypeOK, IThreads, LoopPlaces, Go
<1> QED
  BY LoopEffectKeeps, <1>m, <1>1, <1>2, <1>3, <1>4, <1>5, <1>6, <1>7, <1>8, <1>9, <1>10, <1>11,
     <1>12, <1>13, <1>14, <1>15, <1>16, <1>17 DEF Loop

\* messages and an end of stream move one thread as well
LEMMA ArrivalStep ==
  ASSUME IInv, EndOfStream \/ InputTakes \/ \E t \in {"matrix", "distributor"} : Notified(t)
  PROVE  IInv'
<1> USE DEF LoopUnchanged
<1>0. TypeOK /\ {"matrix", "input", "distributor", "bus"} \subseteq Threads \ {"main"}
      /\ armed \in BOOLEAN /\ misrouted \in BOOLEAN /\ interrupted \in BOOLEAN
  BY DEF IInv, TypeOK, Threads, IThreads
<1>1. ASSUME EndOfStream PROVE LoopEffect /\ ManagerOrder'
  <2>1. LoopEffect
    BY <1>0, <1>1, GoEffect DEF EndOfStream, TypeOK, IThreads, LoopPlaces, Go
  <2>2. ManagerOrder'
    BY <1>0, <1>1 DEF EndOfStream, TypeOK, Go, IInv, ManagerOrder, Threads, IThreads
  <2> QED
    BY <2>1, <2>2
<1>2. ASSUME InputTakes PROVE LoopEffect /\ ManagerOrder'
  <2>1. LoopEffect
    BY <1>0, <1>2, PlainEffect DEF InputTakes, LoopPlaces
  <2>2. ManagerOrder'
    BY <1>0, <1>2 DEF InputTakes, TypeOK, Go, IInv, ManagerOrder, Threads, IThreads
  <2> QED
    BY <2>1, <2>2
<1>3. ASSUME NEW t \in {"matrix", "distributor"}, Notified(t) PROVE LoopEffect /\ ManagerOrder'
  <2>1. LoopEffect
    BY <1>0, <1>3, PlainEffect DEF Notified, LoopPlaces
  <2>2. ManagerOrder'
    BY <1>0, <1>3 DEF Notified, TypeOK, Go, IInv, ManagerOrder, Threads, IThreads
  <2> QED
    BY <2>1, <2>2
<1> QED
  BY <1>1, <1>2, <1>3, LoopEffectKeeps

-----------------------------------------------------------------------------
(***************************************************************************)
(* The handler                                                             *)
(***************************************************************************)
LEMMA AwakeFacts ==
  ASSUME TypeOK, NEW S \in SUBSET {"matrix", "input", "distributor"}, pc' = Awake(S)
  PROVE  /\ pc' \in [Threads -> Places]
         /\ \A t \in Threads : pc'[t] = pc[t] \/ (pc[t] = "waiting" /\ pc'[t] = "check")
         /\ \A t \in Threads \ S : pc'[t] = pc[t]
<1>1. "check" \in Places
  BY DEF Places, LoopPlaces
<1> QED
  BY <1>1 DEF TypeOK, Awake

LEMMA SignalStep ==
  ASSUME IInv, NEW h \in Hosts, Signal(h)
  PROVE  IInv'
<1>0. signals' \in 0 .. MaxSignals
  <2>1. signals \in 0 .. MaxSignals /\ signals < MaxSignals /\ signals' = signals + 1
    BY DEF IInv, TypeOK, Signal
  <2>2. MaxSignals \in Nat
    BY HostsAssumption DEF HostsAssumption
  <2> HIDE DEF IInv, Signal
  <2> QED
    BY <2>1, <2>2
<1> USE DEF IInv, Signal
<1>1. /\ handler'[h] = "stop manager"
      /\ \A g \in Hosts \ {h} : handler'[g] = handler[g]
      /\ handler' \in [Hosts -> HandlerPlaces]
  BY DEF TypeOK, HandlerPlaces
<1>2. TypeOK'
  <2>1. disturbed' \subseteq {"init failed", "early", "twice", "overslept"}
    BY DEF TypeOK
  <2>2. TypeOK /\ UNCHANGED << pc, pending, running, armed, joined, delayedLock, misrouted >>
    OBVIOUS
  <2>3. interrupted' \in BOOLEAN /\ (interrupted' => pc["manager"] = "epoll")
    BY DEF TypeOK
  <2> HIDE DEF IInv, Signal
  <2> QED
    BY <1>0, <1>1, <2>1, <2>2, <2>3 DEF TypeOK
<1>3. OutOfOrder => OutOfOrder'
  BY DEF OutOfOrder
<1>4. TeardownOrder' /\ ManagerOrder' /\ InputOrder'
  BY <1>1 DEF TeardownOrder, ManagerOrder, InputOrder
<1>5. Alive /\ Alive'
  BY DEF Alive
<1>6. TerminatesOnlyIf' /\ NeverMisrouted' /\ pc'["main"] # "exited"
  BY <1>3, <1>5 DEF TerminatesOnlyIf, NeverMisrouted, Alive
<1>7. ManagerEnded => ManagerEnded'
  BY <1>1 DEF ManagerEnded
<1>8. ASSUME ~OutOfOrder', HandlerOrder, StopOrder PROVE HandlerOrder' /\ StopOrder'
  <2>1. Active = {} /\ pc["distributor"] # "unborn"
    BY <1>8 DEF OutOfOrder
  <2>2. Active' \subseteq {h}
    BY <1>1, <2>1 DEF Active
  <2>3. HandlerOrder'
    BY <1>1, <1>7, <1>8, <2>1, <2>2 DEF HandlerOrder, AfterDistributor, AfterManager
  <2>4. StopOrder'
    BY <1>7, <1>8 DEF StopOrder
  <2> QED
    BY <2>3, <2>4
<1> QED
  BY <1>2, <1>3, <1>4, <1>5, <1>6, <1>8

\* what a step of the handler on thread h has to show
LEMMA HandlerKeeps ==
  ASSUME IInv, NEW h \in Hosts, NEW from \in HandlerPlaces \ {"no signal", "done"},
         NEW to \in HandlerPlaces \ {"no signal"}, HandlerStep(h, from, to),
         NEW S \in SUBSET {"matrix", "input", "distributor"}, pc' = Awake(S),
         pending' \in [IThreads -> BOOLEAN], armed' \in BOOLEAN, joined' \in BOOLEAN,
         \A t \in IThreads : pending[t] => pending'[t],
         joined => joined', joined' => pc["distributor"] = "over",
         joined' # joined => from = "join distributor",
         to \in {"stop matrix", "done"} => pending'["input"],
         pending'["matrix"] => pending["matrix"] \/ from = "stop matrix",
         ~OutOfOrder /\ HandlerOrder =>
           /\ to = "join distributor" => ~joined'
           /\ to \in AfterDistributor => joined'
           /\ to \in AfterManager => ManagerEnded'
  PROVE  IInv'
<1> USE DEF IInv, IThreads, Threads
<1>1. /\ Alive /\ handler[h] = from /\ handler'[h] = to
      /\ \A g \in Hosts \ {h} : handler'[g] = handler[g]
      /\ handler' \in [Hosts -> HandlerPlaces]
      /\ UNCHANGED << running, delayedLock, interrupted, signals, misrouted, disturbed >>
  BY DEF HandlerStep, TypeOK
<1>2. /\ pc' \in [Threads -> Places]
      /\ \A t \in Threads : pc'[t] = pc[t] \/ (pc[t] = "waiting" /\ pc'[t] = "check")
      /\ pc'["main"] = pc["main"] /\ pc'["manager"] = pc["manager"]
  <2>1. /\ pc' \in [Threads -> Places]
        /\ \A t \in Threads : pc'[t] = pc[t] \/ (pc[t] = "waiting" /\ pc'[t] = "check")
        /\ \A t \in Threads \ S : pc'[t] = pc[t]
    <3> HIDE DEF Threads, IThreads
    <3> QED
      BY AwakeFacts
  <2>2. {"main", "manager"} \subseteq Threads \ S
    OBVIOUS
  <2> QED
    BY <2>1, <2>2
<1> HIDE DEF HandlerStep, Awake
<1>3. TypeOK'
  <2>1. \A t \in IThreads : /\ pc'[t] \in LoopPlaces
                            /\ running'[t] <=> pc'[t] \notin {"closing", "over"}
    <3>1. "check" \in LoopPlaces
      BY DEF LoopPlaces
    <3>2. \A t \in IThreads : /\ pc[t] \in LoopPlaces
                              /\ running[t] <=> pc[t] \notin {"closing", "over"}
      BY DEF TypeOK
    <3>3. running' = running /\ IThreads \subseteq Threads
      BY <1>1
    <3> HIDE DEF IInv, Threads, IThreads
    <3> QED
      BY <1>2, <3>1, <3>2, <3>3
  <2>2. delayedLock' = "matrix" <=> pc'["matrix"] = "sending"
    BY <1>1, <1>2 DEF TypeOK
  <2> QED
    BY <1>1, <1>2, <2>1, <2>2 DEF TypeOK
<1>4. TeardownOrder' /\ ManagerOrder'
  BY <1>1, <1>2 DEF TeardownOrder, ManagerOrder
<1>9. InputOrder'
  <2>1. from = "stop matrix" => pending["input"]
    BY <1>1 DEF InputOrder
  <2>2. \A g \in Hosts : handler'[g] \in {"stop matrix", "done"} => pending'["input"]
    BY <1>1 DEF InputOrder
  <2> QED
    BY <1>1, <1>2, <2>1, <2>2 DEF InputOrder
<1>5. Alive' /\ pc'["main"] # "exited" /\ (OutOfOrder' <=> OutOfOrder)
  BY <1>1, <1>2 DEF Alive, OutOfOrder
<1>6. TerminatesOnlyIf' /\ NeverMisrouted'
  BY <1>1, <1>5 DEF TerminatesOnlyIf, NeverMisrouted, Alive
<1>7. ManagerEnded => ManagerEnded'
  BY <1>1, <1>2 DEF ManagerEnded
<1>8. ASSUME ~OutOfOrder, HandlerOrder, StopOrder PROVE HandlerOrder' /\ StopOrder'
  <2>1. h \in Active /\ Active' \subseteq Active
    BY <1>1 DEF Active, HandlerPlaces
  <2>2. \A g \in Hosts \ {h} : g \notin Active
    BY <1>8, <2>1 DEF HandlerOrder
  <2>3. from = "stop matrix" => joined /\ ManagerEnded
    BY <1>1, <1>8 DEF HandlerOrder, AfterDistributor, AfterManager
  <2>4. HandlerOrder'
    <3>1. Active' # {} => pc'["distributor"] # "unborn"
      BY <1>2, <1>8, <2>1 DEF HandlerOrder
    <3>2. \A g \in Hosts :
            /\ handler'[g] = "join distributor" => ~joined'
            /\ handler'[g] \in AfterDistributor => joined'
            /\ handler'[g] \in AfterManager => ManagerEnded'
      <4>1. TAKE g \in Hosts
      <4>2. CASE g = h
        BY <1>1, <1>8, <4>2
      <4>3. CASE g # h
        <5>1. handler'[g] = handler[g] /\ handler[g] # "join distributor"
          BY <1>1, <2>2, <4>3 DEF Active
        <5> QED
          BY <1>7, <1>8, <5>1 DEF HandlerOrder
      <4> QED
        BY <4>2, <4>3
    <3> QED
      BY <1>8, <2>1, <3>1, <3>2 DEF HandlerOrder
  <2>5. StopOrder'
    BY <1>2, <1>7, <1>8, <2>3 DEF StopOrder
  <2> QED
    BY <2>4, <2>5
<1> QED
  BY <1>1, <1>3, <1>4, <1>5, <1>6, <1>8, <1>9

\* std::terminate in the handler
LEMMA CrashKeeps ==
  ASSUME IInv, NEW h \in Hosts, HandlerStep(h, "join distributor", "join manager"),
         h = "distributor" \/ joined \/ \E g \in Hosts \ {h} : handler[g] = "join distributor",
         pc' = [pc EXCEPT !["main"] = "crashed"], UNCHANGED << pending, armed, joined >>
  PROVE  IInv'
<1> USE DEF IThreads, Threads
<1>1. /\ Alive /\ handler[h] = "join distributor" /\ handler'[h] = "join manager"
      /\ \A g \in Hosts \ {h} : handler'[g] = handler[g]
      /\ handler' \in [Hosts -> HandlerPlaces]
      /\ UNCHANGED << running, delayedLock, interrupted, signals, misrouted, disturbed >>
  BY DEF HandlerStep, TypeOK, IInv, HandlerPlaces
<1>2. /\ pc'["main"] = "crashed" /\ \A t \in Threads \ {"main"} : pc'[t] = pc[t]
  BY DEF TypeOK, IInv
<1>3. TypeOK'
  <2>1. pc' \in [Threads -> Places] /\ "crashed" \in MainPlaces
    BY DEF TypeOK, IInv, Places, MainPlaces
  <2> QED
    BY <1>1, <1>2, <2>1 DEF TypeOK, IInv
<1>4. TeardownOrder' /\ ManagerOrder' /\ InputOrder'
  <2>1. "main" \in Threads /\ handler'[h] \notin {"stop matrix", "done"}
    BY <1>1
  <2>2. pending["matrix"] => pending["input"] \/ "init failed" \in disturbed
    BY DEF IInv, InputOrder
  <2>3. InputOrder'
    BY <1>1, <1>2, <2>1, <2>2 DEF InputOrder, IInv
  <2> QED
    BY <1>1, <1>2, <2>3 DEF TeardownOrder, ManagerOrder, IInv
<1>5. NeverMisrouted' /\ ~Alive'
  BY <1>1, <1>2 DEF NeverMisrouted, IInv, OutOfOrder, Alive
<1>6. OutOfOrder \/ h = "distributor"
  <2>1. ASSUME ~OutOfOrder PROVE HandlerOrder
    BY <1>1, <2>1 DEF IInv
  <2>2. ASSUME HandlerOrder PROVE h = "distributor"
    BY <1>1, <2>2 DEF HandlerOrder, Active
  <2> QED
    BY <2>1, <2>2
<1>7. TerminatesOnlyIf'
  BY <1>1, <1>6 DEF TerminatesOnlyIf, OutOfOrder
<1> QED
  BY <1>2, <1>3, <1>4, <1>5, <1>7 DEF IInv

LEMMA HandlerStepKeeps ==
  ASSUME IInv, NEW h \in Hosts, Handler(h)
  PROVE  IInv'
<1>0. /\ TypeOK /\ pending \in [IThreads -> BOOLEAN] /\ armed \in BOOLEAN /\ joined \in BOOLEAN
      /\ joined => pc["distributor"] = "over"
      /\ pc = Awake({}) /\ {} \in SUBSET {"matrix", "input", "distributor"}
  BY DEF IInv, TypeOK, TeardownOrder, Awake
<1>i. IThreads = {"manager", "matrix", "input"}
  BY DEF IThreads
<1>p. /\ {"stop manager", "wake manager", "joinable", "join distributor", "join manager",
          "stop input", "stop matrix"} \subseteq HandlerPlaces \ {"no signal", "done"}
      /\ "done" \in HandlerPlaces \ {"no signal"}
      /\ AfterDistributor = {"join manager", "stop input", "stop matrix", "done"}
      /\ AfterManager = {"stop input", "stop matrix", "done"}
  BY DEF HandlerPlaces, AfterDistributor, AfterManager
<1>o. HandlerOrder => /\ handler[h] \in AfterDistributor => joined
                      /\ handler[h] \in AfterManager => ManagerEnded
                      /\ handler[h] \notin {"no signal", "done"} => pc["distributor"] # "unborn"
  BY DEF HandlerOrder, Active
<1>1. ASSUME StopManager(h) PROVE IInv'
  <2>1. /\ HandlerStep(h, "stop manager", "wake manager") /\ pc' = Awake({})
        /\ armed' = armed /\ joined' = joined
        /\ pending' \in [IThreads -> BOOLEAN] /\ pending'["matrix"] = pending["matrix"]
    BY <1>0, <1>1, <1>i DEF StopManager
  <2>2. \A t \in IThreads : pending[t] => pending'[t]
    BY <1>0, <1>1 DEF StopManager
  <2> QED
    BY <1>0, <1>p, <2>1, <2>2, HandlerKeeps
<1>2. ASSUME WakeManager(h) PROVE IInv'
  <2>1. /\ HandlerStep(h, "wake manager", "joinable") /\ pc' = Awake({"distributor"})
        /\ armed' \in BOOLEAN /\ UNCHANGED << pending, joined >>
    BY <1>2 DEF WakeManager, Arm
  <2> QED
    BY <1>0, <1>p, <2>1, HandlerKeeps
<1>3. ASSUME TestJoinable(h) PROVE IInv'
  <2>1. PICK to \in {"join distributor", "join manager"} :
          /\ HandlerStep(h, "joinable", to)
          /\ to = "join distributor" <=> Joinable
    BY <1>3 DEF TestJoinable
  <2>2. pc' = Awake({}) /\ UNCHANGED << pending, armed, joined >>
    BY <1>0, <1>3 DEF TestJoinable
  <2>3. handler[h] = "joinable"
    BY <2>1 DEF HandlerStep
  <2>4. HandlerOrder => /\ to = "join distributor" => ~joined
                        /\ to = "join manager" => joined
    BY <1>o, <2>1, <2>3 DEF Joinable
  <2> QED
    BY <1>0, <1>p, <2>1, <2>2, <2>4, HandlerKeeps
<1>4. ASSUME JoinDistributor(h) PROVE IInv'
  <2>0. HandlerStep(h, "join distributor", "join manager") /\ UNCHANGED << pending, armed >>
    BY <1>4 DEF JoinDistributor
  <2>1. CASE pc["distributor"] = "over" /\ pc' = pc /\ joined' = TRUE
    BY <1>0, <1>p, <2>0, <2>1, HandlerKeeps
  <2>2. CASE /\ h = "distributor" \/ joined \/ \E g \in Hosts \ {h} : handler[g] = "join distributor"
             /\ pc' = [pc EXCEPT !["main"] = "crashed"] /\ joined' = joined
    BY <1>0, <2>0, <2>2, CrashKeeps
  <2> QED
    BY <1>4, <2>1, <2>2 DEF JoinDistributor
<1>5. ASSUME JoinManager(h) PROVE IInv'
  <2>1. /\ HandlerStep(h, "join manager", "stop input") /\ pc' = Awake({})
        /\ UNCHANGED << pending, armed, joined >>
    BY <1>0, <1>5 DEF JoinManager
  <2>2. handler[h] = "join manager" /\ handler'[h] = "stop input"
    BY <1>0, <2>1 DEF HandlerStep, TypeOK
  <2>3. ManagerEnded'
    <3>1. CASE h = "manager"
      BY <2>2, <3>1 DEF ManagerEnded
    <3>2. CASE Ended("manager")
      BY <1>0, <1>i, <1>5, <3>2 DEF TypeOK, ManagerEnded, JoinManager, Ended
    <3> QED
      BY <1>5, <3>1, <3>2 DEF JoinManager, ManagerOver
  <2> QED
    BY <1>0, <1>p, <1>o, <2>1, <2>2, <2>3, HandlerKeeps
<1>6. ASSUME StopWorker(h, "input", "stop input", "stop matrix") PROVE IInv'
  <2>1. /\ HandlerStep(h, "stop input", "stop matrix") /\ pc' = Awake({"input"})
        /\ armed' = armed /\ joined' = joined
        /\ pending' \in [IThreads -> BOOLEAN] /\ pending'["matrix"] = pending["matrix"]
        /\ pending'["input"]
    BY <1>0, <1>6, <1>i DEF StopWorker
  <2>2. \A t \in IThreads : pending[t] => pending'[t]
    BY <1>0, <1>6 DEF StopWorker
  <2>3. handler[h] = "stop input" /\ handler'[h] = "stop matrix" /\ running' = running
    BY <1>0, <2>1, <1>p DEF HandlerStep, TypeOK
  <2>4. ManagerEnded => ManagerEnded'
    BY <1>0, <1>6, <2>1, <2>3 DEF ManagerEnded, StopWorker, HandlerStep, Awake, TypeOK, Threads, IThreads
  <2> QED
    BY <1>0, <1>p, <1>o, <2>1, <2>2, <2>3, <2>4, HandlerKeeps
<1>7. ASSUME StopWorker(h, "matrix", "stop matrix", "done") PROVE IInv'
  <2>1. /\ HandlerStep(h, "stop matrix", "done") /\ pc' = Awake({"matrix"})
        /\ armed' = armed /\ joined' = joined
        /\ pending' \in [IThreads -> BOOLEAN]
    BY <1>0, <1>7, <1>i DEF StopWorker
  <2>2. \A t \in IThreads : pending[t] => pending'[t]
    BY <1>0, <1>7 DEF StopWorker
  <2>3. handler[h] = "stop matrix" /\ handler'[h] = "done"
    BY <1>0, <2>1, <1>p DEF HandlerStep, TypeOK
  <2>5. pending'["input"]
    BY <1>i, <2>2, <2>3 DEF IInv, InputOrder
  <2>4. ManagerEnded => ManagerEnded'
    BY <1>0, <1>7, <2>1, <2>3 DEF ManagerEnded, StopWorker, HandlerStep, Awake, TypeOK, Threads, IThreads
  <2> QED
    BY <1>0, <1>p, <1>o, <2>1, <2>2, <2>3, <2>4, <2>5, HandlerKeeps
<1> QED
  BY <1>1, <1>2, <1>3, <1>4, <1>5, <1>6, <1>7 DEF Handler

-----------------------------------------------------------------------------
(***************************************************************************)
(* main                                                                    *)
(***************************************************************************)
LEMMA MainKeeps ==
  ASSUME IInv, Main
  PROVE  IInv'
<1> USE DEF IThreads, Threads
<1>0. TypeOK /\ pending \in [IThreads -> BOOLEAN] /\ pc \in [Threads -> Places]
  BY DEF IInv, TypeOK
<1>1. /\ Alive
      /\ UNCHANGED << running, armed, joined, delayedLock, handler, interrupted, signals, misrouted >>
      /\ pc["main"] \in {"init", "join", "stop_wait", "wait", "join bus", "free", "returned"}
  BY <1>0 DEF Main, MediaMatrixInit, Join, StopWait, JoinMatrix, JoinBus, Free, Exit, Go, MainUnchanged
<1>2. \/ disturbed' = disturbed
      \/ disturbed' = disturbed \cup {"init failed"} /\ pc["main"] = "init"
  BY DEF Main, MediaMatrixInit, Join, StopWait, JoinMatrix, JoinBus, Free, Exit, Go
<1>3. \/ pending' = pending
      \/ pending' = [pending EXCEPT !["matrix"] = TRUE] /\ pc["main"] = "stop_wait"
  BY DEF Main, MediaMatrixInit, Join, StopWait, JoinMatrix, JoinBus, Free, Exit
<1>4. /\ pc' \in [Threads -> Places]
      /\ \A t \in Threads \ {"main"} :
           pc'[t] = pc[t] \/ (t = "matrix" /\ pc[t] = "waiting" /\ pc'[t] = "check")
      /\ pc'["main"] \in MainPlaces
  <2>1. MainPlaces \subseteq Places /\ "check" \in Places
    BY DEF Places, LoopPlaces
  <2>2. CASE StopWait
    BY <1>0, <2>1, <2>2 DEF StopWait, Awake, MainPlaces
  <2>3. CASE MediaMatrixInit \/ Join \/ JoinMatrix \/ JoinBus \/ Free \/ Exit
    <3>1. PICK to \in MainPlaces : pc' = [pc EXCEPT !["main"] = to]
      BY <2>3 DEF MediaMatrixInit, Join, JoinMatrix, JoinBus, Free, Exit, Go, MainPlaces
    <3> QED
      BY <1>0, <2>1, <3>1
  <2> QED
    BY <2>2, <2>3 DEF Main
<1>5. /\ pc'["main"] \in {"join bus", "free", "returned", "exited"} =>
           pc["main"] \in {"join bus", "free", "returned"} \/ Ended("matrix")
      /\ pc'["main"] \in {"free", "returned", "exited"} =>
           pc["main"] \in {"free", "returned"} \/ pc["bus"] = "over"
      /\ pc'["main"] = "crashed" => pc["main"] = "returned" /\ Joinable
      /\ pc'["main"] \notin {"init", "join"} =>
           \/ pc["main"] \notin {"init", "join"}
           \/ Ended("matrix")
           \/ "init failed" \in disturbed'
  <2>1. ASSUME MediaMatrixInit PROVE pc'["main"] = "join" \/
                                     (pc'["main"] = "stop_wait" /\ "init failed" \in disturbed')
    BY <1>0, <2>1 DEF MediaMatrixInit, Go
  <2>2. ASSUME Join PROVE pc'["main"] = "stop_wait" /\ Ended("matrix")
    BY <1>0, <2>2 DEF Join, Go
  <2>3. ASSUME StopWait PROVE pc'["main"] = "wait" /\ pc["main"] = "stop_wait"
    BY <1>0, <2>3 DEF StopWait, Awake
  <2>4. ASSUME JoinMatrix PROVE pc'["main"] = "join bus" /\ pc["main"] = "wait" /\ Ended("matrix")
    BY <1>0, <2>4 DEF JoinMatrix, Go
  <2>5. ASSUME JoinBus PROVE pc'["main"] = "free" /\ pc["main"] = "join bus" /\ pc["bus"] = "over"
    BY <1>0, <2>5 DEF JoinBus, BusJoined, Go
  <2>6. ASSUME Free PROVE pc'["main"] = "returned" /\ pc["main"] = "free"
    BY <1>0, <2>6 DEF Free, Go
  <2>7. ASSUME Exit PROVE /\ pc["main"] = "returned"
                          /\ pc'["main"] = "exited" \/ (pc'["main"] = "crashed" /\ Joinable)
    BY <1>0, <2>7 DEF Exit, Go
  <2> QED
    BY <2>1, <2>2, <2>3, <2>4, <2>5, <2>6, <2>7 DEF Main
<1> HIDE DEF Main
<1>6. TypeOK'
  <2>1. \A t \in IThreads : /\ pc'[t] \in LoopPlaces
                            /\ running'[t] <=> pc'[t] \notin {"closing", "over"}
    BY <1>0, <1>1, <1>4 DEF TypeOK, LoopPlaces
  <2>2. pending' \in [IThreads -> BOOLEAN]
    BY <1>0, <1>3
  <2>3. disturbed' \subseteq {"init failed", "early", "twice", "overslept"}
    BY <1>0, <1>2 DEF TypeOK
  <2>4. delayedLock' = "matrix" <=> pc'["matrix"] = "sending"
    BY <1>0, <1>1, <1>4 DEF TypeOK
  <2> QED
    BY <1>0, <1>1, <1>4, <2>1, <2>2, <2>3, <2>4 DEF TypeOK
<1>7. Ended("matrix") => pc["matrix"] = "over"
  BY <1>0 DEF TypeOK, Ended
<1>8. /\ pc["matrix"] = "over" => pending["matrix"]
      /\ pending["matrix"] => pending'["matrix"]
      /\ pending'["manager"] = pending["manager"]
  BY <1>0, <1>3 DEF IInv, TeardownOrder
<1>9. TeardownOrder' /\ ManagerOrder'
  BY <1>1, <1>4, <1>5, <1>7, <1>8 DEF IInv, TeardownOrder, ManagerOrder
<1>15. InputOrder'
  <2>1. InputOrder /\ pending'["input"] = pending["input"]
    BY <1>0, <1>3 DEF IInv
  <2>2. "init failed" \in disturbed => "init failed" \in disturbed'
    BY <1>2
  <2>3. pending'["matrix"] => pending["matrix"] \/ pc["main"] = "stop_wait"
    BY <1>3
  <2>4. pc["main"] # "crashed"
    BY <1>1
  <2> QED
    BY <1>1, <1>5, <1>7, <1>8, <2>1, <2>2, <2>3, <2>4 DEF InputOrder
<1>10. OutOfOrder => OutOfOrder'
  BY <1>2 DEF OutOfOrder
<1>11. NeverMisrouted'
  BY <1>1, <1>10 DEF IInv, NeverMisrouted
<1>12. ManagerEnded => ManagerEnded'
  BY <1>1, <1>4 DEF ManagerEnded
<1>13. ASSUME ~OutOfOrder' PROVE HandlerOrder' /\ StopOrder' /\ (pc["main"] = "returned" => joined)
  <2>1. HandlerOrder /\ StopOrder
    BY <1>1, <1>10, <1>13 DEF IInv
  <2>2. "init failed" \notin disturbed'
    BY <1>13 DEF OutOfOrder
  <2>3. HandlerOrder'
    BY <1>1, <1>4, <1>12, <2>1 DEF HandlerOrder, Active
  <2>4. StopOrder'
    BY <1>1, <1>3, <1>5, <1>7, <1>8, <1>12, <2>1, <2>2 DEF StopOrder
  <2> QED
    BY <2>1, <2>3, <2>4 DEF StopOrder
<1>14. TerminatesOnlyIf'
  BY <1>5, <1>13 DEF TerminatesOnlyIf, Joinable
<1> QED
  BY <1>6, <1>9, <1>11, <1>13, <1>14, <1>15 DEF IInv

-----------------------------------------------------------------------------
(***************************************************************************)
(* The inductive invariant                                                 *)
(***************************************************************************)
LEMMA Inductive == Spec => []IInv
<1>1. Init => IInv
  BY InitIInv
<1>2. IInv /\ [Next]_vars => IInv'
  <2>1. ASSUME IInv, Next PROVE IInv'
    BY <2>1, LoopStep, ArrivalStep, SignalStep, HandlerStepKeeps, MainKeeps DEF Next
  <2>2. ASSUME IInv, UNCHANGED vars PROVE IInv'
    BY <2>2 DEF vars, IInv, TypeOK, ManagerOrder, TeardownOrder, InputOrder, TerminatesOnlyIf, NeverMisrouted,
       HandlerOrder, StopOrder, ManagerEnded, Active, Alive, OutOfOrder
  <2> QED
    BY <2>1, <2>2
<1> QED
  BY <1>1, <1>2, PTL DEF Spec

(***************************************************************************)
(* The variables keep their types, and thread_running_ is cleared as soon  *)
(* as a thread has begun to end (IThread::thread_entry_impl).              *)
(***************************************************************************)
THEOREM TypeCorrect == Spec => []TypeOK
<1>1. IInv => TypeOK
  BY DEF IInv
<1> QED
  BY <1>1, Inductive, PTL

(***************************************************************************)
(* deinit releases the bus and the pipeline when the worker and the bus    *)
(* thread have ended, and the worker of the inputs has been told to, what- *)
(* ever signals interrupt.                                                 *)
(***************************************************************************)
THEOREM OnlyInputUsesReleasedHolds == Spec => []OnlyInputUsesReleased
<1>1. IInv => OnlyInputUsesReleased
  BY DEF IInv, TeardownOrder, InputOrder, OnlyInputUsesReleased
<1> QED
  BY <1>1, Inductive, PTL

(***************************************************************************)
(* std::terminate needs a handler on the distributor, two at a time, one   *)
(* before the distributor was started, or a failed init.                   *)
(***************************************************************************)
THEOREM TerminatesOnlyIfHolds == Spec => []TerminatesOnlyIf
<1>1. IInv => TerminatesOnlyIf
  BY DEF IInv
<1> QED
  BY <1>1, Inductive, PTL

(***************************************************************************)
(* Who is still in a loop when the static destructors have run.            *)
(***************************************************************************)
THEOREM LeftBehindHolds == Spec => []LeftBehind
<1>1. IInv => LeftBehind
  BY DEF IInv, TypeOK, TeardownOrder, StopOrder, ManagerEnded, LeftBehind, Threads, IThreads
<1> QED
  BY <1>1, Inductive, PTL

(***************************************************************************)
(* The order of exit_all_modules keeps messages for an ended thread away   *)
(* from their senders (IMessage::send with thread id 0).                   *)
(***************************************************************************)
THEOREM NeverMisroutedHolds == Spec => []NeverMisrouted
<1>1. IInv => NeverMisrouted
  BY DEF IInv
<1> QED
  BY <1>1, Inductive, PTL
=============================================================================
