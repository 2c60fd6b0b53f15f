-------------------------- MODULE PlayControlProofs -------------------------
(***************************************************************************)
(* Proofs about play control, for every poll limit and number of events.   *)
(***************************************************************************)
EXTENDS PlayControl, TLAPS

BusMessages == {"playing", "error", "eos", "clock_lost"}
States == {"NULL", "PAUSED", "PLAYING"}

-----------------------------------------------------------------------------
(* Type correctness *)

\* A change of state keeps the types of what it changes.
LEMMA SetStateType ==
  ASSUME cur \in States, target \in States, bus \in Seq(BusMessages),
         played \in BOOLEAN, failed \in BOOLEAN,
         NEW s \in States, SetState(s) \/ SetStateFails
  PROVE  /\ cur' \in States /\ target' \in States /\ bus' \in Seq(BusMessages)
         /\ played' \in BOOLEAN /\ failed' \in BOOLEAN
PROOF
<1>1. Append(bus, "playing") \in Seq(BusMessages)
  BY DEF BusMessages
<1>2. bus' = bus \/ bus' = Append(bus, "playing")
  BY DEF SetState, SetStateFails, Arrive
<1> QED BY <1>1, <1>2 DEF SetState, SetStateFails, Arrive

\* What the worker's inbox holds after a message was handled.
LEMMA HandleType ==
  ASSUME inbox \in [Kinds -> Nat], NEW k \in Kinds, NEW ks, Handle(k, ks)
  PROVE  /\ inbox' \in [Kinds -> Nat]
         /\ \A x \in Kinds : inbox'[x] = inbox[x] - (IF x = k THEN 1 ELSE 0)
                                              + (IF x \in ks THEN 1 ELSE 0)
         /\ inbox[k] > 0 /\ wpc = "idle"
PROOF
<1>1. \A x \in Kinds : inbox[x] - (IF x = k THEN 1 ELSE 0)
                            + (IF x \in ks THEN 1 ELSE 0) \in Nat
  <2> TAKE x \in Kinds
  <2>1. inbox[x] \in Nat /\ inbox[k] > 0
    BY DEF Handle
  <2>2. CASE x = k
    BY <2>1, <2>2
  <2>3. CASE x # k
    BY <2>1, <2>3
  <2> QED BY <2>2, <2>3
<1> QED BY <1>1 DEF Handle

\* Every step keeps the types.
LEMMA TypeStep == TypeOK /\ [Next]_vars => TypeOK'
PROOF
<1> SUFFICES ASSUME TypeOK, [Next]_vars
             PROVE  TypeOK'
  OBVIOUS
<1> USE PlayAssumption DEF TypeOK, vars, pipeVars, busVars, workerVars, BusMessages, States
<1>1. CASE Reach
  BY <1>1 DEF Reach, Arrive
<1>2. CASE StreamEvent
  BY <1>2 DEF StreamEvent
<1>3. CASE StreamReady
  BY <1>3 DEF StreamReady, Kinds
<1>4. CASE BusPop
  BY <1>4 DEF BusPop
<1>5. CASE BusEos
  BY <1>5 DEF BusEos
<1>6. CASE BusError
  BY <1>6, SetStateType DEF BusError
<1>7. CASE BusStateChanged
  BY <1>7 DEF BusStateChanged, Kinds
<1>8. CASE ClockLostPause
  BY <1>8, SetStateType DEF ClockLostPause
<1>9. CASE ClockLostPlay
  BY <1>9, SetStateType DEF ClockLostPlay
<1>10. CASE HandleSetPlaying
  BY <1>10, HandleType, SetStateType DEF HandleSetPlaying, Kinds
<1>11. CASE HandlePending
  BY <1>11, HandleType DEF HandlePending, Kinds
<1>12. CASE HandleTimeout
  BY <1>12, HandleType DEF HandleTimeout, Kinds
<1>13. CASE HandleSuccess
  BY <1>13, HandleType DEF HandleSuccess, Kinds
<1>14. CASE HandleReset
  BY <1>14, HandleType, SetStateType DEF HandleReset, Kinds
<1>15. CASE ResetPlay
  BY <1>15, SetStateType DEF ResetPlay
<1>16. CASE UNCHANGED vars
  BY <1>16
<1> QED
  BY <1>1, <1>2, <1>3, <1>4, <1>5, <1>6, <1>7, <1>8, <1>9, <1>10, <1>11, <1>12, <1>13, <1>14, <1>15, <1>16
  DEF Next, BusStep, WorkerStep

\* The state keeps its types, whatever the streams do; the poll counter stays
\* within its limit.
THEOREM TypeCorrect == Spec => []TypeOK
PROOF
<1>1. ASSUME Init PROVE TypeOK
  <2>1. \A k \in Kinds : (IF k = "SET_PLAYING" THEN 1 ELSE 0) \in Nat
    OBVIOUS
  <2>2. inbox \in [Kinds -> Nat]
    BY <1>1, <2>1 DEF Init
  <2>3. bus \in Seq({"playing", "error", "eos", "clock_lost"})
    BY <1>1 DEF Init
  <2>4. cnt \in 0..PollLimit /\ events \in 0..MaxEvents
    BY <1>1, PlayAssumption DEF Init
  <2>5. /\ cur \in {"NULL", "PAUSED", "PLAYING"} /\ target \in {"NULL", "PAUSED", "PLAYING"}
        /\ bmsg \in {"none", "playing", "error", "eos", "clock_lost", "lost"}
        /\ wpc \in {"idle", "reset"}
        /\ busDone \in BOOLEAN /\ playing \in BOOLEAN
        /\ played \in BOOLEAN /\ failed \in BOOLEAN
    BY <1>1 DEF Init
  <2> QED BY <2>2, <2>3, <2>4, <2>5 DEF TypeOK
<1> QED BY <1>1, TypeStep, PTL DEF Spec

-----------------------------------------------------------------------------
(* One chain of polls *)

\* Every step keeps the single chain.
LEMMA ChainStep == TypeOK /\ OneChain /\ [Next]_vars => OneChain'
PROOF
<1> SUFFICES ASSUME TypeOK, OneChain, [Next]_vars
             PROVE  OneChain'
  OBVIOUS
<1> USE DEF TypeOK, OneChain, vars, pipeVars, busVars, workerVars, Kinds
<1>1. CASE Reach
  BY <1>1 DEF Reach, Arrive
<1>2. CASE StreamEvent
  BY <1>2 DEF StreamEvent
<1>3. CASE StreamReady
  BY <1>3 DEF StreamReady
<1>4. CASE BusPop
  BY <1>4 DEF BusPop
<1>5. CASE BusEos
  BY <1>5 DEF BusEos
<1>6. CASE BusError
  BY <1>6 DEF BusError
<1>7. CASE BusStateChanged
  BY <1>7 DEF BusStateChanged
<1>8. CASE ClockLostPause
  BY <1>8 DEF ClockLostPause
<1>9. CASE ClockLostPlay
  BY <1>9 DEF ClockLostPlay
<1>10. CASE HandleSetPlaying
  <2>1. PICK ks \in {{"PENDING"}, {}} : Handle("SET_PLAYING", ks)
    BY <1>10 DEF HandleSetPlaying
  <2>2. /\ inbox["SET_PLAYING"] > 0
        /\ inbox' = [x \in Kinds |-> inbox[x] - (IF x = "SET_PLAYING" THEN 1 ELSE 0)
                                           + (IF x \in ks THEN 1 ELSE 0)]
    BY <2>1 DEF Handle
  <2>3. inbox'["SET_PLAYING"] = inbox["SET_PLAYING"] - 1
    BY <2>2
  <2>4. inbox'["PENDING"] = inbox["PENDING"] + (IF "PENDING" \in ks THEN 1 ELSE 0)
    BY <2>2
  <2>5. inbox'["TIMEOUT"] = inbox["TIMEOUT"]
    BY <2>2
  <2> QED BY <2>2, <2>3, <2>4, <2>5
<1>11. CASE HandlePending
  <2>1. PICK ks \in SUBSET {"PENDING", "TIMEOUT"} :
           Handle("PENDING", ks) /\ ~("PENDING" \in ks /\ "TIMEOUT" \in ks)
    BY <1>11 DEF HandlePending
  <2>2. /\ inbox["PENDING"] > 0
        /\ inbox'["SET_PLAYING"] = inbox["SET_PLAYING"]
        /\ inbox'["PENDING"] = inbox["PENDING"] - 1 + (IF "PENDING" \in ks THEN 1 ELSE 0)
        /\ inbox'["TIMEOUT"] = inbox["TIMEOUT"] + (IF "TIMEOUT" \in ks THEN 1 ELSE 0)
    BY <2>1, HandleType
  <2> QED BY <2>1, <2>2
<1>12. CASE HandleTimeout
  <2>1. Handle("TIMEOUT", {"RESET"})
    BY <1>12 DEF HandleTimeout
  <2>2. inbox["TIMEOUT"] > 0
    BY <2>1 DEF Handle
  <2>3. inbox' = [x \in Kinds |-> inbox[x] - (IF x = "TIMEOUT" THEN 1 ELSE 0)
                                        + (IF x \in {"RESET"} THEN 1 ELSE 0)]
    BY <2>1 DEF Handle
  <2>4. inbox'["SET_PLAYING"] = inbox["SET_PLAYING"]
    BY <2>3
  <2>5. inbox'["PENDING"] = inbox["PENDING"]
    BY <2>3
  <2>6. inbox'["TIMEOUT"] = inbox["TIMEOUT"] - 1
    BY <2>3
  <2> QED BY <2>2, <2>4, <2>5, <2>6
<1>13. CASE HandleSuccess
  BY <1>13, HandleType DEF HandleSuccess
<1>14. CASE HandleReset
  BY <1>14, HandleType DEF HandleReset
<1>15. CASE ResetPlay
  BY <1>15 DEF ResetPlay
<1>16. CASE UNCHANGED vars
  BY <1>16
<1> QED
  BY <1>1, <1>2, <1>3, <1>4, <1>5, <1>6, <1>7, <1>8, <1>9, <1>10, <1>11, <1>12, <1>13, <1>14, <1>15, <1>16
  DEF Next, BusStep, WorkerStep

\* A poll is answered by at most one message, so there is never a second chain.
THEOREM ChainIsOne == Spec => []OneChain
PROOF
<1>1. Init => OneChain
  BY DEF Init, OneChain, Kinds
<1>2. TypeOK /\ OneChain /\ [Next]_vars => OneChain'
  BY ChainStep
<1> QED BY <1>1, <1>2, TypeCorrect, PTL DEF Spec

-----------------------------------------------------------------------------
(* Nothing pauses the pipeline before it has played *)

\* Each thing that lets a thread pause the pipeline, the flag of the worker and
\* the messages behind it, exists only once the pipeline has played.
AfterPlaying ==
  /\ cur \in {"PAUSED", "PLAYING"} => played
  /\ target = "PAUSED" => played
  /\ \A i \in DOMAIN bus : bus[i] # "error" => played
  /\ bmsg \notin {"none", "error"} => played
  /\ inbox["SUCCESS"] > 0 => played
  /\ playing => played

\* Appending to the bus what only a pipeline that has played posts.
LEMMA BusAppend ==
  ASSUME NEW s \in Seq(BusMessages), NEW m \in BusMessages, NEW p \in BOOLEAN,
         \A i \in DOMAIN s : s[i] # "error" => p, m # "error" => p
  PROVE  \A i \in DOMAIN Append(s, m) : Append(s, m)[i] # "error" => p
PROOF
<1> SUFFICES ASSUME NEW i \in 1..(Len(s) + 1), Append(s, m)[i] # "error"
             PROVE  p
  OBVIOUS
<1>1. CASE i = Len(s) + 1
  BY <1>1
<1>2. CASE i \in 1..Len(s)
  BY <1>2
<1> QED BY <1>1, <1>2

\* A change of state to PLAYING, or to PAUSED of a pipeline that has played.
LEMMA SetStatePlayed ==
  ASSUME TypeOK, AfterPlaying, NEW s \in {"PAUSED", "PLAYING"},
         s = "PAUSED" => played, SetState(s) \/ SetStateFails
  PROVE  /\ cur' \in {"PAUSED", "PLAYING"} => played'
         /\ target' = "PAUSED" => played'
         /\ \A i \in DOMAIN bus' : bus'[i] # "error" => played'
         /\ played => played'
         /\ played' \in BOOLEAN
PROOF
<1> USE DEF TypeOK, AfterPlaying
<1>1. played => played'
  BY DEF SetState, SetStateFails, Arrive
<1>2. played' \in BOOLEAN
  BY DEF SetState, SetStateFails, Arrive
<1>3. CASE bus' = bus
  BY <1>1, <1>2, <1>3 DEF SetState, SetStateFails, Arrive
<1>4. CASE bus' = Append(bus, "playing") /\ played' /\ cur' = "PLAYING"
  BY <1>1, <1>2, <1>4
<1>5. bus' = bus \/ (bus' = Append(bus, "playing") /\ played' /\ cur' = "PLAYING")
  BY DEF SetState, SetStateFails, Arrive
<1> QED BY <1>3, <1>4, <1>5

\* Every step keeps AfterPlaying.
LEMMA PlayedStep == TypeOK /\ AfterPlaying /\ [Next]_vars => AfterPlaying'
PROOF
<1> SUFFICES ASSUME TypeOK, AfterPlaying, [Next]_vars
             PROVE  AfterPlaying'
  OBVIOUS
<1> USE DEF TypeOK, AfterPlaying, vars, pipeVars, busVars, workerVars, BusMessages
<1>1. CASE Reach
  BY <1>1 DEF Reach, Arrive
<1>2. CASE StreamEvent
  BY <1>2 DEF StreamEvent
<1>3. CASE StreamReady
  BY <1>3 DEF StreamReady
<1>4. CASE BusPop
  BY <1>4 DEF BusPop
<1>5. CASE BusEos
  BY <1>5 DEF BusEos
<1>6. CASE BusError
  BY <1>6, SetStatePlayed DEF BusError
<1>7. CASE BusStateChanged
  BY <1>7 DEF BusStateChanged
<1>8. CASE ClockLostPause
  BY <1>8, SetStatePlayed DEF ClockLostPause
<1>9. CASE ClockLostPlay
  BY <1>9, SetStatePlayed DEF ClockLostPlay
<1>10. CASE HandleSetPlaying
  <2>1. PICK ks \in {{}, {"PENDING"}} : Handle("SET_PLAYING", ks)
    BY <1>10 DEF HandleSetPlaying
  <2>2. inbox'["SUCCESS"] = inbox["SUCCESS"]
    BY <2>1, HandleType DEF Kinds
  <2>3. SetState("PLAYING") \/ SetStateFails
    BY <1>10 DEF HandleSetPlaying
  <2> QED BY <1>10, <2>2, <2>3, SetStatePlayed DEF HandleSetPlaying
<1>11. CASE HandlePending
  <2>1. PICK ks \in SUBSET {"PENDING", "TIMEOUT"} : Handle("PENDING", ks)
    BY <1>11 DEF HandlePending
  <2>2. inbox'["SUCCESS"] = inbox["SUCCESS"]
    BY <2>1, HandleType DEF Kinds
  <2> QED BY <1>11, <2>2 DEF HandlePending
<1>12. CASE HandleTimeout
  BY <1>12, HandleType DEF HandleTimeout, Kinds
<1>13. CASE HandleSuccess
  BY <1>13, HandleType DEF HandleSuccess, Kinds
<1>14. CASE HandleReset
  BY <1>14, HandleType, SetStatePlayed DEF HandleReset, Kinds
<1>15. CASE ResetPlay
  BY <1>15, SetStatePlayed DEF ResetPlay
<1>16. CASE UNCHANGED vars
  BY <1>16
<1> QED
  BY <1>1, <1>2, <1>3, <1>4, <1>5, <1>6, <1>7, <1>8, <1>9, <1>10, <1>11, <1>12, <1>13, <1>14, <1>15, <1>16
  DEF Next, BusStep, WorkerStep

\* The pipeline is paused only after it has played, whatever messages are on their
\* way from the two threads and the input module.
THEOREM PausedAfterPlaying == Spec => []PausedOnlyAfterPlaying
PROOF
<1>1. Init => AfterPlaying
  BY DEF Init, AfterPlaying, Kinds
<1>2. AfterPlaying => PausedOnlyAfterPlaying
  BY DEF AfterPlaying, PausedOnlyAfterPlaying
<1> QED BY <1>1, <1>2, PlayedStep, TypeCorrect, PTL DEF Spec
=============================================================================
