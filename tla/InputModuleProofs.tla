-------------------------- MODULE InputModuleProofs -------------------------
(***************************************************************************)
(* Proofs about the input module, for every number of inputs and errors:   *)
(* what a selector shows fits the state of its input.                      *)
(***************************************************************************)
EXTENDS InputModule, TLAPS

-----------------------------------------------------------------------------
(* Type correctness *)

\* A state change that fails adds one error of an input to the bus.
LEMMA PostErrorType ==
  ASSUME TypeOK, NEW i \in Inputs, PostError(i)
  PROVE  bus' \in Seq(Inputs) /\ errors' \in 0..MaxErrors
BY InputsAssumption DEF TypeOK, PostError

\* Every step keeps the types.
LEMMA TypeStep == TypeOK /\ [Next]_vars => TypeOK'
PROOF
<1> SUFFICES ASSUME TypeOK, [Next]_vars
             PROVE  TypeOK'
  OBVIOUS
<1> USE InputsAssumption DEF TypeOK, Inputs, vars, setupVars, inputVars, switchVars
<1>1. ASSUME NEW i \in Inputs, NEW ok \in BOOLEAN, Create(i, ok)
      PROVE  TypeOK'
  BY <1>1 DEF Create
<1>2. ASSUME NEW i \in Inputs, RequestPad(i)
      PROVE  TypeOK'
  BY <1>2 DEF RequestPad
<1>3. ASSUME NEW i \in Inputs, RequestAgain(i)
      PROVE  TypeOK'
  BY <1>3 DEF RequestAgain
<1>4. CASE StartPipeline
  BY <1>4 DEF StartPipeline
<1>5. ASSUME NEW i \in Inputs, PadAdded(i)
      PROVE  TypeOK'
  BY <1>5 DEF PadAdded
<1>6. ASSUME NEW i \in Inputs, HandleVideoPad(i)
      PROVE  TypeOK'
  BY <1>6 DEF HandleVideoPad
<1>7. ASSUME NEW i \in Inputs, Reconnect(i)
      PROVE  TypeOK'
  BY <1>7 DEF Reconnect
<1>8. ASSUME NEW i \in Inputs, GetVideoPad(i)
      PROVE  TypeOK'
  <2>1. sinks' = sinks \/ sinks' = [sinks EXCEPT ![i] = sinks[i] \cup {0}]
    BY <1>8 DEF GetVideoPad
  <2>2. sinks' \in [Inputs -> SUBSET {0, 1}]
    <3>1. sinks[i] \cup {0} \in SUBSET {0, 1}
      OBVIOUS
    <3> QED BY <2>1, <3>1
  <2>3. cb' \in [Inputs -> {"idle", "handle", "request", "video_pad", "switch", "linked",
                         "crashed"}]
    BY <1>8 DEF GetVideoPad
  <2> QED BY <1>8, <2>2, <2>3 DEF GetVideoPad
<1>9. ASSUME NEW i \in Inputs, ReconnectSwitch(i)
      PROVE  TypeOK'
  BY <1>9 DEF ReconnectSwitch
<1>10. ASSUME NEW i \in Inputs, VideoLinked(i)
      PROVE  TypeOK'
  BY <1>10 DEF VideoLinked
<1>11. ASSUME NEW i \in Inputs, EndOfStream(i)
      PROVE  TypeOK'
  BY <1>11 DEF EndOfStream
<1>12. ASSUME NEW i \in Inputs, SourceError(i)
      PROVE  TypeOK'
  BY <1>12 DEF SourceError
<1>13. CASE ErrorSwitch
  BY <1>13 DEF ErrorSwitch
<1>14. ASSUME NEW i \in Inputs, ErrorInvalidate(i)
      PROVE  TypeOK'
  BY <1>14 DEF ErrorInvalidate
<1>15. ASSUME NEW i \in Inputs, ErrorRetry(i)
      PROVE  TypeOK'
  BY <1>15 DEF ErrorRetry
<1>16. ASSUME NEW i \in Inputs, RetryHdmi(i)
      PROVE  TypeOK'
  BY <1>16 DEF RetryHdmi
<1>17. ASSUME NEW i \in Inputs, StartHdmi(i)
      PROVE  TypeOK'
  <2>1. CASE UNCHANGED <<bus, errors>>
    BY <1>17, <2>1 DEF StartHdmi, Plays
  <2>2. CASE PostError(i)
    <3>1. bus' \in Seq(Inputs) /\ errors' \in 0..MaxErrors
      BY <2>2, PostErrorType
    <3> HIDE DEF Inputs
    <3> QED BY <1>17, <2>2, <3>1 DEF StartHdmi, Plays
  <2> QED BY <1>17, <2>1, <2>2 DEF StartHdmi
<1>18. ASSUME NEW i \in Inputs, RetryUridb(i)
       PROVE  TypeOK'
  <2>1. bus' \in Seq(Inputs) /\ errors' \in 0..MaxErrors
    BY <1>18, PostErrorType DEF RetryUridb
  <2>2. /\ wpc' \in {wpc, <<"reset", i>>}
        /\ paused' \in {paused, [paused EXCEPT ![i] = FALSE]}
        /\ retry' = [retry EXCEPT ![i] = @ - 1] /\ retry[i] > 0
        /\ UNCHANGED <<created, inited, requested, lockCore, todo, mpc, source, fed,
                       videoLinked, cb, switchVars, state, bpc, overlap>>
    BY <1>18 DEF RetryUridb, Plays
  <2>3. retry' \in [Inputs -> Nat]
    BY <2>2
  <2>4. /\ paused' \in [Inputs -> BOOLEAN]
        /\ wpc' \in {<<"idle">>} \cup ({"start", "reset", "started"} \X Inputs)
    <3>1. <<"reset", i>> \in {"start", "reset", "started"} \X Inputs
      OBVIOUS
    <3>2. [paused EXCEPT ![i] = FALSE] \in [Inputs -> BOOLEAN]
      OBVIOUS
    <3> HIDE DEF Inputs
    <3> QED BY <2>2, <3>1, <3>2
  <2>5. UNCHANGED <<created, inited, requested, lockCore, todo, mpc, source, fed,
                    videoLinked, cb, linkMain, currMain, sinks, active, state, bpc, overlap>>
    BY <2>2
  <2> HIDE DEF Inputs
  <2> QED BY <2>1, <2>3, <2>4, <2>5
<1>19. ASSUME NEW i \in Inputs, ResetUridb(i)
       PROVE  TypeOK'
  <2>1. bus' \in Seq(Inputs) /\ errors' \in 0..MaxErrors
    BY <1>19, PostErrorType DEF ResetUridb
  <2>2. /\ wpc' \in {<<"start", i>>, <<"idle">>}
        /\ fed' \in {fed, [fed EXCEPT ![i] = FALSE]}
        /\ source' \in {[source EXCEPT ![i] = "off"], [source EXCEPT ![i] = "failed"]}
        /\ UNCHANGED <<created, inited, requested, lockCore, todo, mpc, paused,
                       videoLinked, cb, switchVars, state, bpc, retry, overlap>>
    BY <1>19 DEF ResetUridb
  <2>3. /\ fed' \in [Inputs -> BOOLEAN]
        /\ source' \in [Inputs -> {"off", "decoding", "exposing", "flowing", "failed", "ended"}]
        /\ wpc' \in {<<"idle">>} \cup ({"start", "reset", "started"} \X Inputs)
    <3>1. <<"start", i>> \in {"start", "reset", "started"} \X Inputs
      OBVIOUS
    <3>2. [fed EXCEPT ![i] = FALSE] \in [Inputs -> BOOLEAN]
      OBVIOUS
    <3>3. /\ [source EXCEPT ![i] = "off"] \in
               [Inputs -> {"off", "decoding", "exposing", "flowing", "failed", "ended"}]
          /\ [source EXCEPT ![i] = "failed"] \in
               [Inputs -> {"off", "decoding", "exposing", "flowing", "failed", "ended"}]
      OBVIOUS
    <3> HIDE DEF Inputs
    <3> QED BY <2>2, <3>1, <3>2, <3>3
  <2>4. UNCHANGED <<created, inited, requested, lockCore, todo, mpc, paused, videoLinked, cb,
                    linkMain, currMain, sinks, active, state, bpc, retry, overlap>>
    BY <2>2
  <2> HIDE DEF Inputs
  <2> QED BY <2>1, <2>3, <2>4
<1>20. ASSUME NEW i \in Inputs, StartUridb(i)
      PROVE  TypeOK'
  <2>1. CASE UNCHANGED <<bus, errors>>
    BY <1>20, <2>1 DEF StartUridb
  <2>2. CASE PostError(i)
    <3>1. bus' \in Seq(Inputs) /\ errors' \in 0..MaxErrors
      BY <2>2, PostErrorType
    <3> HIDE DEF Inputs
    <3> QED BY <1>20, <2>2, <3>1 DEF StartUridb
  <2> QED BY <1>20, <2>1, <2>2 DEF StartUridb
<1>21. ASSUME NEW i \in Inputs, StartedUridb(i)
      PROVE  TypeOK'
  BY <1>21 DEF StartedUridb
<1>22. CASE UNCHANGED vars
  BY <1>22
<1> HIDE DEF TypeOK, Inputs, vars
<1>23. CASE MainStep \/ MatrixStep
  BY <1>1, <1>2, <1>3, <1>4, <1>23 DEF MainStep, MatrixStep
<1>24. ASSUME NEW i \in Inputs, Callback(i)
      PROVE  TypeOK'
  BY <1>5, <1>6, <1>7, <1>8, <1>9, <1>10, <1>24 DEF Callback
<1>25. CASE SourceStep \/ BusStep
  BY <1>11, <1>12, <1>13, <1>14, <1>15, <1>25 DEF SourceStep, BusStep
<1>26. CASE WorkerStep
  BY <1>16, <1>17, <1>18, <1>19, <1>20, <1>21, <1>26 DEF WorkerStep
<1> QED
  BY <1>22, <1>23, <1>24, <1>25, <1>26 DEF Next

\* The state keeps its types for every set of inputs; in particular start() runs only
\* for an IMSG_INPUT_DEVICE_RETRY that was sent.
THEOREM TypeCorrect == Spec => []TypeOK
PROOF
<1>1. Init => TypeOK
  BY InputsAssumption DEF Init, TypeOK, Inputs
<1> QED BY <1>1, TypeStep, PTL DEF Spec

-----------------------------------------------------------------------------
(* What holds before the pipeline plays *)

\* Until SET_PLAYING has set the pipeline to PLAYING no source runs, so no error,
\* no callback and no retry is about; SET_PLAYING comes after the last request.
Quiet ==
  /\ mpc # "idle" => requested = Inputs
  /\ mpc # "playing" =>
       /\ bus = <<>> /\ bpc = <<"idle">> /\ wpc = <<"idle">>
       /\ \A i \in Inputs : source[i] = "off" /\ cb[i] = "idle" /\ retry[i] = 0

\* Quiet is inductive.
LEMMA QuietStep == TypeOK /\ Quiet /\ [Next]_vars => Quiet'
PROOF
<1> SUFFICES ASSUME TypeOK, Quiet, [Next]_vars
             PROVE  Quiet'
  OBVIOUS
<1> USE InputsAssumption DEF TypeOK, Quiet, vars, setupVars, inputVars, switchVars
<1>1. ASSUME NEW i \in Inputs, NEW ok \in BOOLEAN, Create(i, ok)
      PROVE  Quiet'
  BY <1>1 DEF Create
<1>2. ASSUME NEW i \in Inputs, RequestPad(i)
      PROVE  Quiet'
  BY <1>2 DEF RequestPad
<1>3. ASSUME NEW i \in Inputs, RequestAgain(i)
      PROVE  Quiet'
  BY <1>3 DEF RequestAgain
<1>4. CASE StartPipeline
  BY <1>4 DEF StartPipeline
<1>5. ASSUME NEW i \in Inputs, PadAdded(i)
      PROVE  Quiet'
  BY <1>5 DEF PadAdded
<1>6. ASSUME NEW i \in Inputs, HandleVideoPad(i)
      PROVE  Quiet'
  BY <1>6 DEF HandleVideoPad
<1>7. ASSUME NEW i \in Inputs, Reconnect(i)
      PROVE  Quiet'
  BY <1>7 DEF Reconnect
<1>8. ASSUME NEW i \in Inputs, GetVideoPad(i)
      PROVE  Quiet'
  BY <1>8 DEF GetVideoPad
<1>9. ASSUME NEW i \in Inputs, ReconnectSwitch(i)
      PROVE  Quiet'
  BY <1>9 DEF ReconnectSwitch
<1>10. ASSUME NEW i \in Inputs, VideoLinked(i)
      PROVE  Quiet'
  BY <1>10 DEF VideoLinked
<1>11. ASSUME NEW i \in Inputs, EndOfStream(i)
      PROVE  Quiet'
  BY <1>11 DEF EndOfStream
<1>12. ASSUME NEW i \in Inputs, SourceError(i)
      PROVE  Quiet'
  BY <1>12 DEF SourceError
<1>13. CASE ErrorSwitch
  BY <1>13 DEF ErrorSwitch
<1>14. ASSUME NEW i \in Inputs, ErrorInvalidate(i)
      PROVE  Quiet'
  BY <1>14 DEF ErrorInvalidate
<1>15. ASSUME NEW i \in Inputs, ErrorRetry(i)
      PROVE  Quiet'
  BY <1>15 DEF ErrorRetry
<1>16. ASSUME NEW i \in Inputs, RetryHdmi(i)
      PROVE  Quiet'
  BY <1>16 DEF RetryHdmi
<1>17. ASSUME NEW i \in Inputs, StartHdmi(i)
      PROVE  Quiet'
  BY <1>17 DEF StartHdmi, PostError, Plays
<1>18. ASSUME NEW i \in Inputs, RetryUridb(i)
      PROVE  Quiet'
  BY <1>18 DEF RetryUridb, PostError, Plays
<1>19. ASSUME NEW i \in Inputs, ResetUridb(i)
      PROVE  Quiet'
  BY <1>19 DEF ResetUridb, PostError
<1>20. ASSUME NEW i \in Inputs, StartUridb(i)
      PROVE  Quiet'
  BY <1>20 DEF StartUridb, PostError
<1>21. ASSUME NEW i \in Inputs, StartedUridb(i)
      PROVE  Quiet'
  BY <1>21 DEF StartedUridb
<1>22. CASE UNCHANGED vars
  BY <1>22
<1> QED
  BY <1>1, <1>2, <1>3, <1>4, <1>5, <1>6, <1>7, <1>8, <1>9, <1>10, <1>11,
     <1>12, <1>13, <1>14, <1>15, <1>16, <1>17, <1>18, <1>19, <1>20, <1>21, <1>22
  DEF Next, MainStep, MatrixStep, Callback, SourceStep, BusStep, WorkerStep

BaseInv == TypeOK /\ Quiet

\* The two invariants the others rest on.
LEMMA BaseInvariant == Spec => []BaseInv
PROOF
<1>1. Init => BaseInv
  BY InputsAssumption DEF Init, BaseInv, TypeOK, Quiet, Inputs
<1>2. BaseInv /\ [Next]_vars => BaseInv'
  BY TypeStep, QuietStep DEF BaseInv
<1> QED BY <1>1, <1>2, PTL DEF Spec

\* What RequestPad does to its own input and to the others, before anything runs.
LEMMA RequestPadFacts ==
  ASSUME TypeOK, Quiet, NEW i \in Inputs, RequestPad(i)
  PROVE  /\ bus = <<>> /\ bpc = <<"idle">> /\ wpc = <<"idle">>
         /\ \A j \in Inputs : source[j] = "off" /\ cb[j] = "idle" /\ retry[j] = 0
         /\ requested' = requested \cup {i}
         /\ active'[i] = IF state[i] # "Invalid" THEN 0 ELSE 1
         /\ state[i] # "Invalid" => 0 \in sinks'[i] /\ linkMain'[i] /\ currMain'[i]
         /\ \A j \in Inputs \ {i} :
              /\ active'[j] = active[j] /\ sinks'[j] = sinks[j]
              /\ linkMain'[j] = linkMain[j] /\ currMain'[j] = currMain[j]
         /\ UNCHANGED <<created, inited, inputVars, state, bus, bpc, retry, wpc, errors,
                        overlap>>
PROOF
<1>1. i \notin requested /\ requested' = requested \cup {i}
  BY DEF RequestPad
<1>2. mpc = "idle"
  BY <1>1 DEF Quiet
<1>3. /\ bus = <<>> /\ bpc = <<"idle">> /\ wpc = <<"idle">>
      /\ \A j \in Inputs : source[j] = "off" /\ cb[j] = "idle" /\ retry[j] = 0
  BY <1>2 DEF Quiet
<1>4. active' = [active EXCEPT ![i] = IF state[i] # "Invalid" THEN 0 ELSE 1]
  BY DEF RequestPad
<1>5. sinks' = [sinks EXCEPT ![i] = IF state[i] # "Invalid" THEN {0, 1} ELSE {1}]
  BY DEF RequestPad
<1>6. /\ linkMain' = [linkMain EXCEPT ![i] = (state[i] # "Invalid")]
      /\ currMain' = [currMain EXCEPT ![i] = (state[i] # "Invalid")]
  BY DEF RequestPad
<1>7. /\ active'[i] = IF state[i] # "Invalid" THEN 0 ELSE 1
      /\ \A j \in Inputs \ {i} : active'[j] = active[j]
  BY <1>4 DEF TypeOK
<1>8. /\ state[i] # "Invalid" => 0 \in sinks'[i]
      /\ \A j \in Inputs \ {i} : sinks'[j] = sinks[j]
  BY <1>5 DEF TypeOK
<1>9. /\ state[i] # "Invalid" => linkMain'[i] /\ currMain'[i]
      /\ \A j \in Inputs \ {i} : linkMain'[j] = linkMain[j] /\ currMain'[j] = currMain[j]
  BY <1>6 DEF TypeOK
<1>10. UNCHANGED <<created, inited, inputVars, state, bus, bpc, retry, wpc, errors, overlap>>
  BY DEF RequestPad
<1> QED BY <1>1, <1>3, <1>7, <1>8, <1>9, <1>10

-----------------------------------------------------------------------------
(* A selector shows the input only through a linked pad *)

\* When reconnect() is about to set active-pad the pad is linked already.
Linked ==
  \A i \in Inputs :
     /\ active[i] = 0 \/ cb[i] = "switch" => 0 \in sinks[i]
     /\ active[i] = 0 => linkMain[i] /\ currMain[i]

\* Linked is inductive once no callback runs before the requests.
LEMMA LinkedStep == TypeOK /\ Quiet /\ Linked /\ [Next]_vars => Linked'
PROOF
<1> SUFFICES ASSUME TypeOK, Quiet, Linked, [Next]_vars
             PROVE  Linked'
  OBVIOUS
<1> USE InputsAssumption DEF TypeOK, Linked, vars, setupVars, inputVars, switchVars
<1>1. ASSUME NEW i \in Inputs, NEW ok \in BOOLEAN, Create(i, ok)
      PROVE  Linked'
  BY <1>1 DEF Create
<1>2. ASSUME NEW i \in Inputs, RequestPad(i)
      PROVE  Linked'
  BY <1>2, RequestPadFacts
<1>3. ASSUME NEW i \in Inputs, RequestAgain(i)
      PROVE  Linked'
  BY <1>3 DEF RequestAgain
<1>4. CASE StartPipeline
  BY <1>4 DEF StartPipeline
<1>5. ASSUME NEW i \in Inputs, PadAdded(i)
      PROVE  Linked'
  BY <1>5 DEF PadAdded
<1>6. ASSUME NEW i \in Inputs, HandleVideoPad(i)
      PROVE  Linked'
  BY <1>6 DEF HandleVideoPad
<1>7. ASSUME NEW i \in Inputs, Reconnect(i)
      PROVE  Linked'
  BY <1>7 DEF Reconnect
<1>8. ASSUME NEW i \in Inputs, GetVideoPad(i)
      PROVE  Linked'
  <2>1. CASE state[i] = "Invalid"
    <3>1. /\ \/ cb' = [cb EXCEPT ![i] = "linked"]
             \/ cb' = [cb EXCEPT ![i] = "crashed"]
          /\ UNCHANGED <<sinks, active, linkMain, currMain>>
      BY <1>8, <2>1 DEF GetVideoPad
    <3> QED BY <3>1
  <2>2. CASE state[i] # "Invalid"
    <3>1. /\ sinks' = [sinks EXCEPT ![i] = sinks[i] \cup {0}]
          /\ cb' = [cb EXCEPT ![i] = "switch"]
          /\ UNCHANGED <<active, linkMain, currMain>>
      BY <1>8, <2>2 DEF GetVideoPad
    <3>2. 0 \in sinks'[i] /\ \A j \in Inputs \ {i} : sinks'[j] = sinks[j]
      BY <3>1
    <3>3. \A j \in Inputs \ {i} : cb'[j] = cb[j]
      BY <3>1
    <3> QED BY <3>1, <3>2, <3>3
  <2> QED BY <2>1, <2>2
<1>9. ASSUME NEW i \in Inputs, ReconnectSwitch(i)
      PROVE  Linked'
  BY <1>9 DEF ReconnectSwitch
<1>10. ASSUME NEW i \in Inputs, VideoLinked(i)
      PROVE  Linked'
  BY <1>10 DEF VideoLinked
<1>11. ASSUME NEW i \in Inputs, EndOfStream(i)
      PROVE  Linked'
  BY <1>11 DEF EndOfStream
<1>12. ASSUME NEW i \in Inputs, SourceError(i)
      PROVE  Linked'
  BY <1>12 DEF SourceError
<1>13. CASE ErrorSwitch
  BY <1>13 DEF ErrorSwitch
<1>14. ASSUME NEW i \in Inputs, ErrorInvalidate(i)
      PROVE  Linked'
  BY <1>14 DEF ErrorInvalidate
<1>15. ASSUME NEW i \in Inputs, ErrorRetry(i)
      PROVE  Linked'
  BY <1>15 DEF ErrorRetry
<1>16. ASSUME NEW i \in Inputs, RetryHdmi(i)
      PROVE  Linked'
  BY <1>16 DEF RetryHdmi
<1>17. ASSUME NEW i \in Inputs, StartHdmi(i)
      PROVE  Linked'
  BY <1>17 DEF StartHdmi, PostError, Plays
<1>18. ASSUME NEW i \in Inputs, RetryUridb(i)
      PROVE  Linked'
  BY <1>18 DEF RetryUridb, PostError, Plays
<1>19. ASSUME NEW i \in Inputs, ResetUridb(i)
      PROVE  Linked'
  BY <1>19 DEF ResetUridb, PostError
<1>20. ASSUME NEW i \in Inputs, StartUridb(i)
      PROVE  Linked'
  BY <1>20 DEF StartUridb, PostError
<1>21. ASSUME NEW i \in Inputs, StartedUridb(i)
      PROVE  Linked'
  BY <1>21 DEF StartedUridb
<1>22. CASE UNCHANGED vars
  BY <1>22
<1> QED
  BY <1>1, <1>2, <1>3, <1>4, <1>5, <1>6, <1>7, <1>8, <1>9, <1>10, <1>11,
     <1>12, <1>13, <1>14, <1>15, <1>16, <1>17, <1>18, <1>19, <1>20, <1>21, <1>22
  DEF Next, MainStep, MatrixStep, Callback, SourceStep, BusStep, WorkerStep

\* active-pad is the main stream only if its pad is linked and its switch says so
\* (InputPadSwitch), in every interleaving of the five threads.
THEOREM LinkedShown == Spec => []MainShownIsLinked
PROOF
<1>1. Init => Linked
  BY DEF Init, Linked
<1>2. BaseInv /\ Linked /\ [Next]_vars => Linked'
  BY LinkedStep DEF BaseInv
<1>3. Linked => MainShownIsLinked
  BY DEF Linked, MainShownIsLinked
<1> QED BY <1>1, <1>2, <1>3, BaseInvariant, PTL DEF Spec

-----------------------------------------------------------------------------
(* A failed input is not shown *)

\* Without an overlap the callback runs in a valid state only, and between the two
\* halves of the error handler the selector is on the image and no callback runs.
Fallback ==
  \A i \in Inputs : ~overlap[i] =>
     /\ i \in requested /\ state[i] = "Invalid" => active[i] = 1
     /\ cb[i] # "idle" => state[i] # "Invalid"
     /\ bpc = <<"invalidate", i>> => active[i] = 1 /\ cb[i] = "idle"

\* Fallback is inductive.
LEMMA FallbackStep == TypeOK /\ Quiet /\ Fallback /\ [Next]_vars => Fallback'
PROOF
<1> SUFFICES ASSUME TypeOK, Quiet, Fallback, [Next]_vars
             PROVE  Fallback'
  OBVIOUS
<1> USE InputsAssumption DEF TypeOK, Fallback, vars, setupVars, inputVars, switchVars
<1>1. ASSUME NEW i \in Inputs, NEW ok \in BOOLEAN, Create(i, ok)
      PROVE  Fallback'
  BY <1>1 DEF Create
<1>2. ASSUME NEW i \in Inputs, RequestPad(i)
      PROVE  Fallback'
  BY <1>2, RequestPadFacts
<1>3. ASSUME NEW i \in Inputs, RequestAgain(i)
      PROVE  Fallback'
  BY <1>3 DEF RequestAgain
<1>4. CASE StartPipeline
  BY <1>4 DEF StartPipeline
<1>5. ASSUME NEW i \in Inputs, PadAdded(i)
      PROVE  Fallback'
  BY <1>5 DEF PadAdded
<1>6. ASSUME NEW i \in Inputs, HandleVideoPad(i)
      PROVE  Fallback'
  BY <1>6 DEF HandleVideoPad
<1>7. ASSUME NEW i \in Inputs, Reconnect(i)
      PROVE  Fallback'
  BY <1>7 DEF Reconnect
<1>8. ASSUME NEW i \in Inputs, GetVideoPad(i)
      PROVE  Fallback'
  BY <1>8 DEF GetVideoPad
<1>9. ASSUME NEW i \in Inputs, ReconnectSwitch(i)
      PROVE  Fallback'
  BY <1>9 DEF ReconnectSwitch
<1>10. ASSUME NEW i \in Inputs, VideoLinked(i)
      PROVE  Fallback'
  BY <1>10 DEF VideoLinked
<1>11. ASSUME NEW i \in Inputs, EndOfStream(i)
      PROVE  Fallback'
  BY <1>11 DEF EndOfStream
<1>12. ASSUME NEW i \in Inputs, SourceError(i)
      PROVE  Fallback'
  BY <1>12 DEF SourceError
<1>13. CASE ErrorSwitch
  BY <1>13 DEF ErrorSwitch
<1>14. ASSUME NEW i \in Inputs, ErrorInvalidate(i)
      PROVE  Fallback'
  BY <1>14 DEF ErrorInvalidate
<1>15. ASSUME NEW i \in Inputs, ErrorRetry(i)
      PROVE  Fallback'
  BY <1>15 DEF ErrorRetry
<1>16. ASSUME NEW i \in Inputs, RetryHdmi(i)
      PROVE  Fallback'
  BY <1>16 DEF RetryHdmi
<1>17. ASSUME NEW i \in Inputs, StartHdmi(i)
      PROVE  Fallback'
  BY <1>17 DEF StartHdmi, PostError, Plays
<1>18. ASSUME NEW i \in Inputs, RetryUridb(i)
      PROVE  Fallback'
  BY <1>18 DEF RetryUridb, PostError, Plays
<1>19. ASSUME NEW i \in Inputs, ResetUridb(i)
      PROVE  Fallback'
  BY <1>19 DEF ResetUridb, PostError
<1>20. ASSUME NEW i \in Inputs, StartUridb(i)
      PROVE  Fallback'
  BY <1>20 DEF StartUridb, PostError
<1>21. ASSUME NEW i \in Inputs, StartedUridb(i)
      PROVE  Fallback'
  BY <1>21 DEF StartedUridb
<1>22. CASE UNCHANGED vars
  BY <1>22
<1> QED
  BY <1>1, <1>2, <1>3, <1>4, <1>5, <1>6, <1>7, <1>8, <1>9, <1>10, <1>11,
     <1>12, <1>13, <1>14, <1>15, <1>16, <1>17, <1>18, <1>19, <1>20, <1>21, <1>22
  DEF Next, MainStep, MatrixStep, Callback, SourceStep, BusStep, WorkerStep

\* An Invalid input shows the image unless an error met the callback of the input:
\* the order of sswitch() and of the state change in the error handlers is right.
THEOREM FallbackShown == Spec => []FallbackWhileInvalid
PROOF
<1>1. Init => Fallback
  BY DEF Init, Fallback
<1>2. BaseInv /\ Fallback /\ [Next]_vars => Fallback'
  BY FallbackStep DEF BaseInv
<1>3. BaseInv /\ Fallback => FallbackWhileInvalid
  BY DEF BaseInv, TypeOK, Fallback, FallbackWhileInvalid
<1> QED BY <1>1, <1>2, <1>3, BaseInvariant, PTL DEF Spec

-----------------------------------------------------------------------------
(* Until something fails, the stream that delivers frames is shown *)

\* The way of an input without errors: a capture is Ready from its init() on and
\* its pad is linked by the request; a decoder is Ready during its only callback.
FirstRun ==
  errors = 0 =>
    /\ bus = <<>> /\ bpc = <<"idle">> /\ wpc = <<"idle">>
    /\ \A i \in Inputs :
         /\ retry[i] = 0
         /\ source[i] # "failed"
         /\ i \in Hdmi => source[i] \in {"off", "flowing"} /\ ~fed[i]
         /\ i \in Hdmi /\ i \in inited => state[i] = "Ready"
         /\ i \in Hdmi /\ i \in inited /\ i \in requested => active[i] = 0
         /\ cb[i] # "idle" <=> source[i] = "exposing"
         /\ cb[i] # "idle" => state[i] = "Ready"
         /\ cb[i] = "linked" => active[i] = 0
         /\ source[i] \in {"off", "decoding"} => ~videoLinked[i]
         /\ source[i] = "flowing" => active[i] = 0

\* FirstRun is inductive.
LEMMA FirstRunStep == TypeOK /\ Quiet /\ FirstRun /\ [Next]_vars => FirstRun'
PROOF
<1> SUFFICES ASSUME TypeOK, Quiet, FirstRun, [Next]_vars
             PROVE  FirstRun'
  OBVIOUS
<1> USE InputsAssumption DEF TypeOK, FirstRun, vars, setupVars, inputVars, switchVars
<1>1. ASSUME NEW i \in Inputs, NEW ok \in BOOLEAN, Create(i, ok)
      PROVE  FirstRun'
  BY <1>1 DEF Create
<1>2. ASSUME NEW i \in Inputs, RequestPad(i)
      PROVE  FirstRun'
  BY <1>2, RequestPadFacts
<1>3. ASSUME NEW i \in Inputs, RequestAgain(i)
      PROVE  FirstRun'
  BY <1>3 DEF RequestAgain
<1>4. CASE StartPipeline
  <2>1. /\ requested = Inputs
        /\ bus = <<>> /\ bpc = <<"idle">> /\ wpc = <<"idle">>
        /\ \A j \in Inputs : source[j] = "off" /\ cb[j] = "idle" /\ retry[j] = 0
    BY <1>4 DEF StartPipeline, Quiet
  <2>2. /\ UNCHANGED <<created, inited, requested, fed, videoLinked, cb, active, state, bus,
                       bpc, retry, wpc, errors>>
        /\ source' = [j \in Inputs |-> IF j \notin inited THEN "off"
                                       ELSE IF j \in Uridb THEN "decoding" ELSE "flowing"]
    BY <1>4 DEF StartPipeline
  <2>3. \A j \in Inputs :
           /\ j \notin inited => source'[j] = "off"
           /\ j \in inited /\ j \in Uridb => source'[j] = "decoding"
           /\ j \in inited /\ j \in Hdmi => source'[j] = "flowing"
           /\ j \in Uridb \/ j \in Hdmi
    BY <2>2 DEF Inputs
  <2> QED BY <2>1, <2>2, <2>3
<1>5. ASSUME NEW i \in Inputs, PadAdded(i)
      PROVE  FirstRun'
  BY <1>5 DEF PadAdded
<1>6. ASSUME NEW i \in Inputs, HandleVideoPad(i)
      PROVE  FirstRun'
  BY <1>6 DEF HandleVideoPad
<1>7. ASSUME NEW i \in Inputs, Reconnect(i)
      PROVE  FirstRun'
  BY <1>7 DEF Reconnect
<1>8. ASSUME NEW i \in Inputs, GetVideoPad(i)
      PROVE  FirstRun'
  BY <1>8 DEF GetVideoPad
<1>9. ASSUME NEW i \in Inputs, ReconnectSwitch(i)
      PROVE  FirstRun'
  BY <1>9 DEF ReconnectSwitch
<1>10. ASSUME NEW i \in Inputs, VideoLinked(i)
      PROVE  FirstRun'
  BY <1>10 DEF VideoLinked
<1>11. ASSUME NEW i \in Inputs, EndOfStream(i)
      PROVE  FirstRun'
  BY <1>11 DEF EndOfStream
<1>12. ASSUME NEW i \in Inputs, SourceError(i)
      PROVE  FirstRun'
  BY <1>12 DEF SourceError
<1>13. CASE ErrorSwitch
  BY <1>13 DEF ErrorSwitch
<1>14. ASSUME NEW i \in Inputs, ErrorInvalidate(i)
      PROVE  FirstRun'
  BY <1>14 DEF ErrorInvalidate
<1>15. ASSUME NEW i \in Inputs, ErrorRetry(i)
      PROVE  FirstRun'
  BY <1>15 DEF ErrorRetry
<1>16. ASSUME NEW i \in Inputs, RetryHdmi(i)
      PROVE  FirstRun'
  BY <1>16 DEF RetryHdmi
<1>17. ASSUME NEW i \in Inputs, StartHdmi(i)
      PROVE  FirstRun'
  BY <1>17 DEF StartHdmi, PostError, Plays
<1>18. ASSUME NEW i \in Inputs, RetryUridb(i)
      PROVE  FirstRun'
  BY <1>18 DEF RetryUridb, PostError, Plays
<1>19. ASSUME NEW i \in Inputs, ResetUridb(i)
      PROVE  FirstRun'
  BY <1>19 DEF ResetUridb, PostError
<1>20. ASSUME NEW i \in Inputs, StartUridb(i)
      PROVE  FirstRun'
  BY <1>20 DEF StartUridb, PostError
<1>21. ASSUME NEW i \in Inputs, StartedUridb(i)
      PROVE  FirstRun'
  BY <1>21 DEF StartedUridb
<1>22. CASE UNCHANGED vars
  BY <1>22
<1> QED
  BY <1>1, <1>2, <1>3, <1>4, <1>5, <1>6, <1>7, <1>8, <1>9, <1>10, <1>11,
     <1>12, <1>13, <1>14, <1>15, <1>16, <1>17, <1>18, <1>19, <1>20, <1>21, <1>22
  DEF Next, MainStep, MatrixStep, Callback, SourceStep, BusStep, WorkerStep

\* As long as no error was posted, an input that delivers frames is shown.
THEOREM FirstShown == Spec => []MainUntilError
PROOF
<1>1. Init => FirstRun
  BY DEF Init, FirstRun
<1>2. BaseInv /\ FirstRun /\ [Next]_vars => FirstRun'
  BY FirstRunStep DEF BaseInv
<1>3. FirstRun => MainUntilError
  BY DEF FirstRun, MainUntilError
<1> QED BY <1>1, <1>2, <1>3, BaseInvariant, PTL DEF Spec
=============================================================================
