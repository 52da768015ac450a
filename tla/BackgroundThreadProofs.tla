------------------------ MODULE BackgroundThreadProofs ------------------------
(***************************************************************************)
(* Proofs about the life cycle of the background thread, for any number of *)
(* restarts and of threads that start and stop it, provided their calls    *)
(* never overlap.  Where two calls may, both theorems fail: run            *)
(* control_race shows one of the failures.                                 *)
(***************************************************************************)
EXTENDS BackgroundThread, TLAPS

\* Calls from different threads do not overlap; a single controller has no choice.
Serial ==
  \A c, d \in Controller : c # d => call[c].at = "idle" \/ call[d].at = "idle"

StopStages == {"stop_request", "stop_notify", "stop_joinable", "stop_join", "stop_mark"}

\* A handle is joinable only while running_ is set and the object exists, and
\* every thread alive is the one it names.
HandleOwns ==
  /\ \A l \in Alive : background_thread = l
  /\ background_thread # None => running /\ ~destroyed

\* What a controller has established by the point it has reached.
CallEstablished(c) ==
  /\ call[c].at # "idle" => ~destroyed
  /\ call[c].at \in {"start_clear", "start_mark", "destroy_members"} => ~running
  /\ call[c].at = "start_spawn" => running /\ background_thread = None
  /\ call[c].at \in StopStages => running
  /\ call[c].at = "stop_join" => background_thread # None
  /\ call[c].at = "stop_mark" => background_thread = None

\* The inductive invariant.
IInv ==
  /\ TypeOK
  /\ ~terminated
  /\ HandleOwns
  /\ \A c \in Controller : CallEstablished(c)

-------------------------------------------------------------------------------
\* No thread and no call at first.
LEMMA InitIInv == Init => IInv
<1> SUFFICES ASSUME Init PROVE IInv
  OBVIOUS
<1>1. TypeOK
  BY DEF Init, TypeOK, Calls, CallStages, Idle, LoopStages, None
<1>2. HandleOwns /\ ~terminated /\ \A c \in Controller : CallEstablished(c)
  BY DEF Init, HandleOwns, Alive, CallEstablished, Idle, None, StopStages
<1> QED
  BY <1>1, <1>2 DEF IInv

\* Where a Goto leads.
LEMMA GotoStep ==
  ASSUME TypeOK, NEW c \in Controller, NEW s \in CallStages, Goto(c, s)
  PROVE  /\ call' \in [Controller -> Calls]
         /\ call'[c].at = s
         /\ \A d \in Controller : d # c => call'[d] = call[d]
BY DEF TypeOK, Goto, Calls

\* Where Stop returns to: its caller, or the destructor that called it.
LEMMA StopReturnStep ==
  ASSUME TypeOK, NEW c \in Controller, StopReturn(c)
  PROVE  /\ call' \in [Controller -> Calls]
         /\ call'[c].at \in {"idle", "destroy_members"}
         /\ \A d \in Controller : d # c => call'[d] = call[d]
<1>1. CASE call[c].final
  <2>1. Goto(c, "destroy_members") /\ "destroy_members" \in CallStages
    BY <1>1 DEF StopReturn, CallStages
  <2> QED
    BY <2>1, GotoStep
<1>2. CASE ~call[c].final
  <2>1. call' = [call EXCEPT ![c] = Idle] /\ Idle \in Calls
    BY <1>2 DEF StopReturn, Idle, Calls, CallStages
  <2> QED
    BY <2>1 DEF TypeOK, Idle
<1> QED
  BY <1>1, <1>2

\* A call begins with its first test.
LEMMA CallMade ==
  ASSUME TypeOK, NEW c \in Controller, Call(c) \/ CallDestructor(c)
  PROVE  /\ UNCHANGED dataVars /\ ~destroyed /\ call' \in [Controller -> Calls]
         /\ call'[c].at \in {"start_test", "stop_test"}
<1>1. CASE Call(c)
  <2>1. "start_test" \in CallStages /\ "stop_test" \in CallStages
    BY DEF CallStages
  <2> QED
    BY <1>1, <2>1, GotoStep DEF Call
<1>2. CASE CallDestructor(c)
  BY <1>2 DEF CallDestructor, TypeOK, Calls, CallStages
<1> QED
  BY <1>1, <1>2

\* While one controller is inside a call, the others have nothing to establish.
LEMMA OthersIdle ==
  ASSUME IInv, Serial, Serial', NEW c \in Controller,
         Call(c) \/ CallDestructor(c) \/ ControlStep(c)
  PROVE  \A d \in Controller : d # c => CallEstablished(d)'
<1> SUFFICES ASSUME NEW d \in Controller, d # c PROVE call'[d].at = "idle"
  BY DEF CallEstablished, StopStages
<1>1. CASE Call(c) \/ CallDestructor(c)
  BY <1>1, CallMade DEF Serial, IInv
<1>2. CASE ControlStep(c)
  <2>1. call[c].at # "idle"
    BY <1>2 DEF ControlStep, StartTest, StartClear, StartMark, StartSpawn, StartSpawnFails,
       StopTest, StopRequest, StopNotify, StopJoinable, StopJoin, StopMark, DestroyMembers, Step, At
  <2>2. call'[d] = call[d]
    <3>1. CASE StopTest(c) /\ running
      BY <3>1, GotoStep DEF StopTest, CallStages, IInv
    <3>2. CASE (StopTest(c) /\ ~running) \/ StopMark(c)
      BY <3>2, StopReturnStep DEF StopTest, StopMark, IInv
    <3>3. CASE DestroyMembers(c)
      BY <3>3 DEF DestroyMembers, IInv, TypeOK
    <3>4. CASE ~(StopTest(c) \/ StopMark(c) \/ DestroyMembers(c))
      <4>1. PICK s \in CallStages : Goto(c, s)
        BY <1>2, <3>4 DEF ControlStep, StartTest, StartClear, StartMark, StartSpawn,
           StartSpawnFails, StopRequest, StopNotify, StopJoinable, StopJoin, Step, CallStages
      <4> QED
        BY <4>1, GotoStep DEF IInv
    <3> QED
      BY <3>1, <3>2, <3>3, <3>4
  <2> QED
    BY <2>1, <2>2 DEF Serial
<1> QED
  BY <1>1, <1>2

\* The callers' own steps.
LEMMA CallStep ==
  ASSUME Serial, Serial', IInv, NEW c \in Controller, Call(c) \/ CallDestructor(c)
  PROVE  IInv'
<1>1. /\ UNCHANGED dataVars /\ ~destroyed /\ call' \in [Controller -> Calls]
      /\ call'[c].at \in {"start_test", "stop_test"}
  BY CallMade DEF IInv
<1>2. CallEstablished(c)' /\ \A d \in Controller : d # c => CallEstablished(d)'
  BY <1>1, OthersIdle DEF CallEstablished, StopStages, dataVars
<1> QED
  BY <1>1, <1>2 DEF IInv, TypeOK, HandleOwns, Alive, dataVars

\* The steps of Start.
LEMMA StartStep ==
  ASSUME Serial, Serial', IInv, NEW c \in Controller,
         \/ StartTest(c) \/ StartClear(c) \/ StartMark(c) \/ StartSpawn(c) \/ StartSpawnFails(c)
  PROVE  IInv'
<1> SUFFICES TypeOK' /\ ~terminated' /\ HandleOwns' /\ CallEstablished(c)'
  BY OthersIdle DEF IInv, ControlStep
<1> USE DEF IInv, Step, At
<1>1. CASE StartTest(c)
  <2>1. /\ UNCHANGED dataVars /\ call' \in [Controller -> Calls]
        /\ call'[c].at = IF running THEN "idle" ELSE "start_clear"
        /\ ~destroyed
    BY <1>1, GotoStep DEF StartTest, CallStages, CallEstablished
  <2> QED
    BY <2>1 DEF TypeOK, dataVars, HandleOwns, Alive, CallEstablished, StopStages
<1>2. CASE StartClear(c)
  <2>1. /\ call' \in [Controller -> Calls] /\ call'[c].at = "start_mark"
        /\ ~destroyed /\ ~running /\ stop_requested' = FALSE
        /\ UNCHANGED <<running, cv_mutex, background_thread, loop, terminated, destroyed>>
    BY <1>2, GotoStep DEF StartClear, CallStages, CallEstablished
  <2> QED
    BY <2>1 DEF TypeOK, HandleOwns, Alive, CallEstablished, StopStages
<1>3. CASE StartMark(c)
  <2>1. /\ call' \in [Controller -> Calls] /\ call'[c].at = "start_spawn"
        /\ ~destroyed /\ ~running /\ running' = TRUE
        /\ UNCHANGED <<stop_requested, cv_mutex, background_thread, loop, terminated, destroyed>>
    BY <1>3, GotoStep DEF StartMark, CallStages, CallEstablished
  <2> QED
    BY <2>1 DEF TypeOK, HandleOwns, Alive, CallEstablished, StopStages
<1>4. CASE StartSpawn(c)
  <2>1. /\ call' \in [Controller -> Calls] /\ call'[c].at = "idle"
        /\ ~destroyed /\ running /\ background_thread = None /\ terminated' = FALSE
        /\ UNCHANGED <<running, stop_requested, cv_mutex, destroyed>>
    BY <1>4, GotoStep DEF StartSpawn, CallStages, CallEstablished
  <2>2. PICK l \in Fresh : loop' = [loop EXCEPT ![l] = "pass"] /\ background_thread' = l
    BY <1>4 DEF StartSpawn
  <2>3. Alive' = {l}
    BY <2>1, <2>2 DEF Alive, Fresh, HandleOwns, TypeOK, None, Loop
  <2> QED
    BY <2>1, <2>2, <2>3 DEF TypeOK, HandleOwns, Fresh, CallEstablished, StopStages,
       LoopStages
<1>5. CASE StartSpawnFails(c)
  <2>1. /\ UNCHANGED dataVars /\ call' \in [Controller -> Calls] /\ call'[c].at = "idle"
    BY <1>5, GotoStep DEF StartSpawnFails, CallStages
  <2> QED
    BY <2>1 DEF TypeOK, dataVars, HandleOwns, Alive, CallEstablished, StopStages
<1> QED
  BY <1>1, <1>2, <1>3, <1>4, <1>5

\* The steps of Stop and of the destructor after it.
LEMMA StopStep ==
  ASSUME Serial, Serial', IInv, NEW c \in Controller,
         \/ StopTest(c) \/ StopRequest(c) \/ StopNotify(c) \/ StopJoinable(c) \/ StopJoin(c)
         \/ StopMark(c) \/ DestroyMembers(c)
  PROVE  IInv'
<1> SUFFICES TypeOK' /\ ~terminated' /\ HandleOwns' /\ CallEstablished(c)'
  BY OthersIdle DEF IInv, ControlStep
<1> USE DEF IInv, Step, At
<1>1. CASE StopTest(c)
  <2>1. /\ UNCHANGED dataVars /\ call' \in [Controller -> Calls] /\ ~destroyed
        /\ \/ running /\ call'[c].at = "stop_request"
           \/ ~running /\ call'[c].at \in {"idle", "destroy_members"}
    BY <1>1, GotoStep, StopReturnStep DEF StopTest, CallStages, CallEstablished
  <2> QED
    BY <2>1 DEF TypeOK, dataVars, HandleOwns, Alive, CallEstablished, StopStages
<1>2. CASE StopRequest(c)
  <2>1. /\ call' \in [Controller -> Calls] /\ call'[c].at = "stop_notify"
        /\ ~destroyed /\ running /\ stop_requested' = TRUE
        /\ UNCHANGED <<running, cv_mutex, background_thread, loop, terminated, destroyed>>
    BY <1>2, GotoStep DEF StopRequest, CallStages, CallEstablished, StopStages
  <2> QED
    BY <2>1 DEF TypeOK, HandleOwns, Alive, CallEstablished, StopStages
<1>3. CASE StopNotify(c)
  <2>1. /\ call' \in [Controller -> Calls] /\ call'[c].at = "stop_joinable"
        /\ ~destroyed /\ running
        /\ loop' = [l \in Loop |-> IF loop[l] = "asleep" THEN "woken" ELSE loop[l]]
        /\ UNCHANGED <<running, stop_requested, cv_mutex, background_thread, terminated, destroyed>>
    BY <1>3, GotoStep DEF StopNotify, CallStages, CallEstablished, StopStages
  <2>2. Alive' = Alive /\ loop' \in [Loop -> LoopStages]
    BY <2>1 DEF Alive, TypeOK, LoopStages
  <2> QED
    BY <2>1, <2>2 DEF TypeOK, HandleOwns, CallEstablished, StopStages
<1>4. CASE StopJoinable(c)
  <2>1. /\ UNCHANGED dataVars /\ call' \in [Controller -> Calls] /\ ~destroyed /\ running
        /\ call'[c].at = IF background_thread # None THEN "stop_join" ELSE "stop_mark"
    BY <1>4, GotoStep DEF StopJoinable, CallStages, CallEstablished, StopStages
  <2> QED
    BY <2>1 DEF TypeOK, dataVars, HandleOwns, Alive, CallEstablished, StopStages
<1>5. CASE StopJoin(c)
  <2>1. /\ call' \in [Controller -> Calls] /\ call'[c].at = "stop_mark"
        /\ ~destroyed /\ running /\ background_thread # None
        /\ loop[background_thread] = "ended" /\ background_thread' = None /\ terminated' = FALSE
        /\ UNCHANGED <<running, stop_requested, cv_mutex, loop, destroyed>>
    BY <1>5, GotoStep DEF StopJoin, CallStages, CallEstablished, StopStages
  <2>2. Alive' = {}
    BY <2>1 DEF Alive, HandleOwns
  <2> QED
    BY <2>1, <2>2 DEF TypeOK, HandleOwns, CallEstablished, StopStages
<1>6. CASE StopMark(c)
  <2>1. /\ call' \in [Controller -> Calls] /\ call'[c].at \in {"idle", "destroy_members"}
        /\ ~destroyed /\ background_thread = None /\ running' = FALSE
        /\ UNCHANGED <<stop_requested, cv_mutex, background_thread, loop, terminated, destroyed>>
    BY <1>6, StopReturnStep DEF StopMark, CallEstablished
  <2> QED
    BY <2>1 DEF TypeOK, HandleOwns, Alive, CallEstablished, StopStages
<1>7. CASE DestroyMembers(c)
  <2>1. /\ ~running /\ background_thread = None /\ terminated' = FALSE
        /\ destroyed' = TRUE /\ call' = [call EXCEPT ![c] = Idle]
        /\ UNCHANGED <<running, stop_requested, cv_mutex, background_thread, loop>>
    BY <1>7 DEF DestroyMembers, CallEstablished, HandleOwns
  <2>2. call' \in [Controller -> Calls] /\ call'[c].at = "idle"
    BY <2>1 DEF TypeOK, Idle, Calls, CallStages
  <2> QED
    BY <2>1, <2>2 DEF TypeOK, HandleOwns, Alive, CallEstablished, StopStages
<1> QED
  BY <1>1, <1>2, <1>3, <1>4, <1>5, <1>6, <1>7

\* The loop touches nothing but its own place and the condition variable's mutex.
LEMMA LoopKeeps ==
  ASSUME IInv, NEW l \in Loop, LoopStep(l) \/ LoopTimeout(l) \/ LoopSpurious(l)
  PROVE  IInv'
<1>1. PICK s \in LoopStages : loop' = [loop EXCEPT ![l] = s] /\ l \in Alive
  BY DEF LoopStep, LoopTimeout, LoopSpurious, LoopPass, LoopLock, LoopCheck, LoopSleep, LoopExpired,
     LoopGo, LoopAt, LoopGoto, LoopStages, Alive
<1>2. /\ UNCHANGED <<running, stop_requested, background_thread, call, terminated, destroyed>>
      /\ cv_mutex' \in {cv_mutex, l, None}
  BY DEF LoopStep, LoopTimeout, LoopSpurious, LoopPass, LoopLock, LoopCheck, LoopSleep, LoopExpired
<1>3. Alive' \subseteq Alive
  BY <1>1 DEF Alive, IInv, TypeOK
<1>4. TypeOK'
  BY <1>1, <1>2 DEF IInv, TypeOK
<1> QED
  BY <1>2, <1>3, <1>4 DEF IInv, HandleOwns, CallEstablished

\* The invariant is inductive while the calls stay serial.
LEMMA NextIInv == IInv /\ Serial /\ Serial' /\ [Next]_bgVars => IInv'
<1> SUFFICES ASSUME IInv, Serial, Serial', [Next]_bgVars PROVE IInv'
  OBVIOUS
<1>1. CASE UNCHANGED bgVars
  BY <1>1 DEF bgVars, dataVars, IInv, TypeOK, HandleOwns, Alive, CallEstablished
<1> QED
  BY <1>1, CallStep, StartStep, StopStep, LoopKeeps DEF Next, ControlStep

\* So it holds for as long as they do.
LEMMA AlwaysIInv == Spec /\ []Serial => []IInv
BY InitIInv, NextIInv, PTL DEF Spec

-------------------------------------------------------------------------------
\* As long as the calls of Start, Stop and the destructor do not overlap, every live
\* background thread is the one the handle names, however often it is restarted, so
\* Stop joins it and none outlives its collector (gc.cpp:17-45).
THEOREM ThreadOwned == Spec /\ []Serial => []LoopOwned
<1>1. IInv => LoopOwned
  BY DEF IInv, HandleOwns, LoopOwned, Alive, Loop, None
<1> QED
  BY <1>1, AlwaysIInv, PTL

\* As long as those calls do not overlap, no joinable std::thread is ever assigned to,
\* joined twice or destroyed: std::terminate is not reached, also when the creation of
\* a thread fails (gc.cpp:5, 26-27, 41-44).
THEOREM LifeCycleSafe == Spec /\ []Serial => []NeverTerminates
<1>1. IInv => NeverTerminates
  BY DEF IInv, NeverTerminates
<1> QED
  BY <1>1, AlwaysIInv, PTL

===============================================================================
