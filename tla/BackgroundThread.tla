--------------------------- MODULE BackgroundThread ---------------------------
(***************************************************************************)
(* The life cycle of the collector's background thread (src/gc.cpp):       *)
(* StartBackground, StopBackground, the destructor and BackgroundLoop with *)
(* its condition variable, one step per atomic access, lock section or     *)
(* std::thread operation.  What a pass does is the module GarbageCollector.*)
(*                                                                         *)
(* cv_.wait_for gives up cv_mutex_ and starts to wait in one step, ends on *)
(* a notification, on the timeout or spuriously, and holds the mutex again *)
(* when it tests its predicate.  std::thread terminates the program when a *)
(* joinable handle is assigned to or destroyed; join() on a handle that is *)
(* not joinable throws, which nobody catches.                              *)
(***************************************************************************)
EXTENDS Integers

CONSTANTS Controller,  \* threads that call StartBackground and StopBackground
          MaxLoops     \* bound: how many background threads are ever created

ASSUME MaxLoopsAssumption == MaxLoops \in Nat

VARIABLES running,            \* running_
          stop_requested,     \* stop_requested_
          cv_mutex,           \* the background thread that holds cv_mutex_, or None
          background_thread,  \* the thread the handle is joinable with, or None
          loop,               \* where each background thread is in BackgroundLoop
          call,               \* where each controller is in its current call
          terminated,         \* std::terminate or an escaped exception
          destroyed           \* ~GarbageCollector has finished

\* All but where the controllers are.
dataVars == <<running, stop_requested, cv_mutex, background_thread, loop, terminated, destroyed>>
bgVars == <<dataVars, call>>

Loop == 1 .. MaxLoops
None == 0

LoopStages == {"none", "pass", "lock", "check", "sleep", "asleep", "woken",
               "timed_out", "expired", "ended"}

CallStages == {"idle", "start_test", "start_clear", "start_mark", "start_spawn",
               "stop_test", "stop_request", "stop_notify", "stop_joinable",
               "stop_join", "stop_mark", "destroy_members"}

\* A destructor runs StopBackground too; `final` tells the two apart.
Calls == [at : CallStages, final : BOOLEAN]
Idle == [at |-> "idle", final |-> FALSE]

Alive == {l \in Loop : loop[l] \notin {"none", "ended"}}
Fresh == {l \in Loop : loop[l] = "none"}

Init ==
  /\ running = FALSE
  /\ stop_requested = FALSE
  /\ cv_mutex = None
  /\ background_thread = None
  /\ loop = [l \in Loop |-> "none"]
  /\ call = [c \in Controller |-> Idle]
  /\ terminated = FALSE
  /\ destroyed = FALSE

At(c, stage) == call[c].at = stage /\ ~terminated
Goto(c, stage) == call' = [call EXCEPT ![c].at = stage]
Step(c, from, to) == At(c, from) /\ Goto(c, to)

\* StopBackground returns to its caller, or to the destructor.
StopReturn(c) == IF call[c].final THEN Goto(c, "destroy_members")
                 ELSE call' = [call EXCEPT ![c] = Idle]

-------------------------------------------------------------------------------
(* Callers.  Destroying the object while another thread is inside a call is  *)
(* the caller's mistake and does not happen here.                            *)

Call(c) ==
  /\ At(c, "idle") /\ ~destroyed
  /\ \A d \in Controller : ~call[d].final
  /\ Goto(c, "start_test") \/ Goto(c, "stop_test")
  /\ UNCHANGED dataVars

\* ~GarbageCollector: StopBackground first, then the members.
CallDestructor(c) ==
  /\ ~terminated /\ ~destroyed
  /\ \A d \in Controller : call[d] = Idle
  /\ call' = [call EXCEPT ![c] = [at |-> "stop_test", final |-> TRUE]]
  /\ UNCHANGED dataVars

DestroyMembers(c) ==
  /\ At(c, "destroy_members")
  /\ terminated' = (background_thread # None)
  /\ destroyed' = TRUE
  /\ call' = [call EXCEPT ![c] = Idle]
  /\ UNCHANGED <<running, stop_requested, cv_mutex, background_thread, loop>>

-------------------------------------------------------------------------------
(* GarbageCollector::StartBackground *)

StartTest(c) ==
  /\ Step(c, "start_test", IF running THEN "idle" ELSE "start_clear")
  /\ UNCHANGED dataVars

Mut_StartClearForgets(c) ==
  /\ Step(c, "start_clear", "start_mark")
  /\ cv_mutex = None
  /\ UNCHANGED dataVars

StartClear(c) ==
  /\ Step(c, "start_clear", "start_mark")
  /\ cv_mutex = None
  /\ stop_requested' = FALSE
  /\ UNCHANGED <<running, cv_mutex, background_thread, loop, terminated, destroyed>>

StartMark(c) ==
  /\ Step(c, "start_mark", "start_spawn")
  /\ running' = TRUE
  /\ UNCHANGED <<stop_requested, cv_mutex, background_thread, loop, terminated, destroyed>>

\* The new thread runs at once and the handle is assigned, in one step: the thread
\* itself never looks at the handle.
StartSpawn(c) ==
  /\ Step(c, "start_spawn", "idle")
  /\ \E l \in Fresh :
       /\ \A m \in Fresh : l <= m
       /\ loop' = [loop EXCEPT ![l] = "pass"]
       /\ background_thread' = l
  /\ terminated' = (background_thread # None)
  /\ UNCHANGED <<running, stop_requested, cv_mutex, destroyed>>

\* std::thread's constructor throws when no thread can be created.
StartSpawnFails(c) ==
  /\ Step(c, "start_spawn", "idle")
  /\ UNCHANGED dataVars

-------------------------------------------------------------------------------
(* GarbageCollector::StopBackground *)

StopTest(c) ==
  /\ At(c, "stop_test")
  /\ IF running THEN Goto(c, "stop_request") ELSE StopReturn(c)
  /\ UNCHANGED dataVars

Mut_StopRequestUnlocked(c) ==
  /\ Step(c, "stop_request", "stop_notify")
  /\ stop_requested' = TRUE
  /\ UNCHANGED <<running, cv_mutex, background_thread, loop, terminated, destroyed>>

StopRequest(c) ==
  /\ Step(c, "stop_request", "stop_notify")
  /\ cv_mutex = None
  /\ stop_requested' = TRUE
  /\ UNCHANGED <<running, cv_mutex, background_thread, loop, terminated, destroyed>>

StopNotify(c) ==
  /\ Step(c, "stop_notify", "stop_joinable")
  /\ loop' = [l \in Loop |-> IF loop[l] = "asleep" THEN "woken" ELSE loop[l]]
  /\ UNCHANGED <<running, stop_requested, cv_mutex, background_thread, terminated, destroyed>>

Mut_StopJoinableUnchecked(c) ==
  /\ Step(c, "stop_joinable", "stop_join")
  /\ UNCHANGED dataVars

Mut_StopJoinableSkipsJoin(c) ==
  /\ Step(c, "stop_joinable", "stop_mark")
  /\ UNCHANGED dataVars

StopJoinable(c) ==
  /\ Step(c, "stop_joinable", IF background_thread # None THEN "stop_join" ELSE "stop_mark")
  /\ UNCHANGED dataVars

StopJoin(c) ==
  /\ Step(c, "stop_join", "stop_mark")
  /\ background_thread # None => loop[background_thread] = "ended"
  /\ background_thread' = None
  /\ terminated' = (background_thread = None)
  /\ UNCHANGED <<running, stop_requested, cv_mutex, loop, destroyed>>

StopMark(c) ==
  /\ At(c, "stop_mark")
  /\ running' = FALSE
  /\ StopReturn(c)
  /\ UNCHANGED <<stop_requested, cv_mutex, background_thread, loop, terminated, destroyed>>

-------------------------------------------------------------------------------
(* GarbageCollector::BackgroundLoop *)

LoopAt(l, stage) == loop[l] = stage /\ ~terminated
LoopGoto(l, stage) == loop' = [loop EXCEPT ![l] = stage]
LoopGo(l, from, to) == LoopAt(l, from) /\ LoopGoto(l, to)

\* RunOnce
LoopPass(l) ==
  /\ LoopGo(l, "pass", "lock")
  /\ UNCHANGED <<running, stop_requested, cv_mutex, background_thread, call, terminated, destroyed>>

\* unique_lock, and the reacquisition inside wait_for
LoopLock(l) ==
  /\ cv_mutex = None
  /\ \/ LoopGo(l, "lock", "check")
     \/ LoopGo(l, "woken", "check")
     \/ LoopGo(l, "timed_out", "expired")
  /\ cv_mutex' = l
  /\ UNCHANGED <<running, stop_requested, background_thread, call, terminated, destroyed>>

\* The predicate, tested before waiting and after every wake-up; when it holds,
\* wait_for and then the loop return.
LoopCheck(l) ==
  /\ LoopGo(l, "check", IF stop_requested THEN "ended" ELSE "sleep")
  /\ cv_mutex' = IF stop_requested THEN None ELSE l
  /\ UNCHANGED <<running, stop_requested, background_thread, call, terminated, destroyed>>

LoopSleep(l) ==
  /\ LoopGo(l, "sleep", "asleep")
  /\ cv_mutex' = None
  /\ UNCHANGED <<running, stop_requested, background_thread, call, terminated, destroyed>>

LoopTimeout(l) ==
  /\ LoopGo(l, "asleep", "timed_out")
  /\ UNCHANGED <<running, stop_requested, cv_mutex, background_thread, call, terminated, destroyed>>

LoopSpurious(l) ==
  /\ LoopGo(l, "asleep", "woken")
  /\ UNCHANGED <<running, stop_requested, cv_mutex, background_thread, call, terminated, destroyed>>

\* After the timeout wait_for returns whatever the predicate says; the loop
\* tests the flag itself.
LoopExpired(l) ==
  /\ LoopGo(l, "expired", IF stop_requested THEN "ended" ELSE "pass")
  /\ cv_mutex' = None
  /\ UNCHANGED <<running, stop_requested, background_thread, call, terminated, destroyed>>

-------------------------------------------------------------------------------
\* What a controller does once it is inside a call.
ControlStep(c) ==
  \/ StartTest(c) \/ StartClear(c) \/ StartMark(c) \/ StartSpawn(c) \/ StartSpawnFails(c)
  \/ StopTest(c) \/ StopRequest(c) \/ StopNotify(c) \/ StopJoinable(c) \/ StopJoin(c)
  \/ StopMark(c) \/ DestroyMembers(c)

\* What a background thread does of its own accord; it need not time out.
LoopStep(l) ==
  LoopPass(l) \/ LoopLock(l) \/ LoopCheck(l) \/ LoopSleep(l) \/ LoopExpired(l)

Next ==
  \/ \E c \in Controller :
       Call(c) \/ CallDestructor(c) \/ ControlStep(c)
  \/ \E l \in Loop : LoopStep(l) \/ LoopTimeout(l) \/ LoopSpurious(l)

Spec == Init /\ [][Next]_bgVars

\* Threads keep running, and a thread waiting for cv_mutex_ gets it if it is free
\* again and again (the loop gives it up for a whole interval at a time).
Scheduling ==
  /\ \A c \in Controller : SF_bgVars(ControlStep(c))
  /\ \A l \in Loop : WF_bgVars(LoopStep(l))

\* No timeout ever has to happen: as if the interval were infinite.
PromptSpec == Spec /\ Scheduling

\* The interval is finite and its end a fixed moment: spurious wake-ups do not
\* postpone it.
TimeoutsHappen == \A l \in Loop : SF_bgVars(LoopTimeout(l))

-------------------------------------------------------------------------------
\* Every variable has its type: handles and mutex owners are background threads.
TypeOK ==
  /\ running \in BOOLEAN /\ stop_requested \in BOOLEAN
  /\ terminated \in BOOLEAN /\ destroyed \in BOOLEAN
  /\ cv_mutex \in Loop \cup {None}
  /\ background_thread \in Loop \cup {None}
  /\ loop \in [Loop -> LoopStages]
  /\ call \in [Controller -> Calls]

\* A background thread never outlives the call or the object that owns it: while
\* one is alive it is the one the handle names, running_ says so, and the object
\* exists.  In particular there are never two, and none is left when
\* StopBackground has returned or the destructor has finished (gc.cpp:5, 30-45).
LoopOwned ==
  \A l \in Alive : background_thread = l /\ running /\ ~destroyed

\* No sequence of starts, stops and destruction crashes the program, even when a
\* thread could not be created and running_ was left set without one
\* (gc.cpp:26-27, 41-43; tests/test_gc.cpp:101-117).
NeverTerminates == ~terminated

\* A stop request is never lost: StopBackground and the destructor return even if
\* no wait ever timed out (gc.h:100-102, "wake the loop immediately instead of
\* waiting out the rest of a possibly-long interval").
StopReturns ==
  \A c \in Controller :
    call[c].at \in {"stop_test", "stop_request", "stop_notify", "stop_joinable",
                    "stop_join", "stop_mark", "destroy_members"}
      ~> (call[c] = Idle)

\* While the thread is left running, passes go on for ever, also after any number
\* of restarts (gc.h:72-74): stop_requested_ of an earlier life is not obeyed.
PassesRecur ==
  /\ TimeoutsHappen
  /\ <>[](running /\ background_thread # None /\ \A c \in Controller : call[c] = Idle)
  => []<>(\E l \in Loop : loop[l] = "pass")

===============================================================================
