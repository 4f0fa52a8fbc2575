-------------------------- MODULE OTRtosAdaptation --------------------------
(***************************************************************************)
(* The OpenThread RTOS adaptation layer of sl_ot_rtos_adaptation.c and the *)
(* threads that use it:                                                    *)
(*   - the init thread running sl_internal_app_init (sl_event_handler.c),  *)
(*     which creates the tasks, the stack mutex and the OpenThread         *)
(*     instance;                                                           *)
(*   - the stack, serial and (optional) app tasks, each with an event      *)
(*     mailbox: a volatile bitset plus a binary semaphore;                 *)
(*   - application threads calling OpenThread API wrappers                 *)
(*     (mdns_wrapper.c) under the stack mutex;                             *)
(*   - the radio and UART interrupts posting events.                       *)
(* The tasks run on one core under a preemptive fixed-priority scheduler   *)
(* with time slicing between equal priorities; the stack mutex has         *)
(* priority inheritance.  The read-modify-write updates of the event       *)
(* bitset ('events |= e', 'events &= ~acc') are a load and a store that a  *)
(* higher-priority thread or an interrupt may separate.                    *)
(* The OpenThread instance is opaque: it is reduced to the work it has     *)
(* pending (driver events, tasklets, serial input), whether a pseudo reset *)
(* was requested, and which threads are executing inside it.               *)
(***************************************************************************)
EXTENDS Integers, Sequences, FiniteSets, Functions, FiniteSetsExt

CONSTANTS
    AppTaskEnabled,     \* SL_OPENTHREAD_ENABLE_APP_TASK
    SerialTaskEnabled,  \* SL_OPENTHREAD_ENABLE_SERIAL_TASK
    ApiThreads,         \* application threads calling OpenThread API wrappers
    Prio,               \* base priority of every thread
    ResetEnabled,       \* the instance may request a pseudo reset
    None,               \* no thread
    MaxDepth,           \* bound on the recursion count of the stack mutex
    MaxApiCalls         \* bound on the calls each application thread makes

Stack  == "stack"
Serial == "serial"
App    == "app"
Main   == "main"

\* the tasks created by sl_ot_rtos_stack_init / sl_ot_rtos_app_init
Tasks == {Stack}
         \cup (IF SerialTaskEnabled THEN {Serial} ELSE {})
         \cup (IF AppTaskEnabled THEN {App} ELSE {})

Threads == Tasks \cup {Main} \cup ApiThreads

\* sl_ot_rtos_event_t bits
STACK  == "STACK"
APP    == "APP"
SERIAL == "SERIAL"
Kinds  == {STACK, APP, SERIAL}

ASSUME Prio \in [Threads -> Nat] /\ MaxDepth \in Nat \ {0} /\ MaxApiCalls \in Nat

VARIABLES
    pc,          \* next step of every thread
    events,      \* task_info->events of every task
    sem,         \* count of task_info->semaphore (max 1)
    born,        \* tasks whose sl_ot_rtos_stack_create has run
    acc,         \* local accessible_events of sl_ot_rtos_wait_for_event
    reg,         \* value loaded by the pending read-modify-write of events
    todo,        \* mailboxes sl_ot_rtos_set_pending_event has still to notify
    evt,         \* the event argument of sl_ot_rtos_set_pending_event
    ret,         \* step after sl_ot_rtos_set_pending_event returns
    mutexCreated, mutexOwner, mutexDepth,
    drvWork,     \* driver events waiting for otSysProcessDrivers
    tasklets,    \* otTaskletsArePending
    serialWork,  \* UART input waiting for efr32SerialProcess
    resetReq,    \* otSysPseudoResetWasRequested
    engineUp,    \* sl_ot_init has returned
    finalized,   \* otInstanceFinalize has run
    inEngine,    \* threads executing inside an OpenThread call
    owed,        \* history: an event was posted to the task after it last
                 \* started a service cycle
    calls        \* calls made by each application thread

mbox    == <<events, sem, born>>
locals  == <<acc, reg, todo, evt, ret>>
mutex   == <<mutexCreated, mutexOwner, mutexDepth>>
engine  == <<drvWork, tasklets, serialWork, resetReq, engineUp, finalized, inEngine>>
vars    == <<pc, mbox, locals, mutex, engine, owed, calls>>

Mtx == INSTANCE OTStackMutex
         WITH created <- mutexCreated, owner <- mutexOwner, depth <- mutexDepth

-----------------------------------------------------------------------------
(* Event routing and mailbox masks                                         *)

\* sl_ot_rtos_set_pending_event: the mailboxes set_event_flag is called on,
\* in program order; each of them receives the whole event.
Route(e) ==
    (IF SerialTaskEnabled /\ SERIAL \in e THEN <<Serial>> ELSE <<>>)
    \o (IF AppTaskEnabled /\ APP \in e THEN <<App, Stack>> ELSE <<>>)
    \o (IF STACK \in e THEN <<Stack>> ELSE <<>>)

\* Fault variant of Mask: the stack task waits for SL_OT_RTOS_EVENT_APP, as
\* if its wait call were copied from sli_ot_app_task.
MaskStackWaitsApp(m) == CASE m = Stack  -> {APP}
                       [] m = Serial -> {SERIAL}
                       [] m = App    -> {APP}

\* the event each task waits for in its loop
Mask(m) == CASE m = Stack  -> {STACK}
             [] m = Serial -> {SERIAL}
             [] m = App    -> {APP}

\* where each task's loop continues after sl_ot_rtos_wait_for_event
WaitReturn(m) == CASE m = Stack  -> "st_loop"
                   [] m = Serial -> "se_acquire"
                   [] m = App    -> "ap_loop"

-----------------------------------------------------------------------------
(* Scheduling                                                              *)

AcquireLabels == {"st_acquire", "se_acquire", "api_acquire"}

MutexWaiters == {t \in Threads : pc[t] \in AcquireLabels /\ Mtx!HeldByOther(t)}

Blocked(t) == \/ pc[t] = "w_acquire" /\ sem[t] = 0
              \/ t \in MutexWaiters

Dormant(t) == pc[t] \in {"unborn", "done", "api_idle"}

Ready(t) == ~Dormant(t) /\ ~Blocked(t)

EffPrio(t) ==
    IF t = mutexOwner
    THEN Max({Prio[t]} \cup {Prio[w] : w \in MutexWaiters})
    ELSE Prio[t]

\* the threads the scheduler may run: the ready ones of highest priority
Running == {t \in Threads : Ready(t) /\ \A u \in Threads :
                                        Ready(u) => EffPrio(u) <= EffPrio(t)}

-----------------------------------------------------------------------------
Init ==
    /\ pc = [t \in Threads |-> IF t = Main THEN "m_stack_create"
                               ELSE IF t \in ApiThreads THEN "api_idle"
                               ELSE "unborn"]
    /\ events = [m \in Tasks |-> {}]
    /\ sem = [m \in Tasks |-> 0]
    /\ born = {}
    /\ acc = [t \in Threads |-> {}]
    /\ reg = [t \in Threads |-> {}]
    /\ todo = [t \in Threads |-> <<>>]
    /\ evt = [t \in Threads |-> {}]
    /\ ret = [t \in Threads |-> "api_idle"]
    /\ Mtx!MutexInit
    /\ drvWork = FALSE /\ tasklets = FALSE /\ serialWork = FALSE
    /\ resetReq = FALSE /\ engineUp = FALSE /\ finalized = FALSE
    /\ inEngine = {}
    /\ owed = [m \in Tasks |-> FALSE]
    /\ calls = [t \in ApiThreads |-> 0]

Goto(t, l) == pc' = [pc EXCEPT ![t] = l]

At(t, l) == pc[t] = l

-----------------------------------------------------------------------------
(* sl_ot_rtos_set_pending_event called from thread context: for each      *)
(* mailbox, sl_ot_rtos_set_event_flag loads events, stores it OR-ed with  *)
(* the event, then releases the semaphore.                                 *)

CallPost(t, e, r) ==
    /\ todo' = [todo EXCEPT ![t] = Route(e)]
    /\ evt' = [evt EXCEPT ![t] = e]
    /\ ret' = [ret EXCEPT ![t] = r]
    /\ Goto(t, IF Route(e) = <<>> THEN r ELSE "p_load")
    /\ UNCHANGED <<acc, reg>>

PostLoad(t) ==
    /\ At(t, "p_load")
    /\ reg' = [reg EXCEPT ![t] = events[Head(todo[t])]]
    /\ Goto(t, "p_store")
    /\ UNCHANGED <<mbox, acc, todo, evt, ret, mutex, engine, owed>>

PostStore(t) ==
    LET m == Head(todo[t]) IN
    /\ At(t, "p_store")
    /\ events' = [events EXCEPT ![m] = reg[t] \cup evt[t]]
    /\ owed' = [owed EXCEPT ![m] = TRUE]
    /\ reg' = [reg EXCEPT ![t] = {}]     \* dead after the store
    /\ Goto(t, "p_release")
    /\ UNCHANGED <<sem, born, acc, todo, evt, ret, mutex, engine>>

\* osSemaphoreRelease: count 1 (at most); an error on a NULL handle
PostRelease(t) ==
    LET m == Head(todo[t]) IN
    /\ At(t, "p_release")
    /\ sem' = [sem EXCEPT ![m] = IF m \in born THEN 1 ELSE @]
    /\ todo' = [todo EXCEPT ![t] = Tail(@)]
    /\ IF Tail(todo[t]) = <<>>
       THEN Goto(t, ret[t]) /\ evt' = [evt EXCEPT ![t] = {}]
       ELSE Goto(t, "p_load") /\ UNCHANGED evt
    /\ UNCHANGED <<events, born, acc, reg, ret, mutex, engine, owed>>

\* Fault variant of IsrPost: a counting semaphore (max count above 1).
IsrPostCounting(e) ==
    LET ms == Range(Route(e)) IN
    /\ events' = [m \in Tasks |-> IF m \in ms THEN events[m] \cup e ELSE events[m]]
    /\ sem' = [m \in Tasks |-> IF m \in ms /\ m \in born THEN sem[m] + 1 ELSE sem[m]]
    /\ owed' = [m \in Tasks |-> owed[m] \/ m \in ms]

\* sl_ot_rtos_set_pending_event from an interrupt: not preempted by tasks
IsrPost(e) ==
    LET ms == Range(Route(e)) IN
    /\ events' = [m \in Tasks |-> IF m \in ms THEN events[m] \cup e ELSE events[m]]
    /\ sem' = [m \in Tasks |-> IF m \in ms /\ m \in born THEN 1 ELSE sem[m]]
    /\ owed' = [m \in Tasks |-> owed[m] \/ m \in ms]

-----------------------------------------------------------------------------
(* sl_ot_rtos_wait_for_event(task_info of t, Mask(t))                      *)

WaitCheck(t) ==
    LET a == events[t] \cap Mask(t) IN
    /\ At(t, "w_check")
    /\ acc' = [acc EXCEPT ![t] = a]
    /\ Goto(t, IF a = {} THEN "w_acquire" ELSE "w_clear_load")
    /\ UNCHANGED <<mbox, reg, todo, evt, ret, mutex, engine, owed>>

\* Fault variant of WaitAcquire: the loop does not re-read the events
\* after taking the semaphore and waits again.
WaitAcquireNoReread(t) ==
    /\ At(t, "w_acquire")
    /\ sem[t] = 1
    /\ sem' = [sem EXCEPT ![t] = 0]
    /\ UNCHANGED <<pc, events, born, locals, mutex, engine, owed>>

\* osSemaphoreAcquire(..., osWaitForever): blocked while the count is 0
WaitAcquire(t) ==
    /\ At(t, "w_acquire")
    /\ sem[t] = 1
    /\ sem' = [sem EXCEPT ![t] = 0]
    /\ Goto(t, "w_check")
    /\ UNCHANGED <<events, born, locals, mutex, engine, owed>>

WaitClearLoad(t) ==
    /\ At(t, "w_clear_load")
    /\ reg' = [reg EXCEPT ![t] = events[t]]
    /\ Goto(t, "w_clear_store")
    /\ UNCHANGED <<mbox, acc, todo, evt, ret, mutex, engine, owed>>

WaitClearStore(t) ==
    /\ At(t, "w_clear_store")
    /\ events' = [events EXCEPT ![t] = reg[t] \ acc[t]]
    /\ acc' = [acc EXCEPT ![t] = {}]     \* the result is discarded by every caller
    /\ reg' = [reg EXCEPT ![t] = {}]
    /\ Goto(t, WaitReturn(t))
    /\ UNCHANGED <<sem, born, todo, evt, ret, mutex, engine, owed>>

-----------------------------------------------------------------------------
(* A call into the OpenThread instance by t, continuing at r.  Besides its *)
(* own work (tl: the tasklet flag it leaves), the call may post a tasklet  *)
(* (otTaskletsSignalPending -> sl_ot_rtos_set_pending_event(STACK)) or     *)
(* request a pseudo reset.                                                 *)

EngineCall(t, r, tl) ==
    \/ /\ tasklets' = tl
       /\ Goto(t, r)
       /\ UNCHANGED <<locals, resetReq>>
    \/ /\ tasklets' = TRUE
       /\ CallPost(t, {STACK}, r)
       /\ UNCHANGED resetReq
    \/ /\ ResetEnabled
       /\ resetReq' = TRUE
       /\ tasklets' = tl
       /\ Goto(t, r)
       /\ UNCHANGED locals

-----------------------------------------------------------------------------
(* Init thread: sl_internal_app_init                                       *)

\* sl_ot_rtos_stack_create: events = 0, osSemaphoreNew(1, 0), osThreadNew
StackCreate(m, first, next) ==
    /\ events' = [events EXCEPT ![m] = {}]
    /\ sem' = [sem EXCEPT ![m] = 0]
    /\ born' = born \cup {m}
    /\ pc' = [pc EXCEPT ![m] = first, ![Main] = next]
    /\ UNCHANGED <<locals, mutex, engine, owed>>

AfterStackCreate == IF SerialTaskEnabled THEN "m_serial_create" ELSE "m_mutex"

MainStackCreate ==
    At(Main, "m_stack_create") /\ StackCreate(Stack, "st_loop", AfterStackCreate)

MainSerialCreate ==
    At(Main, "m_serial_create") /\ StackCreate(Serial, "se_acquire", "m_mutex")

\* sl_ot_rtos_create_stack_mutex
MainMutexCreate ==
    /\ At(Main, "m_mutex")
    /\ Mtx!New
    /\ Goto(Main, "m_ot_init")
    /\ UNCHANGED <<mbox, locals, engine, owed>>

\* sl_ot_init: instance initialisation, without the stack mutex
MainOtInit ==
    /\ At(Main, "m_ot_init")
    /\ inEngine' = inEngine \cup {Main}
    /\ Goto(Main, "m_ot_init_done")
    /\ UNCHANGED <<mbox, locals, mutex, drvWork, tasklets, serialWork,
                   resetReq, engineUp, finalized, owed>>

MainOtInitDone ==
    /\ At(Main, "m_ot_init_done")
    /\ inEngine' = inEngine \ {Main}
    /\ engineUp' = TRUE
    /\ Goto(Main, IF AppTaskEnabled THEN "m_app_create" ELSE "done")
    /\ UNCHANGED <<mbox, locals, mutex, drvWork, tasklets, serialWork,
                   resetReq, finalized, owed>>

\* sl_ot_rtos_app_init
MainAppCreate ==
    At(Main, "m_app_create") /\ StackCreate(App, "ap_loop", "done")

MainStep == MainStackCreate \/ MainSerialCreate \/ MainMutexCreate
            \/ MainOtInit \/ MainOtInitDone \/ MainAppCreate

-----------------------------------------------------------------------------
(* Stack task: sli_ot_stack_task                                           *)

\* while (!otSysPseudoResetWasRequested())
\* Fault variant of StackLoop: the loop does not test the reset flag.
StackLoopNoResetTest ==
    /\ At(Stack, "st_loop")
    /\ Goto(Stack, "st_acquire")
    /\ UNCHANGED <<mbox, locals, mutex, engine, owed>>

StackLoop ==
    /\ At(Stack, "st_loop")
    /\ Goto(Stack, IF resetReq THEN "st_finalize" ELSE "st_acquire")
    /\ UNCHANGED <<mbox, locals, mutex, engine, owed>>

StackAcquire ==
    /\ At(Stack, "st_acquire")
    /\ Mtx!Acquire(Stack)
    /\ Goto(Stack, "st_drivers")
    /\ UNCHANGED <<mbox, locals, engine, owed>>

\* otSysProcessDrivers(instance): the service cycle starts here
StackDrivers ==
    /\ At(Stack, "st_drivers")
    /\ inEngine' = inEngine \cup {Stack}
    /\ drvWork' = FALSE
    /\ owed' = [owed EXCEPT ![Stack] = FALSE]
    /\ EngineCall(Stack, "st_tasklets", tasklets)
    /\ UNCHANGED <<mbox, mutex, serialWork, engineUp, finalized>>

\* otTaskletsProcess(instance): runs the pending tasklets; one of them may
\* call an OpenThread API wrapper, re-taking the recursive mutex
StackTasklets ==
    /\ At(Stack, "st_tasklets")
    /\ \/ /\ ~tasklets
          /\ Goto(Stack, "st_release")
          /\ UNCHANGED <<locals, tasklets, resetReq>>
       \/ /\ tasklets
          /\ EngineCall(Stack, "st_release", FALSE)
       \/ /\ tasklets
          /\ tasklets' = FALSE
          /\ Goto(Stack, "st_nested")
          /\ UNCHANGED <<locals, resetReq>>
    /\ UNCHANGED <<mbox, mutex, drvWork, serialWork, engineUp, finalized,
                   inEngine, owed>>

\* a wrapper of mdns_wrapper.c called from a tasklet
StackNested ==
    /\ At(Stack, "st_nested")
    /\ Mtx!Acquire(Stack)
    /\ Goto(Stack, "st_nested_release")
    /\ UNCHANGED <<mbox, locals, engine, owed>>

StackNestedRelease ==
    /\ At(Stack, "st_nested_release")
    /\ Mtx!Release(Stack)
    /\ Goto(Stack, "st_release")
    /\ UNCHANGED <<mbox, locals, engine, owed>>

StackRelease ==
    /\ At(Stack, "st_release")
    /\ inEngine' = inEngine \ {Stack}
    /\ Mtx!Release(Stack)
    /\ Goto(Stack, "st_check")
    /\ UNCHANGED <<mbox, locals, drvWork, tasklets, serialWork, resetReq,
                   engineUp, finalized, owed>>

\* if (!otTaskletsArePending(instance)) wait for SL_OT_RTOS_EVENT_STACK
StackCheck ==
    /\ At(Stack, "st_check")
    /\ Goto(Stack, IF tasklets THEN "st_loop" ELSE "w_check")
    /\ UNCHANGED <<mbox, locals, mutex, engine, owed>>

\* otInstanceFinalize(instance), called without the stack mutex
StackFinalize ==
    /\ At(Stack, "st_finalize")
    /\ inEngine' = inEngine \cup {Stack}
    /\ Goto(Stack, "st_terminate")
    /\ UNCHANGED <<mbox, locals, mutex, drvWork, tasklets, serialWork,
                   resetReq, engineUp, finalized, owed>>

\* osThreadTerminate(sli_ot_stack_task_info.id)
StackTerminate ==
    /\ At(Stack, "st_terminate")
    /\ inEngine' = inEngine \ {Stack}
    /\ finalized' = TRUE
    /\ Goto(Stack, "done")
    /\ UNCHANGED <<mbox, locals, mutex, drvWork, tasklets, serialWork,
                   resetReq, engineUp, owed>>

StackStep == StackLoop \/ StackAcquire \/ StackDrivers \/ StackTasklets
             \/ StackNested \/ StackNestedRelease \/ StackRelease
             \/ StackCheck \/ StackFinalize \/ StackTerminate

-----------------------------------------------------------------------------
(* Serial task: sli_ot_serial_task, a while (1) loop                       *)

\* Fault variant of SerialAcquire: efr32SerialProcess called without
\* sl_ot_rtos_acquire_stack_mutex.
SerialAcquireNoLock ==
    /\ At(Serial, "se_acquire")
    /\ Goto(Serial, "se_process")
    /\ UNCHANGED <<mbox, locals, mutex, engine, owed>>

SerialAcquire ==
    /\ At(Serial, "se_acquire")
    /\ Mtx!Acquire(Serial)
    /\ Goto(Serial, "se_process")
    /\ UNCHANGED <<mbox, locals, engine, owed>>

\* efr32SerialProcess(): the service cycle of the serial task
SerialProcess ==
    /\ At(Serial, "se_process")
    /\ inEngine' = inEngine \cup {Serial}
    /\ serialWork' = FALSE
    /\ owed' = [owed EXCEPT ![Serial] = FALSE]
    /\ EngineCall(Serial, "se_release", tasklets)
    /\ UNCHANGED <<mbox, mutex, drvWork, engineUp, finalized>>

SerialRelease ==
    /\ At(Serial, "se_release")
    /\ inEngine' = inEngine \ {Serial}
    /\ Mtx!Release(Serial)
    /\ Goto(Serial, "w_check")
    /\ UNCHANGED <<mbox, locals, drvWork, tasklets, serialWork, resetReq,
                   engineUp, finalized, owed>>

SerialStep == SerialAcquire \/ SerialProcess \/ SerialRelease

-----------------------------------------------------------------------------
(* App task: sli_ot_app_task                                               *)

\* while (!otSysPseudoResetWasRequested()) { sl_ot_rtos_application_tick();
\* wait for SL_OT_RTOS_EVENT_APP }, then osThreadTerminate.  The tick is
\* the weak empty default.
AppLoop ==
    /\ At(App, "ap_loop")
    /\ IF resetReq
       THEN Goto(App, "done") /\ UNCHANGED owed
       ELSE Goto(App, "w_check") /\ owed' = [owed EXCEPT ![App] = FALSE]
    /\ UNCHANGED <<mbox, locals, mutex, engine>>

-----------------------------------------------------------------------------
(* Application threads calling an OpenThread API: a wrapper of             *)
(* mdns_wrapper.c (acquire, real call, release), the non-blocking          *)
(* sl_ot_rtos_try_acquire_stack_mutex, or sl_ot_rtos_set_pending_event(APP)*)

\* something outside this layer makes the thread call in
ApiWake(t) ==
    /\ At(t, "api_idle")
    /\ At(Main, "done")
    /\ calls[t] < MaxApiCalls
    /\ calls' = [calls EXCEPT ![t] = @ + 1]
    /\ Goto(t, "api_start")
    /\ UNCHANGED <<mbox, locals, mutex, engine, owed>>

ApiStart(t) ==
    /\ At(t, "api_start")
    /\ \/ Goto(t, "api_acquire") /\ UNCHANGED locals
       \/ Goto(t, "api_try") /\ UNCHANGED locals
       \/ AppTaskEnabled /\ CallPost(t, {APP}, "api_idle")
    /\ UNCHANGED <<mbox, mutex, engine, owed>>

ApiAcquire(t) ==
    /\ At(t, "api_acquire")
    /\ Mtx!Acquire(t)
    /\ Goto(t, "api_call")
    /\ UNCHANGED <<mbox, locals, engine, owed>>

\* on failure the caller defers its work
ApiTry(t) ==
    /\ At(t, "api_try")
    /\ \/ Mtx!TryAcquireOk(t) /\ Goto(t, "api_call")
       \/ Mtx!TryAcquireFail(t) /\ Goto(t, "api_idle")
    /\ UNCHANGED <<mbox, locals, engine, owed>>

ApiCall(t) ==
    /\ At(t, "api_call")
    /\ inEngine' = inEngine \cup {t}
    /\ EngineCall(t, "api_release", tasklets)
    /\ UNCHANGED <<mbox, mutex, drvWork, serialWork, engineUp, finalized, owed>>

ApiRelease(t) ==
    /\ At(t, "api_release")
    /\ inEngine' = inEngine \ {t}
    /\ Mtx!Release(t)
    /\ Goto(t, "api_idle")
    /\ UNCHANGED <<mbox, locals, drvWork, tasklets, serialWork, resetReq,
                   engineUp, finalized, owed>>

ApiStep(t) == ApiStart(t) \/ ApiAcquire(t) \/ ApiTry(t) \/ ApiCall(t)
              \/ ApiRelease(t)

-----------------------------------------------------------------------------
(* Interrupts                                                              *)

\* a radio/driver interrupt queues an event: otSysEventSignalPending
IsrRadio ==
    /\ engineUp
    /\ drvWork' = TRUE
    /\ IsrPost({STACK})
    /\ UNCHANGED <<pc, born, locals, mutex, tasklets, serialWork, resetReq,
                   engineUp, finalized, inEngine, calls>>

\* UART input: sl_ot_rtos_set_pending_event(SL_OT_RTOS_EVENT_SERIAL)
IsrUart ==
    /\ SerialTaskEnabled
    /\ engineUp
    /\ serialWork' = TRUE
    /\ IsrPost({SERIAL})
    /\ UNCHANGED <<pc, born, locals, mutex, drvWork, tasklets, resetReq,
                   engineUp, finalized, inEngine, calls>>

-----------------------------------------------------------------------------
PostStep(t) == PostLoad(t) \/ PostStore(t) \/ PostRelease(t)

WaitStep(t) == WaitCheck(t) \/ WaitAcquire(t) \/ WaitClearLoad(t)
               \/ WaitClearStore(t)

\* one step of thread t
Step(t) ==
    /\ t \in Running
    /\ UNCHANGED calls
    /\ \/ PostStep(t)
       \/ t \in Tasks /\ WaitStep(t)
       \/ t = Main /\ MainStep
       \/ t = Stack /\ StackStep
       \/ t = Serial /\ SerialStep
       \/ t = App /\ AppLoop
       \/ t \in ApiThreads /\ ApiStep(t)

Next ==
    \/ \E t \in Threads : Step(t)
    \/ \E t \in ApiThreads : ApiWake(t)
    \/ IsrRadio
    \/ IsrUart

\* The scheduler eventually runs a thread that stays runnable; interrupts
\* and application calls are not assumed to happen.
Fairness == \A t \in Threads : WF_vars(Step(t))

Spec == Init /\ [][Next]_vars /\ Fairness

-----------------------------------------------------------------------------
(* Properties                                                              *)

Labels == {"unborn", "done", "p_load", "p_store", "p_release",
           "w_check", "w_acquire", "w_clear_load", "w_clear_store",
           "m_stack_create", "m_serial_create", "m_mutex", "m_ot_init",
           "m_ot_init_done", "m_app_create",
           "st_loop", "st_acquire", "st_drivers", "st_tasklets", "st_nested",
           "st_nested_release", "st_release", "st_check", "st_finalize",
           "st_terminate", "se_acquire", "se_process", "se_release",
           "ap_loop", "api_idle", "api_start", "api_acquire", "api_try",
           "api_call", "api_release"}

TypeOK ==
    /\ pc \in [Threads -> Labels]
    /\ events \in [Tasks -> SUBSET Kinds]
    /\ sem \in [Tasks -> 0..1]
    /\ born \subseteq Tasks
    /\ acc \in [Threads -> SUBSET Kinds]
    /\ reg \in [Threads -> SUBSET Kinds]
    /\ \A t \in Threads : todo[t] \in Seq(Tasks) /\ Len(todo[t]) <= 3
    /\ evt \in [Threads -> SUBSET Kinds]
    /\ ret \in [Threads -> Labels]
    /\ mutexCreated \in BOOLEAN
    /\ mutexOwner \in Threads \cup {None}
    /\ mutexDepth \in 0..MaxDepth
    /\ {drvWork, tasklets, serialWork, resetReq, engineUp, finalized} \subseteq BOOLEAN
    /\ inEngine \subseteq Threads
    /\ owed \in [Tasks -> BOOLEAN]
    /\ calls \in [ApiThreads -> 0..MaxApiCalls]

\* The task is blocked in osSemaphoreAcquire with nothing to take.
Asleep(m) == pc[m] = "w_acquire" /\ sem[m] = 0

\* Some thread is part-way through sl_ot_rtos_set_event_flag on m.
WakeInFlight(m) == \E t \in Threads : m \in Range(todo[t])

\* No lost wakeup: the stack task never sleeps in sl_ot_rtos_wait_for_event
\* while driver events or tasklets are pending, nor the serial task while
\* UART input is pending, unless a poster has yet to finish
\* sl_ot_rtos_set_event_flag on its mailbox.  The non-atomic 'events |='
\* and 'events &= ~accessible_events' of the two sides, and the release of
\* the semaphore after the store, are what this is about.
NoLostWakeup ==
    /\ Asleep(Stack) /\ (drvWork \/ tasklets) => WakeInFlight(Stack)
    /\ Serial \in Tasks /\ Asleep(Serial) /\ serialWork => WakeInFlight(Serial)

\* The OpenThread instance is never executed by two threads at once: the
\* stack task's processing, the serial task's efr32SerialProcess, the API
\* wrappers, sl_ot_init and otInstanceFinalize exclude each other.
EngineExclusive == \A t, u \in inEngine : t = u

StackPostServiced == owed[Stack] ~> (~owed[Stack] \/ resetReq)

\* A pseudo reset is acted on whenever a STACK event is in the stack
\* task's mailbox: the event brings the task back to the
\* otSysPseudoResetWasRequested test at the top of its loop, and it
\* finalizes the instance.  A reset requested inside a service cycle whose
\* work is then used up, with no later post, is left out: only a later
\* event brings the task back to the test.
ResetHonoured == (resetReq /\ STACK \in events[Stack]) ~> finalized

\* From the moment the stack task enters otInstanceFinalize, no other
\* thread executes in the instance, while it is being finalized or after:
\* every other user has stopped or been shut out (otInstanceFinalize is
\* called without the stack mutex, and sli_ot_serial_task is a while (1)
\* loop that never looks at the pseudo reset).
FinalizeIsolated ==
    (At(Stack, "st_terminate") \/ finalized) => inEngine \subseteq {Stack}

=============================================================================
