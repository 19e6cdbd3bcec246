----------------------------- MODULE Scheduler -----------------------------
(***************************************************************************)
(* The cooperative Scheduler (packages/scheduler/src/forks/Scheduler.js)   *)
(* with the host it runs on: a message queue that calls                    *)
(* performWorkUntilDeadline, and timeouts that call handleTimeout.         *)
(*                                                                         *)
(* JavaScript runs to completion, so what one turn of the event loop does  *)
(* without calling user code is one step; the steps are cut where user     *)
(* code or the clock can get in between: at the top of the work loop, and  *)
(* around a task's callback, during which tasks may be scheduled and       *)
(* cancelled and time passes.  The heaps are sets whose head is their      *)
(* least element, which is what SchedulerMinHeap shows of them.            *)
(*                                                                         *)
(* A task is known by its id, its position in tasks; its callback is       *)
(* either live (TRUE) or null.                                             *)
(***************************************************************************)
EXTENDS Integers, Sequences, Bags

CONSTANTS
  Timeout,          \* the timeout of each priority level
  AlwaysYield,      \* the flag enableAlwaysYieldScheduler
  Delays,           \* the delays passed in options.delay
  FrameIntervals,   \* frameYieldMs and the intervals of the forced frame rates
  frameYieldMs,     \* the default frame interval
  MaxTasks,         \* bound: tasks scheduled in a behaviour
  MaxTime,          \* bound: the clock, while no host timeout is awaited
  MaxDrift          \* bound: time the work loop itself takes between two clock reads

PriorityLevel == DOMAIN Timeout

ASSUME SchedulerAssumption ==
  /\ Timeout \in [PriorityLevel -> Nat \cup {-1}]
  /\ "NormalPriority" \in PriorityLevel
  /\ AlwaysYield \in BOOLEAN
  /\ Delays \subseteq Nat \ {0}
  /\ FrameIntervals \subseteq Nat /\ frameYieldMs \in FrameIntervals
  /\ MaxTasks \in Nat /\ MaxTime \in Nat /\ MaxDrift \in Nat

NoTask    == 0     \* null, of a task
NoTimeout == -1    \* taskTimeoutID when no timeout is set

VARIABLES
  \* variables of the module
  tasks, taskQueue, timerQueue, currentTask, currentPriorityLevel,
  isPerformingWork, isHostCallbackScheduled, isHostTimeoutScheduled,
  needsPaint, isMessageLoopRunning, frameInterval, startTime,
  \* the host: its clock, the messages posted and not delivered, the due time
  \* of the timeout taskTimeoutID names and those of the others that are set
  now, messages, taskTimeout, otherTimeouts,
  \* locals of workLoop and flushWork, and where the program is
  currentTime, previousPriorityLevel, pc

queueVars == <<tasks, taskQueue, timerQueue>>
flagVars  == <<isHostCallbackScheduled, isHostTimeoutScheduled, isMessageLoopRunning>>
hostVars  == <<messages, taskTimeout, otherTimeouts>>
loopVars  == <<currentTask, currentPriorityLevel, isPerformingWork,
               currentTime, previousPriorityLevel, pc>>
frameVars == <<needsPaint, frameInterval, startTime>>
vars      == <<queueVars, flagVars, hostVars, loopVars, frameVars, now>>

TaskId == 1..Len(tasks)

-----------------------------------------------------------------------------
(* The queues *)

Before(ts, i, j) ==
  \/ ts[i].sortIndex < ts[j].sortIndex
  \/ ts[i].sortIndex = ts[j].sortIndex /\ i < j

\* i is what peek(queue) returns.
IsPeek(ts, queue, i) ==
  IF queue = {} THEN i = NoTask
                ELSE i \in queue /\ \A j \in queue \ {i} : Before(ts, i, j)

\* advanceTimers stops at the first live timer that has not started: that
\* timer and all behind it stay, whether cancelled or not.
Kept(ts, time) ==
  {i \in timerQueue : \E j \in timerQueue :
      /\ ts[j].callback /\ ts[j].startTime > time
      /\ j = i \/ Before(ts, j, i)}

Fired(ts, time) == {i \in timerQueue \ Kept(ts, time) : ts[i].callback}

\* Mutant: a timer that fires keeps the sort index it had as a timer.
AdvanceTimersKeepingIndex(ts, queue, time) ==
  /\ timerQueue' = Kept(ts, time)
  /\ taskQueue'  = queue \cup Fired(ts, time)
  /\ tasks' = ts

\* ts and queue are the tasks and the taskQueue it is called with.
AdvanceTimers(ts, queue, time) ==
  /\ timerQueue' = Kept(ts, time)
  /\ taskQueue'  = queue \cup Fired(ts, time)
  /\ tasks' = [i \in DOMAIN ts |->
                 IF i \in Fired(ts, time)
                 THEN [ts[i] EXCEPT !.sortIndex = ts[i].expirationTime]
                 ELSE ts[i]]

-----------------------------------------------------------------------------
(* The host *)

\* handle and others are the timeouts that are set when it is called: the one
\* taskTimeoutID named is out of reach once taskTimeoutID is overwritten.
RequestHostTimeout(due, handle, others) ==
  /\ taskTimeout' = due
  /\ otherTimeouts' = IF handle = NoTimeout THEN others
                      ELSE others (+) SetToBag({handle})

RequestHostCallback ==
  /\ isMessageLoopRunning' = TRUE
  /\ messages' = IF isMessageLoopRunning THEN messages ELSE messages + 1

TimeoutsSet == BagToSet(otherTimeouts) \cup ({taskTimeout} \ {NoTimeout})

-----------------------------------------------------------------------------
(* The functions user code calls, from a task or from an event of its own *)

UserCodeRuns == pc \in {"idle", "callback"}

NewTask(priorityLevel, start, sortIndex) ==
  [callback       |-> TRUE,
   priorityLevel  |-> priorityLevel,
   startTime      |-> start,
   expirationTime |-> start + Timeout[priorityLevel],
   sortIndex      |-> sortIndex]

\* unstable_scheduleCallback without a delay.
ScheduleCallback(priorityLevel) ==
  /\ UserCodeRuns
  /\ Len(tasks) < MaxTasks
  /\ tasks' = Append(tasks, NewTask(priorityLevel, now, now + Timeout[priorityLevel]))
  /\ taskQueue' = taskQueue \cup {Len(tasks) + 1}
  /\ IF ~isHostCallbackScheduled /\ ~isPerformingWork
     THEN isHostCallbackScheduled' = TRUE /\ RequestHostCallback
     ELSE UNCHANGED <<isHostCallbackScheduled, isMessageLoopRunning, messages>>
  /\ UNCHANGED <<timerQueue, isHostTimeoutScheduled, taskTimeout, otherTimeouts,
                 loopVars, frameVars, now>>

\* unstable_scheduleCallback with a delay.
ScheduleDelayedCallback(priorityLevel, delay) ==
  /\ UserCodeRuns
  /\ Len(tasks) < MaxTasks
  /\ tasks' = Append(tasks, NewTask(priorityLevel, now + delay, now + delay))
  /\ timerQueue' = timerQueue \cup {Len(tasks) + 1}
  /\ IF taskQueue = {} /\ IsPeek(tasks', timerQueue', Len(tasks) + 1)
     THEN /\ isHostTimeoutScheduled' = TRUE
          /\ RequestHostTimeout(now + delay,
               IF isHostTimeoutScheduled THEN NoTimeout ELSE taskTimeout,
               otherTimeouts)
     ELSE UNCHANGED <<isHostTimeoutScheduled, taskTimeout, otherTimeouts>>
  /\ UNCHANGED <<taskQueue, isHostCallbackScheduled, isMessageLoopRunning, messages,
                 loopVars, frameVars, now>>

\* unstable_cancelCallback: the task stays where it is queued.
CancelCallback(i) ==
  /\ UserCodeRuns
  /\ tasks' = [tasks EXCEPT ![i].callback = FALSE]
  /\ UNCHANGED <<taskQueue, timerQueue, flagVars, hostVars, loopVars, frameVars, now>>

RequestPaint ==
  /\ UserCodeRuns
  /\ needsPaint' = TRUE
  /\ UNCHANGED <<queueVars, flagVars, hostVars, loopVars, frameInterval, startTime, now>>

ForceFrameRate(interval) ==
  /\ UserCodeRuns
  /\ frameInterval' = interval
  /\ UNCHANGED <<queueVars, flagVars, hostVars, loopVars, needsPaint, startTime, now>>

-----------------------------------------------------------------------------
(* handleTimeout, called by a timeout of the host *)

\* Mutant: no timeout is requested for the timers that remain.
HandleTimeoutOnce(handle, others) ==
  /\ AdvanceTimers(tasks, taskQueue, now)
  /\ isHostTimeoutScheduled' = FALSE
  /\ IF ~isHostCallbackScheduled /\ taskQueue' # {}
     THEN isHostCallbackScheduled' = TRUE /\ RequestHostCallback
     ELSE UNCHANGED <<isHostCallbackScheduled, isMessageLoopRunning, messages>>
  /\ taskTimeout' = handle /\ otherTimeouts' = others
  /\ UNCHANGED <<loopVars, frameVars, now>>

HandleTimeout(handle, others) ==
  /\ AdvanceTimers(tasks, taskQueue, now)
  /\ isHostTimeoutScheduled' = FALSE
  /\ IF ~isHostCallbackScheduled /\ taskQueue' # {}
     THEN isHostCallbackScheduled' = TRUE /\ RequestHostCallback
     ELSE UNCHANGED <<isHostCallbackScheduled, isMessageLoopRunning, messages>>
  /\ IF ~isHostCallbackScheduled /\ taskQueue' = {} /\ timerQueue' # {}
     THEN \E first \in timerQueue' :
            /\ IsPeek(tasks', timerQueue', first)
            /\ RequestHostTimeout(tasks'[first].startTime, handle, others)
     ELSE taskTimeout' = handle /\ otherTimeouts' = others
  /\ UNCHANGED <<loopVars, frameVars, now>>

TaskTimeoutFires ==
  /\ pc = "idle"
  /\ taskTimeout # NoTimeout /\ taskTimeout <= now
  /\ HandleTimeout(NoTimeout, otherTimeouts)

OtherTimeoutFires ==
  /\ pc = "idle"
  /\ \E due \in BagToSet(otherTimeouts) :
       /\ due <= now
       /\ HandleTimeout(taskTimeout, otherTimeouts (-) SetToBag({due}))

-----------------------------------------------------------------------------
(* performWorkUntilDeadline, flushWork and workLoop *)

\* The head of the queue becomes the current task; with none the loop ends.
EnterLoop ==
  \E i \in taskQueue' \cup {NoTask} :
    /\ IsPeek(tasks', taskQueue', i)
    /\ currentTask' = i
    /\ pc' = IF i = NoTask THEN "exit" ELSE "workLoop"

\* The same after a task was dealt with, when the always-yield variant goes
\* on only if the next task has expired.
NextTask(time) ==
  \E i \in taskQueue' \cup {NoTask} :
    /\ IsPeek(tasks', taskQueue', i)
    /\ currentTask' = i
    /\ pc' = IF \/ i = NoTask
                \/ AlwaysYield /\ tasks'[i].expirationTime > time
             THEN "exit" ELSE "workLoop"

\* The finally clauses of flushWork and performWorkUntilDeadline.
LeaveWork(hasMoreWork) ==
  /\ pc' = "idle"
  /\ currentTask' = NoTask
  /\ currentPriorityLevel' = previousPriorityLevel
  /\ isPerformingWork' = FALSE
  /\ currentTime' = 0
  /\ isMessageLoopRunning' = hasMoreWork
  /\ messages' = IF hasMoreWork THEN messages + 1 ELSE messages
  /\ UNCHANGED previousPriorityLevel

PerformWorkUntilDeadline ==
  /\ pc = "idle"
  /\ messages > 0
  /\ isMessageLoopRunning
  /\ messages' = messages - 1
  /\ needsPaint' = FALSE
  /\ startTime' = now
  /\ isHostCallbackScheduled' = FALSE
  /\ isHostTimeoutScheduled' = FALSE
  /\ taskTimeout' = IF isHostTimeoutScheduled THEN NoTimeout ELSE taskTimeout
  /\ isPerformingWork' = TRUE
  /\ previousPriorityLevel' = currentPriorityLevel
  /\ currentTime' = now
  /\ AdvanceTimers(tasks, taskQueue, now)
  /\ EnterLoop
  /\ UNCHANGED <<isMessageLoopRunning, otherTimeouts, currentPriorityLevel,
                 frameInterval, now>>

ShouldYieldToHost ==
  \/ ~AlwaysYield /\ needsPaint
  \/ now - startTime >= frameInterval

\* Mutant: the loop yields whatever the task's expiration time.
MustYieldAlways == ~AlwaysYield /\ ShouldYieldToHost

\* The check at the top of the loop.
MustYield ==
  /\ ~AlwaysYield
  /\ tasks[currentTask].expirationTime > currentTime
  /\ ShouldYieldToHost

YieldToHost ==
  /\ pc = "workLoop"
  /\ MustYield
  /\ pc' = "exit"
  /\ UNCHANGED <<queueVars, flagVars, hostVars, frameVars, now, currentTask, currentTime,
                 currentPriorityLevel, previousPriorityLevel, isPerformingWork>>

\* Mutant: the task keeps its callback while it is called.
CallTaskKeepingCallback ==
  /\ pc = "workLoop"
  /\ ~MustYield
  /\ tasks[currentTask].callback
  /\ currentPriorityLevel' = tasks[currentTask].priorityLevel
  /\ pc' = "callback"
  /\ UNCHANGED <<queueVars, flagVars, hostVars, frameVars, now,
                 currentTask, currentTime, previousPriorityLevel, isPerformingWork>>

CallTask ==
  /\ pc = "workLoop"
  /\ ~MustYield
  /\ tasks[currentTask].callback
  /\ tasks' = [tasks EXCEPT ![currentTask].callback = FALSE]
  /\ currentPriorityLevel' = tasks[currentTask].priorityLevel
  /\ pc' = "callback"
  /\ UNCHANGED <<taskQueue, timerQueue, flagVars, hostVars, frameVars, now,
                 currentTask, currentTime, previousPriorityLevel, isPerformingWork>>

\* The current task was cancelled.
SkipTask ==
  /\ pc = "workLoop"
  /\ ~MustYield
  /\ ~tasks[currentTask].callback
  /\ taskQueue' = taskQueue \ {currentTask}
  /\ UNCHANGED <<tasks, timerQueue>>
  /\ NextTask(currentTime)
  /\ UNCHANGED <<flagVars, hostVars, frameVars, now, currentTime,
                 currentPriorityLevel, previousPriorityLevel, isPerformingWork>>

\* Mutant: the head is popped, whichever task it is.
TaskCompletesPoppingHead ==
  /\ pc = "callback"
  /\ AdvanceTimers(tasks, {i \in taskQueue : ~IsPeek(tasks, taskQueue, i)}, now)
  /\ currentTime' = now
  /\ NextTask(now)
  /\ UNCHANGED <<flagVars, hostVars, frameVars, now,
                 currentPriorityLevel, previousPriorityLevel, isPerformingWork>>

\* The callback returns: the task is done, and is popped if it is still the head.
TaskCompletes ==
  /\ pc = "callback"
  /\ AdvanceTimers(tasks,
       IF IsPeek(tasks, taskQueue, currentTask) THEN taskQueue \ {currentTask}
                                                ELSE taskQueue, now)
  /\ currentTime' = now
  /\ NextTask(now)
  /\ UNCHANGED <<flagVars, hostVars, frameVars, now,
                 currentPriorityLevel, previousPriorityLevel, isPerformingWork>>

\* The callback returns a continuation: the loop yields at once.
TaskContinues ==
  /\ pc = "callback"
  /\ AdvanceTimers([tasks EXCEPT ![currentTask].callback = TRUE], taskQueue, now)
  /\ LeaveWork(TRUE)
  /\ UNCHANGED <<isHostCallbackScheduled, isHostTimeoutScheduled,
                 taskTimeout, otherTimeouts, frameVars, now>>

\* Mutant: hasMoreWork starts out false.
TaskThrowsIdle ==
  /\ pc = "callback"
  /\ LeaveWork(FALSE)
  /\ UNCHANGED <<queueVars, isHostCallbackScheduled, isHostTimeoutScheduled,
                 taskTimeout, otherTimeouts, frameVars, now>>

\* The callback throws: the error leaves flushWork and more work is assumed.
TaskThrows ==
  /\ pc = "callback"
  /\ LeaveWork(TRUE)
  /\ UNCHANGED <<queueVars, isHostCallbackScheduled, isHostTimeoutScheduled,
                 taskTimeout, otherTimeouts, frameVars, now>>

\* Mutant: the timers are forgotten when the tasks are done.
WorkLoopExitNoTimeout ==
  /\ pc = "exit"
  /\ LeaveWork(currentTask # NoTask)
  /\ UNCHANGED <<queueVars, taskTimeout, otherTimeouts, isHostCallbackScheduled,
                 isHostTimeoutScheduled, frameVars, now>>

\* The loop was left: more work is reported, or a timeout is requested for the
\* first timer, counted from the time the loop last read the clock.
WorkLoopExit ==
  /\ pc = "exit"
  /\ LeaveWork(currentTask # NoTask)
  /\ IF currentTask = NoTask /\ timerQueue # {}
     THEN \E first \in timerQueue :
            /\ IsPeek(tasks, timerQueue, first)
            /\ RequestHostTimeout(now + (tasks[first].startTime - currentTime),
                                  taskTimeout, otherTimeouts)
     ELSE UNCHANGED <<taskTimeout, otherTimeouts>>
  /\ UNCHANGED <<queueVars, isHostCallbackScheduled, isHostTimeoutScheduled,
                 frameVars, now>>

-----------------------------------------------------------------------------
(* Time.  Past MaxTime the clock only moves on to let a timeout fire. *)

Tick ==
  /\ \/ now < MaxTime
     \/ pc = "idle" /\ \E due \in TimeoutsSet : due > now
  /\ pc \in {"workLoop", "exit"} => now - currentTime < MaxDrift
  /\ now' = now + 1
  /\ UNCHANGED <<queueVars, flagVars, hostVars, loopVars, frameVars>>

Init ==
  /\ tasks = <<>> /\ taskQueue = {} /\ timerQueue = {}
  /\ currentTask = NoTask
  /\ currentPriorityLevel = "NormalPriority"
  /\ previousPriorityLevel = "NormalPriority"
  /\ isPerformingWork = FALSE
  /\ isHostCallbackScheduled = FALSE /\ isHostTimeoutScheduled = FALSE
  /\ needsPaint = FALSE
  /\ isMessageLoopRunning = FALSE
  /\ frameInterval = frameYieldMs
  /\ startTime = -1
  /\ now = 0
  /\ messages = 0
  /\ taskTimeout = NoTimeout /\ otherTimeouts = EmptyBag
  /\ currentTime = 0
  /\ pc = "idle"

UserCode ==
  \/ \E p \in PriorityLevel : ScheduleCallback(p)
  \/ \E p \in PriorityLevel, d \in Delays : ScheduleDelayedCallback(p, d)
  \/ \E i \in TaskId : CancelCallback(i)
  \/ RequestPaint
  \/ \E f \in FrameIntervals : ForceFrameRate(f)

TimeoutFires == TaskTimeoutFires \/ OtherTimeoutFires

WorkLoop == YieldToHost \/ CallTask \/ SkipTask \/ WorkLoopExit

CallbackEnds == TaskCompletes \/ TaskContinues \/ TaskThrows

Next == UserCode \/ TimeoutFires \/ PerformWorkUntilDeadline \/ WorkLoop
        \/ CallbackEnds \/ Tick

Spec == Init /\ [][Next]_vars

\* The host delivers messages and timeouts, its clock runs, the loop is code
\* that keeps going, and the work of a task is finite: a callback that is
\* called over and over does not ask to be continued for ever.
FairSpec ==
  /\ Spec
  /\ WF_vars(PerformWorkUntilDeadline)
  /\ WF_vars(TimeoutFires)
  /\ WF_vars(WorkLoop)
  /\ WF_vars(Tick)
  /\ SF_vars(TaskCompletes \/ TaskThrows)

-----------------------------------------------------------------------------
(* Properties *)

Task == [callback : BOOLEAN, priorityLevel : PriorityLevel, startTime : Nat,
         expirationTime : Nat \cup {-1}, sortIndex : Nat \cup {-1}]

\* The types of the variables, and the locals that only the running loop has.
TypeOK ==
  /\ tasks \in Seq(Task)
  /\ taskQueue \subseteq TaskId /\ timerQueue \subseteq TaskId
  /\ currentTask \in TaskId \cup {NoTask}
  /\ {currentPriorityLevel, previousPriorityLevel} \subseteq PriorityLevel
  /\ needsPaint \in BOOLEAN /\ isHostCallbackScheduled \in BOOLEAN
  /\ isHostTimeoutScheduled \in BOOLEAN /\ isMessageLoopRunning \in BOOLEAN
  /\ isPerformingWork = (pc # "idle")
  /\ frameInterval \in Nat
  /\ startTime \in Nat \cup {-1}
  /\ now \in Nat /\ messages \in Nat
  /\ taskTimeout \in Nat \cup {NoTimeout}
  /\ IsABag(otherTimeouts) /\ BagToSet(otherTimeouts) \subseteq Nat
  /\ currentTime \in 0..now
  /\ pc \in {"idle", "workLoop", "callback", "exit"}
  /\ pc = "idle" => currentTask = NoTask
  /\ pc \in {"workLoop", "callback"} => currentTask # NoTask

\* No task falls out of the queues, whatever its callback schedules, cancels
\* or throws: as long as its callback is to be called it is in exactly one of
\* them, under the key that queue is ordered by, and not before its time in
\* the task queue (push, pop, advanceTimers).
NoTaskLost ==
  \A i \in TaskId :
    /\ tasks[i].callback => i \in taskQueue \cup timerQueue
    /\ i \in taskQueue  => /\ i \notin timerQueue
                           /\ tasks[i].sortIndex = tasks[i].expirationTime
                           /\ tasks[i].startTime <= now
    /\ i \in timerQueue => /\ i \notin taskQueue
                           /\ tasks[i].sortIndex = tasks[i].startTime

\* The two flags say what they should of the host: at most one message is
\* pending, there is one exactly when the loop is said to run and does not,
\* and a host callback that is scheduled is that message
\* (requestHostCallback, performWorkUntilDeadline).
MessageLoop ==
  /\ messages <= 1
  /\ isMessageLoopRunning <=> messages = 1 \/ isPerformingWork
  /\ isPerformingWork => messages = 0
  /\ isHostCallbackScheduled => messages = 1

\* The Scheduler never goes to sleep on work: between events, a task queue
\* that is not empty has a message on its way.
NoStall == pc = "idle" /\ taskQueue # {} => messages > 0

\* Nor on timers: with no message on its way, a timeout is set that is due by
\* the time the first timer starts, give or take the time the loop took to
\* request it (workLoop, handleTimeout and unstable_scheduleCallback).
TimerCovered ==
  pc = "idle" /\ timerQueue # {} /\ messages = 0 =>
    \E due \in TimeoutsSet : \A i \in timerQueue :
      due <= tasks[i].startTime + MaxDrift

\* When the flag says that a timeout is scheduled, taskTimeoutID names one, so
\* that clearing it clears something (cancelHostTimeout).
TimeoutHandleKnown == isHostTimeoutScheduled => taskTimeout # NoTimeout

\* What the loop knows when it looks at its current task: it is the head of
\* the task queue, no timer that has started is left in the timer queue, and
\* the loop has been at it for MaxDrift at most; the task that is being called
\* has no callback; and the loop is left with no task only if none is queued.
\* Behind MessageLoop, NoStall, TimerCovered and StartsMostUrgent.
LoopInv ==
  /\ pc = "workLoop" => IsPeek(tasks, taskQueue, currentTask)
  /\ pc = "callback" => currentTask \in taskQueue /\ ~tasks[currentTask].callback
  /\ pc = "exit"     => IsPeek(tasks, taskQueue, currentTask)
  /\ pc \in {"workLoop", "exit"} =>
       /\ now <= currentTime + MaxDrift
       /\ \A i \in timerQueue : tasks[i].callback => tasks[i].startTime > currentTime

\* The bookkeeping of the loop as a whole, which none of its parts keeps alone: what
\* the flags say of the host relies on what the loop knows of its current task, and
\* what the loop knows relies on the order and the keys of the queues.
IndInv ==
  /\ TypeOK
  /\ LoopInv
  /\ NoTaskLost
  /\ MessageLoop
  /\ NoStall
  /\ TimerCovered
  /\ TimeoutHandleKnown

\* The loop calls the most urgent of all live tasks that may start, those that
\* are still in the timer queue included, at the time it last read the clock.
StartsMostUrgent ==
  [][pc = "workLoop" /\ pc' = "callback" =>
       \A i \in TaskId \ {currentTask} :
         tasks[i].callback /\ tasks[i].startTime <= currentTime =>
           \/ tasks[currentTask].expirationTime < tasks[i].expirationTime
           \/ /\ tasks[currentTask].expirationTime = tasks[i].expirationTime
              /\ currentTask < i]_vars

\* The loop gives the host no time while an expired task is queued: it is left
\* with one only by a continuation or an error.
NoExpiredTaskLeft ==
  pc = "exit" => \A i \in taskQueue : tasks[i].expirationTime > currentTime

\* The promise to the code that uses the Scheduler.
Execution ==
  INSTANCE TaskExecution WITH
    time     <- now,
    waiting  <- {i \in TaskId : tasks[i].callback},
    running  <- IF pc = "callback" THEN {currentTask} ELSE {},
    startsAt <- [i \in TaskId |-> tasks[i].startTime]

ImplementsTaskExecution == Execution!Spec

\* Every task is called in the end, unless it is cancelled first: no order of
\* timeouts, cancellations, errors and continuations makes the Scheduler
\* forget a task.
EveryTaskRuns ==
  \A i \in 1..MaxTasks :
    i \in TaskId /\ tasks[i].callback ~> i \in TaskId /\ ~tasks[i].callback
=============================================================================
