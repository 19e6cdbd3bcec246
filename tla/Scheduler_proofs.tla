-------------------------- MODULE Scheduler_proofs --------------------------
(***************************************************************************)
(* The Scheduler's safety properties hold for every set of priority        *)
(* levels, timeouts and delays, every number of tasks and both variants    *)
(* of the work loop.                                                       *)
(*                                                                         *)
(* The inductive invariant is the conjunction of the properties Scheduler  *)
(* states with LoopInv, which says what the work loop knows between two    *)
(* steps of its own while user code may run and time may pass.             *)
(***************************************************************************)
EXTENDS Scheduler, TLAPS

-----------------------------------------------------------------------------
(* Tasks *)

\* Replacing a task by one that differs in its callback only changes nothing
\* else, and nothing of the others.
LEMMA SetCallback ==
  ASSUME tasks \in Seq(Task), NEW i \in TaskId, NEW n \in Task,
         n.startTime = tasks[i].startTime,
         NEW ts, ts = [tasks EXCEPT ![i] = n]
  PROVE  /\ ts \in Seq(Task) /\ Len(ts) = Len(tasks)
         /\ ts[i] = n
         /\ \A j \in TaskId : j # i => ts[j] = tasks[j]
         /\ \A j \in TaskId : ts[j].startTime = tasks[j].startTime
<1>1. \A j \in TaskId : tasks[j] \in Task
  BY DEF TaskId
<1>2. DOMAIN tasks = TaskId
  BY DEF TaskId
<1>3. ts[i] = n /\ \A j \in TaskId : j # i => ts[j] = tasks[j]
  BY <1>2
<1>4. ts \in Seq(Task) /\ Len(ts) = Len(tasks)
  BY <1>1 DEF TaskId
<1> QED
  BY <1>3, <1>4

-----------------------------------------------------------------------------
(* Bags of due times *)

\* Adding a due time to the timeouts that are set adds it to their set.
LEMMA BagAdd ==
  ASSUME NEW B, IsABag(B), BagToSet(B) \subseteq Nat, NEW x \in Nat
  PROVE  /\ IsABag(B (+) SetToBag({x}))
         /\ BagToSet(B (+) SetToBag({x})) = BagToSet(B) \cup {x}
  BY DEF IsABag, BagToSet, SetToBag, (+)

\* Removing one leaves no others behind than were there.
LEMMA BagRemove ==
  ASSUME NEW B, IsABag(B), BagToSet(B) \subseteq Nat, NEW x \in Nat
  PROVE  /\ IsABag(B (-) SetToBag({x}))
         /\ BagToSet(B (-) SetToBag({x})) \subseteq BagToSet(B)
  BY DEF IsABag, BagToSet, SetToBag, (-)

\* A requested timeout is set, under the handle taskTimeoutID.
LEMMA RequestHostTimeoutSets ==
  ASSUME NEW due \in Nat, NEW handle \in Nat \cup {NoTimeout},
         NEW others, IsABag(others), BagToSet(others) \subseteq Nat,
         RequestHostTimeout(due, handle, others)
  PROVE  /\ taskTimeout' = due /\ taskTimeout' # NoTimeout
         /\ IsABag(otherTimeouts') /\ BagToSet(otherTimeouts') \subseteq Nat
         /\ due \in TimeoutsSet'
<1>1. taskTimeout' = due /\ taskTimeout' # NoTimeout
  BY DEF RequestHostTimeout, NoTimeout
<1>2. IsABag(otherTimeouts') /\ BagToSet(otherTimeouts') \subseteq Nat
  <2>1. CASE handle = NoTimeout
    BY <2>1 DEF RequestHostTimeout
  <2>2. CASE handle # NoTimeout
    BY <2>2, BagAdd DEF RequestHostTimeout
  <2> QED
    BY <2>1, <2>2
<1> QED
  BY <1>1, <1>2 DEF TimeoutsSet

-----------------------------------------------------------------------------
(* advanceTimers *)

\* advanceTimers changes nothing of a task but its sort index, moves tasks
\* from the timer queue to the task queue, and loses no live one.
LEMMA AdvanceTimersMoves ==
  ASSUME NEW ts \in Seq(Task), NEW queue \in SUBSET (1..Len(ts)),
         timerQueue \in SUBSET (1..Len(ts)), NEW time \in Nat,
         AdvanceTimers(ts, queue, time)
  PROVE  /\ tasks' \in Seq(Task)
         /\ Len(tasks') = Len(ts)
         /\ taskQueue' \subseteq 1..Len(ts)
         /\ queue \subseteq taskQueue'
         /\ taskQueue' \subseteq queue \cup timerQueue
         /\ timerQueue' \subseteq timerQueue
         /\ \A i \in timerQueue : ts[i].callback => i \in taskQueue' \cup timerQueue'
         /\ \A i \in timerQueue' : i \in taskQueue' => i \in queue
         /\ \A i \in 1..Len(ts) :
              /\ tasks'[i].callback = ts[i].callback
              /\ tasks'[i].priorityLevel = ts[i].priorityLevel
              /\ tasks'[i].startTime = ts[i].startTime
              /\ tasks'[i].expirationTime = ts[i].expirationTime
              /\ tasks'[i].sortIndex =
                   IF i \in timerQueue \ timerQueue' /\ ts[i].callback
                   THEN ts[i].expirationTime ELSE ts[i].sortIndex
<1> DEFINE fired == Fired(ts, time)
<1>1. fired \subseteq timerQueue /\ Kept(ts, time) \subseteq timerQueue
  BY DEF Fired, Kept
<1>2. DOMAIN ts = 1..Len(ts) /\ Len(ts) \in Nat
  OBVIOUS
<1>3. \A i \in 1..Len(ts) : ts[i] \in Task
  OBVIOUS
<1>4. tasks' = [i \in 1..Len(ts) |-> IF i \in fired
                                     THEN [ts[i] EXCEPT !.sortIndex = ts[i].expirationTime]
                                     ELSE ts[i]]
  BY <1>2 DEF AdvanceTimers
<1>5. \A i \in 1..Len(ts) : tasks'[i] \in Task
  BY <1>3, <1>4 DEF Task
<1>6. tasks' \in [1..Len(ts) -> Task]
  BY <1>4, <1>5
<1>7. tasks' \in Seq(Task) /\ Len(tasks') = Len(ts)
  BY <1>2, <1>6
<1>8. fired = {i \in timerQueue \ timerQueue' : ts[i].callback}
  BY DEF AdvanceTimers, Fired
<1>9. \A i \in 1..Len(ts) :
        /\ tasks'[i].callback = ts[i].callback
        /\ tasks'[i].priorityLevel = ts[i].priorityLevel
        /\ tasks'[i].startTime = ts[i].startTime
        /\ tasks'[i].expirationTime = ts[i].expirationTime
        /\ tasks'[i].sortIndex = IF i \in fired THEN ts[i].expirationTime
                                                ELSE ts[i].sortIndex
  BY <1>3, <1>4 DEF Task
<1> HIDE DEF fired
<1>10. taskQueue' = queue \cup fired /\ timerQueue' = Kept(ts, time)
  BY DEF AdvanceTimers, fired
<1> QED
  BY <1>1, <1>7, <1>8, <1>9, <1>10

\* When the timers are in the order of their start times, advanceTimers leaves
\* no live timer behind that has started.
LEMMA AdvanceTimersComplete ==
  ASSUME NEW ts \in Seq(Task), NEW queue \in SUBSET (1..Len(ts)),
         timerQueue \in SUBSET (1..Len(ts)), NEW time \in Nat,
         \A i \in timerQueue : ts[i].sortIndex = ts[i].startTime,
         AdvanceTimers(ts, queue, time)
  PROVE  \A i \in timerQueue' : ts[i].callback => ts[i].startTime > time
<1> SUFFICES ASSUME NEW i \in timerQueue', ts[i].callback
             PROVE  ts[i].startTime > time
  OBVIOUS
<1>1. i \in timerQueue
  BY DEF AdvanceTimers, Kept
<1>2. PICK j \in timerQueue : /\ ts[j].startTime > time
                              /\ j = i \/ Before(ts, j, i)
  BY DEF AdvanceTimers, Kept
<1>3. ts[i] \in Task /\ ts[j] \in Task
  <2>1. \A k \in 1..Len(ts) : ts[k] \in Task
    OBVIOUS
  <2> QED
    BY <1>1, <2>1
<1>4. ts[j].startTime <= ts[i].startTime
  BY <1>1, <1>2, <1>3 DEF Before, Task
<1> QED
  BY <1>2, <1>3, <1>4 DEF Task

\* The head of the timer queue starts before all others in it.
LEMMA FirstIsEarliest ==
  ASSUME NEW ts \in Seq(Task), NEW queue \in SUBSET (1..Len(ts)), NEW first \in queue,
         \A i \in queue : ts[i].sortIndex = ts[i].startTime,
         IsPeek(ts, queue, first)
  PROVE  /\ ts[first].startTime \in Nat
         /\ \A i \in queue : /\ ts[i].startTime \in Nat
                             /\ ts[first].startTime <= ts[i].startTime
                             /\ ts[first].startTime <= ts[i].startTime + MaxDrift
<1>1. MaxDrift \in Nat
  BY SchedulerAssumption
<1>2. \A i \in 1..Len(ts) : ts[i] \in Task
  OBVIOUS
<1>3. \A i \in queue : ts[i].startTime \in Nat
  BY <1>2 DEF Task
<1>4. \A i \in queue \ {first} : Before(ts, first, i)
  BY DEF IsPeek
<1>5. \A i \in queue : ts[first].startTime <= ts[i].startTime
  BY <1>3, <1>4 DEF Before
<1> QED
  BY <1>1, <1>3, <1>5

-----------------------------------------------------------------------------
(* The initial state *)

LEMMA InitIndInv == Init => IndInv
<1> SUFFICES ASSUME Init PROVE IndInv
  OBVIOUS
<1> USE SchedulerAssumption DEF Init, NoTask, NoTimeout
<1>1. IsABag(otherTimeouts) /\ BagToSet(otherTimeouts) = {}
  BY DEF IsABag, BagToSet, EmptyBag, SetToBag
<1>2. TypeOK
  <2>1. tasks \in Seq(Task) /\ TaskId = {}
    BY DEF TaskId
  <2>2. /\ {currentPriorityLevel, previousPriorityLevel} \subseteq PriorityLevel
        /\ frameInterval \in Nat /\ startTime \in Nat \cup {-1}
        /\ taskTimeout \in Nat \cup {NoTimeout}
    OBVIOUS
  <2>3. currentTime \in 0..now /\ now \in Nat /\ messages \in Nat
    OBVIOUS
  <2> QED
    BY <1>1, <2>1, <2>2, <2>3 DEF TypeOK
<1>3. LoopInv /\ MessageLoop /\ NoStall /\ TimerCovered /\ TimeoutHandleKnown
  BY DEF LoopInv, MessageLoop, NoStall, TimerCovered, TimeoutHandleKnown
<1>4. NoTaskLost
  BY DEF NoTaskLost, TaskId
<1> QED
  BY <1>2, <1>3, <1>4 DEF IndInv

-----------------------------------------------------------------------------
(* User code *)

\* What NewTask creates is a task.
LEMMA NewTaskType ==
  ASSUME NEW p \in PriorityLevel, NEW start \in Nat, NEW key \in Nat \cup {-1}
  PROVE  NewTask(p, start, key) \in Task
<1>1. Timeout[p] \in Nat \cup {-1}
  BY SchedulerAssumption DEF PriorityLevel
<1>2. start + Timeout[p] \in Nat \cup {-1}
  BY <1>1
<1> QED
  BY <1>2 DEF NewTask, Task

LEMMA ScheduleCallbackStep ==
  ASSUME IndInv, NEW p \in PriorityLevel, ScheduleCallback(p)
  PROVE  IndInv'
<1> DEFINE t == Len(tasks) + 1
           n == NewTask(p, now, now + Timeout[p])
<1>1. Timeout[p] \in Nat \cup {-1} /\ now \in Nat
  BY SchedulerAssumption DEF PriorityLevel, IndInv, TypeOK
<1>2. now + Timeout[p] \in Nat \cup {-1}
  BY <1>1
<1>3. n \in Task /\ n.callback /\ n.sortIndex = n.expirationTime /\ n.startTime = now
  BY <1>1, <1>2, NewTaskType DEF NewTask
<1>4. tasks \in Seq(Task) /\ tasks' = Append(tasks, n) /\ taskQueue' = taskQueue \cup {t}
      /\ timerQueue' = timerQueue /\ now' = now
  BY DEF ScheduleCallback, IndInv, TypeOK
<1> HIDE DEF n
<1>5. /\ tasks' \in Seq(Task)
      /\ TaskId' = TaskId \cup {t}
      /\ t \notin TaskId /\ t \in Nat
      /\ tasks'[t] = n
      /\ \A i \in TaskId : tasks'[i] = tasks[i]
  BY <1>3, <1>4 DEF TaskId
<1>6. TypeOK'
  <2>1. messages' \in Nat
    <3>1. messages' = messages \/ messages' = messages + 1
      BY DEF ScheduleCallback, RequestHostCallback
    <3> QED
      BY <3>1 DEF IndInv, TypeOK
  <2>3. isMessageLoopRunning' \in BOOLEAN /\ isHostCallbackScheduled' \in BOOLEAN
    <3>1. /\ isMessageLoopRunning' = TRUE \/ UNCHANGED isMessageLoopRunning
          /\ isHostCallbackScheduled' = TRUE \/ UNCHANGED isHostCallbackScheduled
      BY Zenon DEF ScheduleCallback, RequestHostCallback
    <3> QED
      BY <3>1 DEF IndInv, TypeOK
  <2>2. UNCHANGED <<isHostTimeoutScheduled, taskTimeout, otherTimeouts,
                    loopVars, frameVars, now>>
    BY DEF ScheduleCallback
  <2> QED
    BY <1>4, <1>5, <2>1, <2>2, <2>3 DEF TypeOK, IndInv, loopVars, frameVars
<1>7. NoTaskLost'
  <2>1. /\ tasks'[t].callback /\ tasks'[t].sortIndex = tasks'[t].expirationTime
        /\ tasks'[t].startTime <= now'
    BY <1>1, <1>3, <1>4, <1>5
  <2>2. timerQueue \subseteq TaskId
    BY DEF IndInv, TypeOK
  <2> QED
    BY <1>4, <1>5, <2>1, <2>2 DEF NoTaskLost, IndInv
<1>8. LoopInv'
  BY <1>4, <1>5 DEF LoopInv, IndInv, TypeOK, ScheduleCallback, UserCodeRuns, loopVars
<1>9. MessageLoop' /\ (pc' = "idle" => messages' > 0)
  BY DEF ScheduleCallback, IndInv, MessageLoop, TypeOK, RequestHostCallback, loopVars
<1>10. NoStall' /\ TimerCovered'
  BY <1>9 DEF NoStall, TimerCovered, ScheduleCallback, IndInv, MessageLoop, TypeOK,
              RequestHostCallback
<1>11. TimeoutHandleKnown'
  BY DEF TimeoutHandleKnown, IndInv, ScheduleCallback
<1> QED
  BY <1>6, <1>7, <1>8, <1>9, <1>10, <1>11 DEF IndInv

LEMMA ScheduleDelayedCallbackStep ==
  ASSUME IndInv, NEW p \in PriorityLevel, NEW delay \in Delays,
         ScheduleDelayedCallback(p, delay)
  PROVE  IndInv'
<1> DEFINE t == Len(tasks) + 1
           n == NewTask(p, now + delay, now + delay)
           first == taskQueue = {} /\ IsPeek(tasks', timerQueue', t)
<1>1. now \in Nat /\ now + delay \in Nat
  BY SchedulerAssumption DEF IndInv, TypeOK
<1>2. n \in Task /\ n.callback /\ n.sortIndex = n.startTime /\ n.startTime = now + delay
  BY <1>1, NewTaskType DEF NewTask
<1>3. tasks \in Seq(Task) /\ tasks' = Append(tasks, n) /\ taskQueue' = taskQueue
      /\ timerQueue' = timerQueue \cup {t}
  BY DEF ScheduleDelayedCallback, IndInv, TypeOK
<1> HIDE DEF n
<1>4. /\ tasks' \in Seq(Task)
      /\ TaskId' = TaskId \cup {t}
      /\ t \notin TaskId /\ t \in Nat
      /\ tasks'[t] = n
      /\ \A i \in TaskId : tasks'[i] = tasks[i] /\ tasks[i] \in Task
  BY <1>2, <1>3 DEF TaskId
<1>5. UNCHANGED <<isHostCallbackScheduled, isMessageLoopRunning, messages,
                  loopVars, frameVars, now>>
  BY DEF ScheduleDelayedCallback
<1>6. /\ taskTimeout' \in Nat \cup {NoTimeout}
      /\ IsABag(otherTimeouts') /\ BagToSet(otherTimeouts') \subseteq Nat
      /\ isHostTimeoutScheduled' \in BOOLEAN
      /\ TimeoutHandleKnown'
      /\ first => now + delay \in TimeoutsSet'
      /\ ~first => TimeoutsSet' = TimeoutsSet
  <2>1. CASE first
    <3>1. /\ isHostTimeoutScheduled' = TRUE
          /\ RequestHostTimeout(now + delay,
               IF isHostTimeoutScheduled THEN NoTimeout ELSE taskTimeout, otherTimeouts)
      BY <2>1 DEF ScheduleDelayedCallback
    <3>2. /\ (IF isHostTimeoutScheduled THEN NoTimeout ELSE taskTimeout) \in Nat \cup {NoTimeout}
          /\ IsABag(otherTimeouts) /\ BagToSet(otherTimeouts) \subseteq Nat
      BY DEF IndInv, TypeOK
    <3>3. /\ taskTimeout' = now + delay /\ taskTimeout' # NoTimeout
          /\ IsABag(otherTimeouts') /\ BagToSet(otherTimeouts') \subseteq Nat
          /\ now + delay \in TimeoutsSet'
      BY <1>1, <3>1, <3>2, RequestHostTimeoutSets
    <3> QED
      BY <1>1, <2>1, <3>1, <3>3 DEF TimeoutHandleKnown
  <2>2. CASE ~first
    <3>1. UNCHANGED <<isHostTimeoutScheduled, taskTimeout, otherTimeouts>>
      BY <2>2 DEF ScheduleDelayedCallback
    <3> QED
      BY <2>2, <3>1 DEF IndInv, TypeOK, TimeoutHandleKnown, TimeoutsSet
  <2> QED
    BY <2>1, <2>2
<1>7. TypeOK'
  BY <1>3, <1>4, <1>5, <1>6 DEF TypeOK, IndInv, loopVars, frameVars
<1>8. NoTaskLost'
  BY <1>2, <1>3, <1>4, <1>5 DEF NoTaskLost, IndInv, TypeOK
<1>9. LoopInv'
  BY <1>3, <1>4, <1>5 DEF LoopInv, IndInv, TypeOK, ScheduleDelayedCallback, UserCodeRuns,
                          loopVars
<1>10. MessageLoop' /\ NoStall'
  BY <1>3, <1>5 DEF MessageLoop, NoStall, IndInv, loopVars
<1>11. TimerCovered'
  <2> SUFFICES ASSUME pc = "idle", messages = 0
               PROVE  \E due \in TimeoutsSet' : \A i \in timerQueue' :
                        due <= tasks'[i].startTime + MaxDrift
    BY <1>5 DEF TimerCovered, loopVars
  <2>1. taskQueue = {}
    BY DEF IndInv, NoStall, MessageLoop, TypeOK
  <2>2. MaxDrift \in Nat /\ timerQueue \subseteq TaskId
    BY SchedulerAssumption DEF IndInv, TypeOK
  <2>3. \A i \in timerQueue : tasks[i].startTime \in Nat /\ tasks[i].sortIndex = tasks[i].startTime
    BY <1>4, <2>2 DEF IndInv, NoTaskLost, Task
  <2>4. CASE first
    <3>1. \A i \in timerQueue : now + delay <= tasks[i].startTime
      <4>1. \A i \in timerQueue : Before(tasks', t, i)
        BY <1>3, <1>4, <2>2, <2>4 DEF IsPeek
      <4>2. tasks'[t].sortIndex = now + delay
        BY <1>2, <1>4
      <4> QED
        BY <1>1, <1>4, <2>2, <2>3, <4>1, <4>2 DEF Before
    <3>2. \A i \in timerQueue' : now + delay <= tasks'[i].startTime + MaxDrift
      <4>1. tasks'[t].startTime = now + delay
        BY <1>2, <1>4
      <4>2. \A i \in timerQueue : tasks'[i].startTime = tasks[i].startTime
        BY <1>4, <2>2
      <4>3. \A i \in timerQueue : now + delay <= tasks[i].startTime + MaxDrift
        BY <1>1, <2>2, <2>3, <3>1
      <4>4. now + delay <= now + delay + MaxDrift
        BY <1>1, <2>2
      <4> QED
        BY <1>3, <4>1, <4>2, <4>3, <4>4
    <3> QED
      BY <1>6, <2>4, <3>2
  <2>5. CASE ~first
    <3>1. PICK j \in timerQueue : ~ Before(tasks', t, j)
      BY <1>3, <2>1, <2>5 DEF IsPeek
    <3>2. tasks[j].startTime <= now + delay
      BY <1>1, <1>2, <1>4, <2>2, <2>3, <3>1 DEF Before
    <3>3. PICK due \in TimeoutsSet : \A i \in timerQueue :
                                        due <= tasks[i].startTime + MaxDrift
      BY <3>1 DEF IndInv, TimerCovered
    <3>4. due \in Int
      BY DEF TimeoutsSet, IndInv, TypeOK
    <3>5. due <= n.startTime + MaxDrift
      BY <1>1, <1>2, <2>2, <2>3, <3>2, <3>3, <3>4
    <3>6. \A i \in timerQueue' : due <= tasks'[i].startTime + MaxDrift
      BY <1>3, <1>4, <2>2, <3>3, <3>5
    <3> QED
      BY <1>6, <2>5, <3>6
  <2> QED
    BY <2>4, <2>5
<1> QED
  BY <1>6, <1>7, <1>8, <1>9, <1>10, <1>11 DEF IndInv

LEMMA CancelCallbackStep ==
  ASSUME IndInv, NEW i \in TaskId, CancelCallback(i)
  PROVE  IndInv'
<1>1. tasks \in Seq(Task) /\ tasks' = [tasks EXCEPT ![i].callback = FALSE]
  BY DEF IndInv, TypeOK, CancelCallback
<1>2. /\ tasks' \in Seq(Task) /\ TaskId' = TaskId
      /\ \A j \in TaskId :
           /\ tasks'[j].callback => tasks[j].callback
           /\ tasks'[j].startTime = tasks[j].startTime
           /\ tasks'[j].expirationTime = tasks[j].expirationTime
           /\ tasks'[j].sortIndex = tasks[j].sortIndex
  <2>1. \A j \in TaskId : tasks[j] \in Task
    BY <1>1 DEF TaskId
  <2>2. [tasks[i] EXCEPT !.callback = FALSE] \in Task
    BY <2>1 DEF Task
  <2> QED
    BY <1>1, <2>1, <2>2 DEF TaskId, Task
<1>3. UNCHANGED <<taskQueue, timerQueue, flagVars, hostVars, loopVars, frameVars, now>>
  BY DEF CancelCallback
<1>4. TypeOK'
  BY <1>2, <1>3 DEF IndInv, TypeOK, flagVars, hostVars, loopVars, frameVars
<1>5. NoTaskLost'
  BY <1>2, <1>3 DEF IndInv, NoTaskLost, TypeOK
<1>6. LoopInv'
  <2>1. \A a, b \in TaskId : Before(tasks, a, b) = Before(tasks', a, b)
    BY <1>2 DEF Before
  <2>2. IsPeek(tasks, taskQueue, currentTask) => IsPeek(tasks, taskQueue, currentTask)'
    BY <1>2, <1>3, <2>1 DEF IsPeek, IndInv, TypeOK, loopVars
  <2> QED
    BY <1>2, <1>3, <2>2 DEF LoopInv, IndInv, TypeOK, loopVars
<1>7. MessageLoop' /\ NoStall' /\ TimeoutHandleKnown'
  BY <1>3 DEF IndInv, MessageLoop, NoStall, TimeoutHandleKnown, flagVars, hostVars, loopVars
<1>8. TimerCovered'
  BY <1>2, <1>3 DEF IndInv, TypeOK, TimerCovered, TimeoutsSet, hostVars, loopVars
<1> QED
  BY <1>4, <1>5, <1>6, <1>7, <1>8 DEF IndInv

\* Requests for paint and for a frame rate matter to shouldYieldToHost only.
LEMMA FrameStep ==
  ASSUME IndInv, RequestPaint \/ \E f \in FrameIntervals : ForceFrameRate(f)
  PROVE  IndInv'
<1>1. UNCHANGED <<queueVars, flagVars, hostVars, loopVars, startTime, now>>
  BY DEF RequestPaint, ForceFrameRate
<1>2. needsPaint' \in BOOLEAN /\ frameInterval' \in Nat
  BY SchedulerAssumption DEF RequestPaint, ForceFrameRate, IndInv, TypeOK
<1> QED
  BY <1>1, <1>2 DEF IndInv, TypeOK, LoopInv, NoTaskLost, MessageLoop, NoStall, TimerCovered,
       TimeoutHandleKnown, TaskId, IsPeek, Before, TimeoutsSet,
       queueVars, flagVars, hostVars, loopVars

-----------------------------------------------------------------------------
(* Steps that advance the timers *)

\* Called with all tasks that have a callback in the queues it is given,
\* advanceTimers loses none and leaves no live timer behind that has started.
LEMMA AdvanceTimersKeepsTasks ==
  ASSUME IndInv, NEW ts \in Seq(Task), NEW queue \in SUBSET taskQueue,
         UNCHANGED now, Len(ts) = Len(tasks),
         \A i \in TaskId : /\ ts[i].startTime = tasks[i].startTime
                           /\ ts[i].expirationTime = tasks[i].expirationTime
                           /\ ts[i].sortIndex = tasks[i].sortIndex
                           /\ ts[i].callback => i \in queue \cup timerQueue,
         AdvanceTimers(ts, queue, now)
  PROVE  /\ tasks' \in Seq(Task) /\ TaskId' = TaskId
         /\ taskQueue' \subseteq TaskId' /\ timerQueue' \subseteq TaskId'
         /\ queue \subseteq taskQueue'
         /\ \A i \in TaskId : /\ tasks'[i].callback = ts[i].callback
                              /\ tasks'[i].startTime = tasks[i].startTime
                              /\ tasks'[i].expirationTime = tasks[i].expirationTime
         /\ NoTaskLost'
         /\ \A i \in timerQueue' : tasks'[i].callback => tasks'[i].startTime > now
<1>1. /\ TaskId = 1..Len(ts)
      /\ taskQueue \subseteq TaskId /\ timerQueue \in SUBSET (1..Len(ts))
      /\ queue \in SUBSET (1..Len(ts)) /\ now \in Nat
      /\ \A i \in TaskId : tasks[i] \in Task
  BY DEF IndInv, TypeOK, TaskId
<1>2. /\ tasks' \in Seq(Task)
      /\ Len(tasks') = Len(ts)
      /\ taskQueue' \subseteq 1..Len(ts)
      /\ queue \subseteq taskQueue'
      /\ taskQueue' \subseteq queue \cup timerQueue
      /\ timerQueue' \subseteq timerQueue
      /\ \A i \in timerQueue : ts[i].callback => i \in taskQueue' \cup timerQueue'
      /\ \A i \in timerQueue' : i \in taskQueue' => i \in queue
      /\ \A i \in 1..Len(ts) :
           /\ tasks'[i].callback = ts[i].callback
           /\ tasks'[i].priorityLevel = ts[i].priorityLevel
           /\ tasks'[i].startTime = ts[i].startTime
           /\ tasks'[i].expirationTime = ts[i].expirationTime
           /\ tasks'[i].sortIndex =
                IF i \in timerQueue \ timerQueue' /\ ts[i].callback
                THEN ts[i].expirationTime ELSE ts[i].sortIndex
  BY <1>1, AdvanceTimersMoves
<1>3. TaskId' = TaskId
  BY <1>1, <1>2 DEF TaskId
<1>4. /\ \A i \in taskQueue  : /\ i \notin timerQueue
                                /\ tasks[i].sortIndex = tasks[i].expirationTime
                                /\ tasks[i].startTime <= now
      /\ \A i \in timerQueue : i \notin taskQueue /\ tasks[i].sortIndex = tasks[i].startTime
  BY <1>1 DEF IndInv, NoTaskLost
<1>5. \A i \in timerQueue' : tasks'[i].callback => tasks'[i].startTime > now
  <2>1. \A i \in timerQueue : ts[i].sortIndex = ts[i].startTime
    BY <1>1, <1>4
  <2>2. \A i \in timerQueue' : ts[i].callback => ts[i].startTime > now
    BY <1>1, <2>1, AdvanceTimersComplete
  <2> QED
    BY <1>1, <1>2, <2>2
<1>6. NoTaskLost'
  <2> SUFFICES ASSUME NEW i \in TaskId
      PROVE /\ tasks'[i].callback => i \in taskQueue' \cup timerQueue'
            /\ i \in taskQueue' => /\ i \notin timerQueue'
                                   /\ tasks'[i].sortIndex = tasks'[i].expirationTime
                                   /\ tasks'[i].startTime <= now'
            /\ i \in timerQueue' => /\ i \notin taskQueue'
                                    /\ tasks'[i].sortIndex = tasks'[i].startTime
    BY <1>3 DEF NoTaskLost
  <2>1. tasks'[i].callback => i \in taskQueue' \cup timerQueue'
    BY <1>1, <1>2
  <2>2. i \in timerQueue' => i \notin taskQueue'
    BY <1>2, <1>4
  <2>3. i \in timerQueue' => tasks'[i].sortIndex = tasks'[i].startTime
    BY <1>1, <1>2, <1>4
  <2>4. i \in taskQueue' => tasks'[i].sortIndex = tasks'[i].expirationTime
    <3>1. CASE i \in queue
      BY <1>1, <1>2, <1>4, <3>1
    <3>2. CASE i \in taskQueue' /\ i \notin queue
      <4>1. i \in timerQueue /\ i \notin timerQueue' /\ i \in Fired(ts, now)
        BY <1>2, <3>2 DEF AdvanceTimers
      <4> QED
        BY <1>1, <1>2, <4>1 DEF Fired
    <3> QED
      BY <3>1, <3>2
  <2>5. i \in taskQueue' => tasks'[i].startTime <= now'
    <3>1. CASE i \in queue
      BY <1>1, <1>2, <1>4, <3>1
    <3>2. CASE i \in taskQueue' /\ i \notin queue
      <4>1. i \in timerQueue /\ i \notin Kept(ts, now) /\ ts[i].callback
        BY <3>2 DEF AdvanceTimers, Fired
      <4>2. ~(ts[i].startTime > now)
        BY <4>1 DEF Kept
      <4>3. ts[i].startTime \in Nat
        BY <1>1, <4>1 DEF Task
      <4>4. ts[i].startTime <= now
        BY <1>1, <4>2, <4>3
      <4> QED
        BY <1>1, <1>2, <4>1, <4>4
    <3> QED
      BY <3>1, <3>2
  <2> QED
    BY <2>1, <2>2, <2>3, <2>4, <2>5
<1> QED
  BY <1>1, <1>2, <1>3, <1>5, <1>6

\* The cases of handleTimeout: a timeout of the host is set for the first
\* timer, unless there is a message on its way or no timer.
LEMMA HandleTimeoutStep ==
  ASSUME IndInv, pc = "idle",
         NEW handle \in Nat \cup {NoTimeout},
         NEW others, IsABag(others), BagToSet(others) \subseteq Nat,
         HandleTimeout(handle, others)
  PROVE  IndInv'
<1>1. AdvanceTimers(tasks, taskQueue, now) /\ UNCHANGED <<loopVars, frameVars, now>>
      /\ isHostTimeoutScheduled' = FALSE
  BY DEF HandleTimeout
<1>2. /\ tasks' \in Seq(Task) /\ TaskId' = TaskId
      /\ taskQueue' \subseteq TaskId' /\ timerQueue' \subseteq TaskId'
      /\ NoTaskLost'
  <2>1. tasks \in Seq(Task) /\ now \in Nat
        /\ \A i \in TaskId : tasks[i].callback => i \in taskQueue \cup timerQueue
    BY DEF IndInv, TypeOK, NoTaskLost
  <2> QED
    BY <1>1, <2>1, AdvanceTimersKeepsTasks
<1>3. TimeoutHandleKnown'
  BY <1>1 DEF TimeoutHandleKnown
<1>4. LoopInv'
  BY <1>1 DEF LoopInv, loopVars
<1> DEFINE requested == ~isHostCallbackScheduled /\ taskQueue' = {} /\ timerQueue' # {}
<1>5. /\ messages' \in Nat /\ isMessageLoopRunning' \in BOOLEAN
      /\ isHostCallbackScheduled' \in BOOLEAN
      /\ MessageLoop'
      /\ ~requested /\ timerQueue' # {} => messages' > 0
      /\ taskQueue' # {} => messages' > 0
  <2>1. CASE ~isHostCallbackScheduled /\ taskQueue' # {}
    <3>1. isHostCallbackScheduled' = TRUE /\ RequestHostCallback
      BY <2>1 DEF HandleTimeout
    <3> QED
      BY <1>1, <2>1, <3>1 DEF RequestHostCallback, IndInv, TypeOK, MessageLoop, loopVars
  <2>2. CASE ~ (~isHostCallbackScheduled /\ taskQueue' # {})
    <3>1. UNCHANGED <<isHostCallbackScheduled, isMessageLoopRunning, messages>>
      BY <2>2 DEF HandleTimeout
    <3> QED
      BY <1>1, <2>2, <3>1 DEF IndInv, TypeOK, MessageLoop, loopVars
  <2> QED
    BY <2>1, <2>2
<1>6. /\ taskTimeout' \in Nat \cup {NoTimeout}
      /\ IsABag(otherTimeouts') /\ BagToSet(otherTimeouts') \subseteq Nat
      /\ requested => \E first \in timerQueue' :
                        /\ IsPeek(tasks', timerQueue', first)
                        /\ tasks'[first].startTime \in TimeoutsSet'
  <2>1. CASE requested
    <3>1. PICK first \in timerQueue' :
            /\ IsPeek(tasks', timerQueue', first)
            /\ RequestHostTimeout(tasks'[first].startTime, handle, others)
      BY <2>1 DEF HandleTimeout
    <3>2. tasks'[first] \in Task
      BY <1>2, <3>1 DEF TaskId
    <3>3. tasks'[first].startTime \in Nat
      BY <3>2 DEF Task
    <3> QED
      BY <3>1, <3>3, RequestHostTimeoutSets
  <2>2. CASE ~requested
    <3>1. taskTimeout' = handle /\ otherTimeouts' = others
      BY <2>2 DEF HandleTimeout
    <3> QED
      BY <2>2, <3>1
  <2> QED
    BY <2>1, <2>2
<1>7. TypeOK'
  BY <1>1, <1>2, <1>5, <1>6 DEF IndInv, TypeOK, loopVars, frameVars
<1>8. NoStall'
  BY <1>5 DEF NoStall
<1>9. TimerCovered'
  <2> SUFFICES ASSUME timerQueue' # {}, messages' = 0
               PROVE  \E due \in TimeoutsSet' : \A i \in timerQueue' :
                        due <= tasks'[i].startTime + MaxDrift
    BY DEF TimerCovered
  <2>1. requested
    BY <1>5
  <2>2. PICK first \in timerQueue' : /\ IsPeek(tasks', timerQueue', first)
                                     /\ tasks'[first].startTime \in TimeoutsSet'
    BY <1>6, <2>1
  <2>3. \A i \in timerQueue' : tasks'[first].startTime <= tasks'[i].startTime + MaxDrift
    <3>1. \A i \in timerQueue' : tasks'[i].sortIndex = tasks'[i].startTime
      BY <1>2 DEF NoTaskLost
    <3> QED
      BY <1>2, <2>2, <3>1, FirstIsEarliest DEF TaskId
  <2> QED
    BY <2>2, <2>3
<1> QED
  BY <1>2, <1>3, <1>4, <1>5, <1>7, <1>8, <1>9 DEF IndInv

LEMMA TimeoutStep ==
  ASSUME IndInv, TimeoutFires
  PROVE  IndInv'
<1>1. CASE TaskTimeoutFires
  BY <1>1, HandleTimeoutStep DEF TaskTimeoutFires, IndInv, TypeOK
<1>2. CASE OtherTimeoutFires
  <2>1. PICK due \in BagToSet(otherTimeouts) :
          HandleTimeout(taskTimeout, otherTimeouts (-) SetToBag({due}))
    BY <1>2 DEF OtherTimeoutFires
  <2>2. /\ due \in Nat /\ taskTimeout \in Nat \cup {NoTimeout} /\ pc = "idle"
        /\ IsABag(otherTimeouts) /\ BagToSet(otherTimeouts) \subseteq Nat
    BY <1>2, <2>1 DEF IndInv, TypeOK, OtherTimeoutFires
  <2>3. /\ IsABag(otherTimeouts (-) SetToBag({due}))
        /\ BagToSet(otherTimeouts (-) SetToBag({due})) \subseteq Nat
    BY <2>2, BagRemove
  <2> QED
    BY <2>1, <2>2, <2>3, HandleTimeoutStep
<1> QED
  BY <1>1, <1>2 DEF TimeoutFires

-----------------------------------------------------------------------------
(* The work loop *)

\* However the loop takes its next task, it is the head of the task queue.
LEMMA HeadIsTaken ==
  ASSUME taskQueue' \subseteq TaskId', NEW time, EnterLoop \/ NextTask(time)
  PROVE  /\ currentTask' \in TaskId' \cup {NoTask}
         /\ IsPeek(tasks', taskQueue', currentTask')
         /\ pc' \in {"workLoop", "exit"}
         /\ pc' = "workLoop" => currentTask' # NoTask
  BY DEF EnterLoop, NextTask

LEMMA PerformWorkStep ==
  ASSUME IndInv, PerformWorkUntilDeadline
  PROVE  IndInv'
<1>1. /\ AdvanceTimers(tasks, taskQueue, now) /\ EnterLoop
      /\ currentTime' = now /\ now' = now
      /\ isHostTimeoutScheduled' = FALSE /\ isHostCallbackScheduled' = FALSE
      /\ isPerformingWork' = TRUE
  BY DEF PerformWorkUntilDeadline
<1>2. tasks \in Seq(Task) /\ now \in Nat
      /\ \A i \in TaskId : tasks[i].callback => i \in taskQueue \cup timerQueue
  BY DEF IndInv, TypeOK, NoTaskLost
<1>3. /\ tasks' \in Seq(Task) /\ TaskId' = TaskId
      /\ taskQueue' \subseteq TaskId' /\ timerQueue' \subseteq TaskId'
      /\ NoTaskLost'
      /\ \A i \in timerQueue' : tasks'[i].callback => tasks'[i].startTime > now
  BY <1>1, <1>2, AdvanceTimersKeepsTasks
<1>4. /\ currentTask' \in TaskId' \cup {NoTask}
      /\ IsPeek(tasks', taskQueue', currentTask')
      /\ pc' \in {"workLoop", "exit"}
      /\ pc' = "workLoop" => currentTask' # NoTask
  BY <1>1, <1>3, HeadIsTaken
<1>5. MessageLoop' /\ messages' \in Nat /\ isMessageLoopRunning' \in BOOLEAN
  BY DEF PerformWorkUntilDeadline, MessageLoop, IndInv, TypeOK
<1>6. TypeOK'
  <2>1. /\ currentPriorityLevel' \in PriorityLevel
        /\ previousPriorityLevel' \in PriorityLevel
        /\ needsPaint' \in BOOLEAN /\ frameInterval' \in Nat /\ startTime' \in Nat
        /\ IsABag(otherTimeouts') /\ BagToSet(otherTimeouts') \subseteq Nat
        /\ taskTimeout' \in Nat \cup {NoTimeout}
    BY DEF PerformWorkUntilDeadline, IndInv, TypeOK
  <2>2. currentTime' \in 0..now' /\ now' \in Nat
    BY <1>1, <1>2
  <2> QED
    BY <1>1, <1>3, <1>4, <1>5, <2>1, <2>2 DEF TypeOK
<1>7. LoopInv'
  <2>1. now' <= currentTime' + MaxDrift
    BY <1>1, <1>2, SchedulerAssumption
  <2> QED
    BY <1>1, <1>3, <1>4, <2>1 DEF LoopInv
<1>8. NoStall' /\ TimerCovered' /\ TimeoutHandleKnown'
  BY <1>1, <1>4 DEF NoStall, TimerCovered, TimeoutHandleKnown
<1> QED
  BY <1>3, <1>5, <1>6, <1>7, <1>8 DEF IndInv

\* The steps that only move the loop on: nothing is queued or requested.
LEMMA LoopMovesStep ==
  ASSUME IndInv, YieldToHost \/ CallTask
  PROVE  IndInv'
<1>1. UNCHANGED <<taskQueue, timerQueue, flagVars, hostVars, frameVars, now, currentTask,
                  currentTime, previousPriorityLevel, isPerformingWork>>
  BY DEF YieldToHost, CallTask, queueVars
<1>2. /\ pc = "workLoop" /\ currentTask \in taskQueue /\ currentTask \in TaskId
      /\ tasks \in Seq(Task) /\ IsPeek(tasks, taskQueue, currentTask)
  BY DEF YieldToHost, CallTask, IndInv, LoopInv, TypeOK, IsPeek
<1>3. /\ tasks' \in Seq(Task) /\ TaskId' = TaskId
      /\ \A j \in TaskId :
           /\ tasks'[j].callback => tasks[j].callback
           /\ tasks'[j].startTime = tasks[j].startTime
           /\ tasks'[j].expirationTime = tasks[j].expirationTime
           /\ tasks'[j].sortIndex = tasks[j].sortIndex
      /\ currentPriorityLevel' \in PriorityLevel
      /\ \/ pc' = "exit" /\ tasks' = tasks
         \/ pc' = "callback" /\ ~tasks'[currentTask].callback
  <2>1. CASE YieldToHost
    BY <2>1 DEF YieldToHost, queueVars, IndInv, TypeOK, TaskId
  <2>2. CASE CallTask
    <3>1. \A j \in TaskId : tasks[j] \in Task
      BY <1>2 DEF TaskId
    <3>2. [tasks[currentTask] EXCEPT !.callback = FALSE] \in Task
      BY <1>2, <3>1 DEF Task
    <3>3. tasks' = [tasks EXCEPT ![currentTask].callback = FALSE] /\ pc' = "callback"
          /\ currentPriorityLevel' = tasks[currentTask].priorityLevel
      BY <2>2 DEF CallTask
    <3> QED
      BY <1>2, <3>1, <3>2, <3>3 DEF TaskId, Task
  <2> QED
    BY <2>1, <2>2
<1>4. TypeOK'
  BY <1>1, <1>2, <1>3 DEF IndInv, TypeOK, flagVars, hostVars, frameVars
<1>5. NoTaskLost'
  BY <1>1, <1>3 DEF IndInv, NoTaskLost, TypeOK
<1>6. LoopInv'
  BY <1>1, <1>2, <1>3 DEF IndInv, LoopInv
<1>7. MessageLoop' /\ NoStall' /\ TimerCovered' /\ TimeoutHandleKnown'
  BY <1>1, <1>3 DEF IndInv, MessageLoop, NoStall, TimerCovered, TimeoutHandleKnown,
                    flagVars, hostVars
<1> QED
  BY <1>4, <1>5, <1>6, <1>7 DEF IndInv

LEMMA SkipTaskStep ==
  ASSUME IndInv, SkipTask
  PROVE  IndInv'
<1>1. UNCHANGED <<tasks, timerQueue, flagVars, hostVars, frameVars, now, currentTime,
                  currentPriorityLevel, previousPriorityLevel, isPerformingWork>>
      /\ taskQueue' = taskQueue \ {currentTask} /\ NextTask(currentTime)
      /\ pc = "workLoop" /\ ~tasks[currentTask].callback
  BY DEF SkipTask
<1>2. TaskId' = TaskId /\ taskQueue' \subseteq TaskId'
  BY <1>1 DEF TaskId, IndInv, TypeOK
<1>3. /\ currentTask' \in TaskId' \cup {NoTask}
      /\ IsPeek(tasks', taskQueue', currentTask')
      /\ pc' \in {"workLoop", "exit"}
      /\ pc' = "workLoop" => currentTask' # NoTask
  BY <1>1, <1>2, HeadIsTaken
<1>4. TypeOK'
  BY <1>1, <1>2, <1>3 DEF IndInv, TypeOK, flagVars, hostVars, frameVars
<1>5. NoTaskLost'
  BY <1>1, <1>2 DEF IndInv, NoTaskLost
<1>6. LoopInv'
  BY <1>1, <1>3 DEF IndInv, LoopInv
<1>7. MessageLoop' /\ NoStall' /\ TimerCovered' /\ TimeoutHandleKnown'
  BY <1>1, <1>3 DEF IndInv, MessageLoop, NoStall, TimerCovered, TimeoutHandleKnown,
                    flagVars, hostVars
<1> QED
  BY <1>4, <1>5, <1>6, <1>7 DEF IndInv

LEMMA TaskCompletesStep ==
  ASSUME IndInv, TaskCompletes
  PROVE  IndInv'
<1> DEFINE queue == IF IsPeek(tasks, taskQueue, currentTask) THEN taskQueue \ {currentTask}
                                                             ELSE taskQueue
<1>1. UNCHANGED <<flagVars, hostVars, frameVars, now,
                  currentPriorityLevel, previousPriorityLevel, isPerformingWork>>
      /\ AdvanceTimers(tasks, queue, now) /\ NextTask(now)
      /\ currentTime' = now /\ pc = "callback"
  BY DEF TaskCompletes
<1>2. tasks \in Seq(Task) /\ now \in Nat /\ queue \in SUBSET taskQueue
      /\ \A i \in TaskId : tasks[i].callback => i \in queue \cup timerQueue
  BY <1>1 DEF IndInv, TypeOK, NoTaskLost, LoopInv
<1> HIDE DEF queue
<1>3. /\ tasks' \in Seq(Task) /\ TaskId' = TaskId
      /\ taskQueue' \subseteq TaskId' /\ timerQueue' \subseteq TaskId'
      /\ NoTaskLost'
      /\ \A i \in timerQueue' : tasks'[i].callback => tasks'[i].startTime > now
  BY <1>1, <1>2, AdvanceTimersKeepsTasks
<1>4. /\ currentTask' \in TaskId' \cup {NoTask}
      /\ IsPeek(tasks', taskQueue', currentTask')
      /\ pc' \in {"workLoop", "exit"}
      /\ pc' = "workLoop" => currentTask' # NoTask
  BY <1>1, <1>3, HeadIsTaken
<1>5. TypeOK'
  BY <1>1, <1>2, <1>3, <1>4 DEF IndInv, TypeOK, flagVars, hostVars, frameVars
<1>6. LoopInv'
  <2>1. now' <= currentTime' + MaxDrift
    BY <1>1, <1>2, SchedulerAssumption
  <2> QED
    BY <1>1, <1>3, <1>4, <2>1 DEF LoopInv
<1>7. MessageLoop' /\ NoStall' /\ TimerCovered' /\ TimeoutHandleKnown'
  BY <1>1, <1>4 DEF IndInv, MessageLoop, NoStall, TimerCovered, TimeoutHandleKnown,
                    flagVars, hostVars
<1> QED
  BY <1>3, <1>5, <1>6, <1>7 DEF IndInv

\* Leaving the loop: the flags agree with the host again, and with more work
\* to do nothing can be asleep.
LEMMA LeaveWorkAgrees ==
  ASSUME IndInv, NEW more \in BOOLEAN, LeaveWork(more), pc # "idle",
         UNCHANGED <<isHostCallbackScheduled, isHostTimeoutScheduled>>
  PROVE  /\ MessageLoop' /\ LoopInv'
         /\ more => NoStall' /\ TimerCovered'
         /\ messages' \in Nat /\ isMessageLoopRunning' \in BOOLEAN
         /\ isPerformingWork' = (pc' # "idle")
         /\ currentTask' = NoTask /\ pc' = "idle" /\ currentTime' = 0
         /\ {currentPriorityLevel', previousPriorityLevel'} \subseteq PriorityLevel
<1>1. /\ isMessageLoopRunning' = more /\ pc' = "idle" /\ isPerformingWork' = FALSE
      /\ currentTask' = NoTask /\ currentTime' = 0
      /\ currentPriorityLevel' = previousPriorityLevel
      /\ previousPriorityLevel' = previousPriorityLevel
      /\ messages' = IF more THEN messages + 1 ELSE messages
  BY DEF LeaveWork
<1>2. messages = 0 /\ ~isHostCallbackScheduled
  BY DEF IndInv, MessageLoop, TypeOK
<1>3. messages' = IF more THEN 1 ELSE 0
  BY <1>1, <1>2
<1>4. MessageLoop'
  BY <1>1, <1>2, <1>3 DEF MessageLoop
<1>5. LoopInv'
  BY <1>1 DEF LoopInv
<1>6. more => NoStall' /\ TimerCovered'
  BY <1>3 DEF NoStall, TimerCovered
<1>7. isPerformingWork' = (pc' # "idle")
  BY <1>1
<1>8. messages' \in Nat /\ isMessageLoopRunning' \in BOOLEAN
  BY <1>1, <1>3
<1>9. {currentPriorityLevel', previousPriorityLevel'} \subseteq PriorityLevel
  BY <1>1 DEF IndInv, TypeOK
<1> QED
  BY <1>1, <1>4, <1>5, <1>6, <1>7, <1>8, <1>9

LEMMA TaskContinuesStep ==
  ASSUME IndInv, TaskContinues
  PROVE  IndInv'
<1> DEFINE ts == [tasks EXCEPT ![currentTask].callback = TRUE]
<1>1. /\ pc = "callback" /\ AdvanceTimers(ts, taskQueue, now) /\ LeaveWork(TRUE)
      /\ UNCHANGED <<isHostCallbackScheduled, isHostTimeoutScheduled,
                     taskTimeout, otherTimeouts, frameVars, now>>
  BY DEF TaskContinues
<1>2. /\ tasks \in Seq(Task) /\ now \in Nat /\ currentTask \in taskQueue
      /\ currentTask \in TaskId /\ TaskId = 1..Len(tasks)
  BY <1>1 DEF IndInv, TypeOK, LoopInv, TaskId
<1>3. /\ ts \in Seq(Task) /\ Len(ts) = Len(tasks)
      /\ \A i \in TaskId : /\ ts[i].startTime = tasks[i].startTime
                           /\ ts[i].expirationTime = tasks[i].expirationTime
                           /\ ts[i].sortIndex = tasks[i].sortIndex
                           /\ ts[i].callback => i \in taskQueue \cup timerQueue
  <2>1. \A i \in TaskId : tasks[i] \in Task
    BY <1>2
  <2>2. [tasks[currentTask] EXCEPT !.callback = TRUE] \in Task
    BY <1>2, <2>1 DEF Task
  <2>3. ts \in Seq(Task) /\ Len(ts) = Len(tasks)
    BY <1>2, <2>1, <2>2
  <2>4. \A i \in TaskId : tasks[i].callback => i \in taskQueue \cup timerQueue
    BY DEF IndInv, NoTaskLost
  <2> QED
    BY <1>2, <2>1, <2>3, <2>4 DEF Task
<1> HIDE DEF ts
<1>4. /\ tasks' \in Seq(Task) /\ TaskId' = TaskId
      /\ taskQueue' \subseteq TaskId' /\ timerQueue' \subseteq TaskId'
      /\ NoTaskLost'
  BY <1>1, <1>2, <1>3, AdvanceTimersKeepsTasks
<1>5. /\ MessageLoop' /\ LoopInv' /\ NoStall' /\ TimerCovered'
      /\ messages' \in Nat /\ isMessageLoopRunning' \in BOOLEAN
      /\ isPerformingWork' = (pc' # "idle")
      /\ currentTask' = NoTask /\ pc' = "idle" /\ currentTime' = 0
      /\ {currentPriorityLevel', previousPriorityLevel'} \subseteq PriorityLevel
  BY <1>1, LeaveWorkAgrees
<1>6. TypeOK' /\ TimeoutHandleKnown'
  BY <1>1, <1>2, <1>4, <1>5 DEF IndInv, TypeOK, TimeoutHandleKnown, frameVars
<1> QED
  BY <1>4, <1>5, <1>6 DEF IndInv

LEMMA TaskThrowsStep ==
  ASSUME IndInv, TaskThrows
  PROVE  IndInv'
<1>1. /\ pc = "callback" /\ LeaveWork(TRUE)
      /\ UNCHANGED <<tasks, taskQueue, timerQueue, isHostCallbackScheduled,
                     isHostTimeoutScheduled, taskTimeout, otherTimeouts, frameVars, now>>
  BY DEF TaskThrows, queueVars
<1>2. /\ MessageLoop' /\ LoopInv' /\ NoStall' /\ TimerCovered'
      /\ messages' \in Nat /\ isMessageLoopRunning' \in BOOLEAN
      /\ isPerformingWork' = (pc' # "idle")
      /\ currentTask' = NoTask /\ pc' = "idle" /\ currentTime' = 0
      /\ {currentPriorityLevel', previousPriorityLevel'} \subseteq PriorityLevel
  BY <1>1, LeaveWorkAgrees
<1>3. TypeOK' /\ TimeoutHandleKnown'
  BY <1>1, <1>2 DEF IndInv, TypeOK, TimeoutHandleKnown, frameVars, TaskId
<1>4. NoTaskLost'
  BY <1>1 DEF IndInv, NoTaskLost, TaskId
<1> QED
  BY <1>2, <1>3, <1>4 DEF IndInv

LEMMA WorkLoopExitStep ==
  ASSUME IndInv, WorkLoopExit
  PROVE  IndInv'
<1> DEFINE more == currentTask # NoTask
           requested == currentTask = NoTask /\ timerQueue # {}
<1>1. /\ pc = "exit" /\ LeaveWork(more)
      /\ UNCHANGED <<tasks, taskQueue, timerQueue, isHostCallbackScheduled,
                     isHostTimeoutScheduled, frameVars, now>>
  BY DEF WorkLoopExit, queueVars
<1>2. /\ MessageLoop' /\ LoopInv'
      /\ more => NoStall' /\ TimerCovered'
      /\ messages' \in Nat /\ isMessageLoopRunning' \in BOOLEAN
      /\ isPerformingWork' = (pc' # "idle")
      /\ currentTask' = NoTask /\ pc' = "idle" /\ currentTime' = 0
      /\ {currentPriorityLevel', previousPriorityLevel'} \subseteq PriorityLevel
  <2>1. more \in BOOLEAN
    OBVIOUS
  <2> QED
    BY <1>1, <2>1, LeaveWorkAgrees
<1>3. NoStall'
  <2>1. ~more => taskQueue = {}
    <3>1. IsPeek(tasks, taskQueue, currentTask) /\ taskQueue \subseteq 1..Len(tasks)
      BY <1>1 DEF IndInv, LoopInv, TypeOK, TaskId
    <3> QED
      BY <3>1 DEF IsPeek, NoTask
  <2> QED
    BY <1>1, <1>2, <2>1 DEF NoStall
<1>4. /\ tasks \in Seq(Task) /\ timerQueue \in SUBSET (1..Len(tasks))
      /\ \A i \in timerQueue : tasks[i].sortIndex = tasks[i].startTime
      /\ now \in Nat /\ currentTime \in Nat /\ currentTime <= now
      /\ now <= currentTime + MaxDrift /\ MaxDrift \in Nat
  BY <1>1, SchedulerAssumption DEF IndInv, TypeOK, TaskId, NoTaskLost, LoopInv
<1>5. /\ taskTimeout' \in Nat \cup {NoTimeout}
      /\ IsABag(otherTimeouts') /\ BagToSet(otherTimeouts') \subseteq Nat
      /\ isHostTimeoutScheduled => taskTimeout' # NoTimeout
      /\ requested => \E due \in TimeoutsSet' : \A i \in timerQueue :
                        due <= tasks[i].startTime + MaxDrift
  <2>1. CASE requested
    <3>1. PICK first \in timerQueue :
            /\ IsPeek(tasks, timerQueue, first)
            /\ RequestHostTimeout(now + (tasks[first].startTime - currentTime),
                                  taskTimeout, otherTimeouts)
      BY <2>1 DEF WorkLoopExit
    <3> DEFINE due == now + (tasks[first].startTime - currentTime)
    <3>2. /\ tasks[first].startTime \in Nat
          /\ \A i \in timerQueue : /\ tasks[i].startTime \in Nat
                                   /\ tasks[first].startTime <= tasks[i].startTime
      BY <1>4, <3>1, FirstIsEarliest
    <3>3. due \in Nat /\ due <= tasks[first].startTime + MaxDrift
      BY <1>4, <3>2
    <3>4. \A i \in timerQueue : due <= tasks[i].startTime + MaxDrift
      BY <1>4, <3>2, <3>3
    <3> HIDE DEF due
    <3>5. RequestHostTimeout(due, taskTimeout, otherTimeouts)
      BY <3>1 DEF due
    <3>6. /\ taskTimeout' \in Nat /\ taskTimeout' # NoTimeout
          /\ IsABag(otherTimeouts') /\ BagToSet(otherTimeouts') \subseteq Nat
          /\ due \in TimeoutsSet'
      <4>1. /\ taskTimeout \in Nat \cup {NoTimeout}
            /\ IsABag(otherTimeouts) /\ BagToSet(otherTimeouts) \subseteq Nat
        BY DEF IndInv, TypeOK
      <4> QED
        BY <3>3, <3>5, <4>1, RequestHostTimeoutSets
    <3> QED
      BY <3>4, <3>6
  <2>2. CASE ~requested
    <3>1. UNCHANGED <<taskTimeout, otherTimeouts>>
      BY <2>2 DEF WorkLoopExit
    <3> QED
      BY <2>2, <3>1 DEF IndInv, TypeOK, TimeoutHandleKnown
  <2> QED
    BY <2>1, <2>2
<1>6. TimerCovered'
  BY <1>1, <1>2, <1>5 DEF TimerCovered
<1>7. TypeOK' /\ TimeoutHandleKnown'
  BY <1>1, <1>2, <1>5 DEF IndInv, TypeOK, TimeoutHandleKnown, frameVars, TaskId
<1>8. NoTaskLost'
  BY <1>1 DEF IndInv, NoTaskLost, TaskId
<1> QED
  BY <1>2, <1>3, <1>6, <1>7, <1>8 DEF IndInv

-----------------------------------------------------------------------------
(* Time, and the whole next-state relation *)

LEMMA TickStep ==
  ASSUME IndInv, Tick
  PROVE  IndInv'
<1>1. /\ UNCHANGED <<tasks, taskQueue, timerQueue, flagVars, hostVars, loopVars, frameVars>>
      /\ now' = now + 1 /\ now \in Nat /\ currentTime \in 0..now /\ MaxDrift \in Nat
      /\ pc \in {"workLoop", "exit"} => now - currentTime < MaxDrift
  BY SchedulerAssumption DEF Tick, IndInv, TypeOK, queueVars
<1>2. now' \in Nat /\ currentTime' \in 0..now'
  BY <1>1 DEF loopVars
<1>3. TypeOK'
  BY <1>1, <1>2 DEF IndInv, TypeOK, TaskId, flagVars, hostVars, loopVars, frameVars
<1>4. LoopInv'
  <2>1. pc \in {"workLoop", "exit"} => now' <= currentTime' + MaxDrift
    BY <1>1 DEF loopVars
  <2> QED
    BY <1>1, <2>1 DEF IndInv, LoopInv, loopVars, IsPeek, Before
<1>5. NoTaskLost'
  <2>1. \A i \in TaskId : tasks[i].startTime \in Nat
    <3>1. \A i \in TaskId : tasks[i] \in Task
      BY DEF IndInv, TypeOK, TaskId
    <3> QED
      BY <3>1 DEF Task
  <2>2. \A i \in TaskId : tasks[i].startTime <= now => tasks[i].startTime <= now'
    BY <1>1, <2>1
  <2> QED
    BY <1>1, <2>2 DEF IndInv, NoTaskLost, TaskId
<1>6. MessageLoop' /\ NoStall' /\ TimerCovered' /\ TimeoutHandleKnown'
  BY <1>1 DEF IndInv, TaskId, MessageLoop, NoStall, TimerCovered,
              TimeoutHandleKnown, TimeoutsSet, flagVars, hostVars, loopVars
<1> QED
  BY <1>3, <1>4, <1>5, <1>6 DEF IndInv

LEMMA StepIndInv == IndInv /\ [Next]_vars => IndInv'
<1> SUFFICES ASSUME IndInv, [Next]_vars PROVE IndInv'
  OBVIOUS
<1>1. CASE UserCode
  BY <1>1, ScheduleCallbackStep, ScheduleDelayedCallbackStep, CancelCallbackStep, FrameStep
     DEF UserCode
<1>2. CASE TimeoutFires
  BY <1>2, TimeoutStep
<1>3. CASE PerformWorkUntilDeadline
  BY <1>3, PerformWorkStep
<1>4. CASE WorkLoop
  BY <1>4, LoopMovesStep, SkipTaskStep, WorkLoopExitStep DEF WorkLoop
<1>5. CASE CallbackEnds
  BY <1>5, TaskCompletesStep, TaskContinuesStep, TaskThrowsStep DEF CallbackEnds
<1>6. CASE Tick
  BY <1>6, TickStep
<1>7. CASE UNCHANGED vars
  <2>1. UNCHANGED <<queueVars, flagVars, hostVars, loopVars, frameVars, now>>
    BY <1>7 DEF vars
  <2>2. TypeOK'
    BY <2>1 DEF IndInv, TypeOK, TaskId, queueVars, flagVars, hostVars, loopVars, frameVars
  <2>3. LoopInv'
    BY <2>1 DEF IndInv, LoopInv, IsPeek, Before, queueVars, loopVars
  <2>4. NoTaskLost'
    BY <2>1 DEF IndInv, NoTaskLost, TaskId, queueVars, loopVars
  <2>5. MessageLoop' /\ NoStall'
    BY <2>1 DEF IndInv, MessageLoop, NoStall, queueVars, flagVars, hostVars, loopVars
  <2>6. TimerCovered' /\ TimeoutHandleKnown'
    BY <2>1 DEF IndInv, TimerCovered, TimeoutHandleKnown, TimeoutsSet, TaskId,
                queueVars, flagVars, hostVars, loopVars
  <2> QED
    BY <2>2, <2>3, <2>4, <2>5, <2>6 DEF IndInv
<1> QED
  BY <1>1, <1>2, <1>3, <1>4, <1>5, <1>6, <1>7 DEF Next

\* What the queues, the flags, the loop and the host's messages and timeouts know
\* of one another survives every step (the inductive invariant).
THEOREM Invariance == Spec => []IndInv
<1>1. Init => IndInv
  BY InitIndInv
<1>2. IndInv /\ [Next]_vars => IndInv'
  BY StepIndInv
<1> QED
  BY <1>1, <1>2, PTL DEF Spec

-----------------------------------------------------------------------------
(* The theorems *)

\* The variables keep their types, and the locals of the loop are only set
\* while it runs (every function of the module).
THEOREM TypeCorrectness == Spec => []TypeOK
<1>1. IndInv => TypeOK
  BY DEF IndInv
<1> QED
  BY <1>1, Invariance, PTL

\* Between two steps the loop knows its current task to be the most urgent
\* one, whatever user code and the clock do (workLoop).
THEOREM LoopInvHolds == Spec => []LoopInv
<1>1. IndInv => LoopInv
  BY DEF IndInv
<1> QED
  BY <1>1, Invariance, PTL

\* A task whose callback is to be called is in exactly one of the queues
\* (push, pop and advanceTimers).
THEOREM TasksAreKept == Spec => []NoTaskLost
<1>1. IndInv => NoTaskLost
  BY DEF IndInv
<1> QED
  BY <1>1, Invariance, PTL

\* At most one message is pending and the flags say which
\* (requestHostCallback and performWorkUntilDeadline).
THEOREM MessageLoopHolds == Spec => []MessageLoop
<1>1. IndInv => MessageLoop
  BY DEF IndInv
<1> QED
  BY <1>1, Invariance, PTL

\* The Scheduler never sleeps on a task queue that is not empty.
THEOREM NeverStalls == Spec => []NoStall
<1>1. IndInv => NoStall
  BY DEF IndInv
<1> QED
  BY <1>1, Invariance, PTL

\* Nor on a timer queue that is not empty (workLoop, handleTimeout and
\* unstable_scheduleCallback).
THEOREM TimersAreCovered == Spec => []TimerCovered
<1>1. IndInv => TimerCovered
  BY DEF IndInv
<1> QED
  BY <1>1, Invariance, PTL

\* A timeout the flag says is scheduled can be cleared (cancelHostTimeout).
THEOREM TimeoutHandleIsKnown == Spec => []TimeoutHandleKnown
<1>1. IndInv => TimeoutHandleKnown
  BY DEF IndInv
<1> QED
  BY <1>1, Invariance, PTL

\* The loop calls the most urgent task there is, among those in either queue
\* that may start.  The head of the task queue precedes the others in it, and
\* the timers that are live have not started.
THEOREM MostUrgentFirst == Spec => StartsMostUrgent
<1> DEFINE Urgent ==
      pc = "workLoop" /\ pc' = "callback" =>
        \A i \in TaskId \ {currentTask} :
          tasks[i].callback /\ tasks[i].startTime <= currentTime =>
            \/ tasks[currentTask].expirationTime < tasks[i].expirationTime
            \/ /\ tasks[currentTask].expirationTime = tasks[i].expirationTime
               /\ currentTask < i
<1>1. IndInv => Urgent
  <2> SUFFICES ASSUME IndInv, pc = "workLoop", NEW i \in TaskId \ {currentTask},
                      tasks[i].callback, tasks[i].startTime <= currentTime
               PROVE  \/ tasks[currentTask].expirationTime < tasks[i].expirationTime
                      \/ /\ tasks[currentTask].expirationTime = tasks[i].expirationTime
                         /\ currentTask < i
    OBVIOUS
  <2>1. /\ tasks[i] \in Task /\ currentTime \in Nat
        /\ taskQueue \subseteq TaskId
    BY DEF IndInv, TypeOK, TaskId
  <2>2. i \notin timerQueue
    <3>1. i \in timerQueue => tasks[i].startTime > currentTime
      BY DEF IndInv, LoopInv
    <3> QED
      BY <2>1, <3>1 DEF Task
  <2>3. i \in taskQueue /\ tasks[i].sortIndex = tasks[i].expirationTime
    BY <2>2 DEF IndInv, NoTaskLost
  <2>4. currentTask \in taskQueue /\ Before(tasks, currentTask, i)
    BY <2>3 DEF IndInv, LoopInv, IsPeek
  <2>5. tasks[currentTask].sortIndex = tasks[currentTask].expirationTime
    BY <2>1, <2>4 DEF IndInv, NoTaskLost
  <2> QED
    BY <2>3, <2>4, <2>5 DEF Before
<1>2. IndInv => [Urgent]_vars
  BY <1>1
<1> QED
  BY <1>2, Invariance, PTL DEF StartsMostUrgent

\* If the head of the task queue has not expired, none in it has.
LEMMA HeadExpiresFirst ==
  ASSUME IndInv, IsPeek(tasks, taskQueue, currentTask), NEW time \in Nat,
         currentTask # NoTask => tasks[currentTask].expirationTime > time
  PROVE  \A i \in taskQueue : tasks[i].expirationTime > time
<1> SUFFICES ASSUME NEW i \in taskQueue PROVE tasks[i].expirationTime > time
  OBVIOUS
<1>1. /\ \A j \in TaskId : tasks[j] \in Task
      /\ taskQueue \subseteq TaskId /\ NoTask \notin TaskId
  BY DEF IndInv, TypeOK, TaskId, NoTask
<1>2. \A j \in taskQueue : /\ tasks[j].sortIndex = tasks[j].expirationTime
                           /\ tasks[j].expirationTime \in Int
  BY <1>1 DEF IndInv, NoTaskLost, Task
<1>3. currentTask \in taskQueue /\ currentTask # NoTask
  BY <1>1 DEF IsPeek
<1>4. i = currentTask \/ Before(tasks, currentTask, i)
  BY <1>3 DEF IsPeek
<1> QED
  BY <1>2, <1>3, <1>4 DEF Before

\* The same of the next state.
LEMMA HeadIsNext ==
  (IndInv /\ IsPeek(tasks, taskQueue, currentTask) /\ currentTime \in Nat
     /\ (currentTask # NoTask => tasks[currentTask].expirationTime > currentTime)
   => \A i \in taskQueue : tasks[i].expirationTime > currentTime)'
<1>1. IndInv /\ IsPeek(tasks, taskQueue, currentTask) /\ currentTime \in Nat
        /\ (currentTask # NoTask => tasks[currentTask].expirationTime > currentTime)
       => \A i \in taskQueue : tasks[i].expirationTime > currentTime
  BY HeadExpiresFirst
<1> QED
  BY <1>1, PTL

\* The loop does not give way to the host while an expired task is queued
\* (the checks of workLoop, in both variants).
THEOREM ExpiredTasksAreNotDeferred == Spec => []NoExpiredTaskLeft
<1>1. Init => NoExpiredTaskLeft
  BY DEF Init, NoExpiredTaskLeft
<1>2. IndInv /\ IndInv' /\ NoExpiredTaskLeft /\ [Next]_vars => NoExpiredTaskLeft'
  <2> SUFFICES ASSUME IndInv, IndInv', NoExpiredTaskLeft, [Next]_vars, pc' = "exit"
               PROVE  \A i \in taskQueue' : tasks'[i].expirationTime > currentTime'
    BY DEF NoExpiredTaskLeft
  <2>1. CASE PerformWorkUntilDeadline \/ SkipTask \/ TaskCompletes
    <3>1. PICK time : /\ EnterLoop \/ NextTask(time)
                      /\ currentTime' = time
      <4>1. CASE PerformWorkUntilDeadline
        BY <4>1 DEF PerformWorkUntilDeadline
      <4>2. CASE SkipTask
        BY <4>2 DEF SkipTask
      <4>3. CASE TaskCompletes
        BY <4>3 DEF TaskCompletes
      <4> QED
        BY <2>1, <4>1, <4>2, <4>3
    <3>2. /\ IsPeek(tasks', taskQueue', currentTask')
          /\ currentTask' # NoTask => tasks'[currentTask'].expirationTime > time
      BY <3>1 DEF EnterLoop, NextTask
    <3>3. IsPeek(tasks, taskQueue, currentTask)' /\ currentTime' \in Nat
      BY <3>2 DEF IndInv, TypeOK
    <3> QED
      BY <3>1, <3>2, <3>3, HeadIsNext
  <2>2. CASE YieldToHost
    <3>1. /\ IsPeek(tasks, taskQueue, currentTask) /\ currentTime \in Nat
          /\ tasks[currentTask].expirationTime > currentTime
      BY <2>2 DEF YieldToHost, MustYield, IndInv, LoopInv, TypeOK
    <3>2. \A i \in taskQueue : tasks[i].expirationTime > currentTime
      BY <3>1, HeadExpiresFirst
    <3> QED
      BY <2>2, <3>2 DEF YieldToHost, queueVars
  <2>3. CASE UNCHANGED vars \/ Tick
    BY <2>3 DEF vars, queueVars, loopVars, Tick, NoExpiredTaskLeft
  <2>4. CASE UserCode \/ TimeoutFires
    <3>1. pc' = pc
      BY <2>4 DEF UserCode, ScheduleCallback, ScheduleDelayedCallback, CancelCallback,
                  RequestPaint, ForceFrameRate, TimeoutFires, TaskTimeoutFires,
                  OtherTimeoutFires, HandleTimeout, loopVars
    <3>2. pc \in {"idle", "callback"}
      BY <2>4 DEF UserCode, ScheduleCallback, ScheduleDelayedCallback, CancelCallback,
                  RequestPaint, ForceFrameRate, TimeoutFires, TaskTimeoutFires,
                  OtherTimeoutFires, UserCodeRuns
    <3> QED
      BY <3>1, <3>2
  <2>5. CASE CallTask \/ WorkLoopExit \/ TaskContinues \/ TaskThrows
    BY <2>5 DEF CallTask, WorkLoopExit, TaskContinues, TaskThrows, LeaveWork
  <2> QED
    BY <2>1, <2>2, <2>3, <2>4, <2>5 DEF Next, WorkLoop, CallbackEnds
<1> QED
  BY <1>1, <1>2, Invariance, PTL DEF Spec

-----------------------------------------------------------------------------
(* Refinement *)

waitingTasks == {i \in TaskId : tasks[i].callback}
runningTask  == IF pc = "callback" THEN {currentTask} ELSE {}
startTimes   == [i \in TaskId |-> tasks[i].startTime]

\* A step that changes at most the sort indices of the tasks and does not
\* enter or leave a callback is invisible.
LEMMA QueueStep ==
  ASSUME TaskId' = TaskId, UNCHANGED now, runningTask' = runningTask,
         \A i \in TaskId : /\ tasks'[i].callback = tasks[i].callback
                           /\ tasks'[i].startTime = tasks[i].startTime
  PROVE  UNCHANGED <<now, waitingTasks, runningTask, startTimes>>
BY DEF waitingTasks, startTimes

\* What the steps that advance the timers leave of the tasks.
LEMMA TimersMoveTasksStay ==
  ASSUME IndInv, NEW queue \in SUBSET taskQueue, AdvanceTimers(tasks, queue, now)
  PROVE  /\ TaskId' = TaskId
         /\ \A i \in TaskId : /\ tasks'[i].callback = tasks[i].callback
                              /\ tasks'[i].startTime = tasks[i].startTime
<1>1. /\ tasks \in Seq(Task) /\ now \in Nat
      /\ timerQueue \in SUBSET (1..Len(tasks)) /\ queue \in SUBSET (1..Len(tasks))
  BY DEF IndInv, TypeOK, TaskId
<1> QED
  BY <1>1, AdvanceTimersMoves DEF TaskId

LEMMA ScheduleRefines ==
  ASSUME IndInv, NEW p \in PriorityLevel, NEW start \in Nat, NEW key \in Nat \cup {-1},
         start >= now, tasks' = Append(tasks, NewTask(p, start, key)),
         UNCHANGED <<now, pc, currentTask>>
  PROVE  Execution!Next
<1> DEFINE t == Len(tasks) + 1
           n == NewTask(p, start, key)
<1>1. tasks \in Seq(Task) /\ n \in Task /\ n.callback /\ n.startTime = start
  BY NewTaskType DEF IndInv, TypeOK, NewTask
<1> HIDE DEF n
<1>2. /\ TaskId' = TaskId \cup {t} /\ t \notin TaskId /\ tasks'[t] = n
      /\ \A i \in TaskId : tasks'[i] = tasks[i]
  BY <1>1 DEF TaskId, n
<1> HIDE DEF t
<1>3. DOMAIN startTimes = TaskId /\ DOMAIN startTimes' = TaskId'
  BY DEF startTimes
<1>4. /\ \A i \in TaskId : startTimes'[i] = startTimes[i]
      /\ startTimes'[t] = start
  BY <1>1, <1>2 DEF startTimes
<1>5. waitingTasks' = waitingTasks \cup {t}
  BY <1>1, <1>2 DEF waitingTasks
<1>6. UNCHANGED <<now, runningTask>>
  BY DEF runningTask
<1>7. Execution!Schedule(t)
  BY <1>2, <1>3, <1>4, <1>5, <1>6
     DEF Execution!Schedule, waitingTasks, runningTask, startTimes
<1>8. t \in DOMAIN startTimes'
  BY <1>2, <1>3
<1> QED
  BY <1>7, <1>8 DEF Execution!Next, Execution!Schedule, startTimes

\* Every step of the Scheduler is a step of TaskExecution or leaves its
\* variables alone.
LEMMA StepRefines ==
  IndInv /\ [Next]_vars =>
    \/ Execution!Next
    \/ UNCHANGED <<now, waitingTasks, runningTask, startTimes>>
<1> SUFFICES ASSUME IndInv, [Next]_vars
             PROVE  \/ Execution!Next
                    \/ UNCHANGED <<now, waitingTasks, runningTask, startTimes>>
  OBVIOUS
<1> DEFINE Invisible == UNCHANGED <<now, waitingTasks, runningTask, startTimes>>
<1>0. /\ tasks \in Seq(Task) /\ now \in Nat
      /\ TaskId = 1..Len(tasks) /\ DOMAIN startTimes = TaskId
      /\ \A i \in TaskId : tasks[i] \in Task
  BY DEF IndInv, TypeOK, TaskId, startTimes
<1>1. CASE UserCode
  <2>1. ASSUME NEW p \in PriorityLevel, ScheduleCallback(p)
        PROVE  Execution!Next
    <3>1. now + Timeout[p] \in Nat \cup {-1}
      BY <1>0, SchedulerAssumption DEF PriorityLevel
    <3>2. /\ tasks' = Append(tasks, NewTask(p, now, now + Timeout[p]))
          /\ UNCHANGED <<now, pc, currentTask>> /\ now >= now
      BY <1>0, <2>1 DEF ScheduleCallback, loopVars
    <3> QED
      BY <1>0, <3>1, <3>2, ScheduleRefines
  <2>2. ASSUME NEW p \in PriorityLevel, NEW d \in Delays, ScheduleDelayedCallback(p, d)
        PROVE  Execution!Next
    <3>1. now + d \in Nat /\ now + d >= now
      BY <1>0, SchedulerAssumption
    <3>2. /\ tasks' = Append(tasks, NewTask(p, now + d, now + d))
          /\ UNCHANGED <<now, pc, currentTask>>
      BY <2>2 DEF ScheduleDelayedCallback, loopVars
    <3> QED
      BY <1>0, <3>1, <3>2, ScheduleRefines
  <2>3. ASSUME NEW i \in TaskId, CancelCallback(i)
        PROVE  Execution!Next
    <3>1. /\ tasks' = [tasks EXCEPT ![i].callback = FALSE] /\ UNCHANGED <<now, pc, currentTask>>
      BY <2>3 DEF CancelCallback, loopVars
    <3>2. /\ TaskId' = TaskId /\ ~tasks'[i].callback
          /\ \A j \in TaskId : /\ j # i => tasks'[j].callback = tasks[j].callback
                               /\ tasks'[j].startTime = tasks[j].startTime
      <4> DEFINE n == [tasks[i] EXCEPT !.callback = FALSE]
      <4>1. n \in Task /\ ~n.callback /\ n.startTime = tasks[i].startTime
        BY <1>0 DEF Task
      <4>2. tasks' = [tasks EXCEPT ![i] = n]
        BY <3>1
      <4> HIDE DEF n
      <4>3. /\ Len(tasks') = Len(tasks) /\ tasks'[i] = n
            /\ \A j \in TaskId : j # i => tasks'[j] = tasks[j]
            /\ \A j \in TaskId : tasks'[j].startTime = tasks[j].startTime
        BY <1>0, <4>1, <4>2, SetCallback
      <4> QED
        BY <4>1, <4>3 DEF TaskId
    <3>3. /\ waitingTasks' = waitingTasks \ {i} /\ UNCHANGED <<now, runningTask, startTimes>>
      BY <3>1, <3>2 DEF waitingTasks, runningTask, startTimes
    <3>4. Execution!Cancel(i)
      BY <3>3 DEF Execution!Cancel, waitingTasks, runningTask, startTimes
    <3> QED
      BY <1>0, <3>4 DEF Execution!Next, Execution!Cancel, startTimes
  <2>4. ASSUME RequestPaint \/ \E f \in FrameIntervals : ForceFrameRate(f)
        PROVE  Invisible
    BY <2>4 DEF RequestPaint, ForceFrameRate, queueVars, loopVars, waitingTasks, runningTask,
                startTimes, TaskId
  <2> QED
    BY <1>1, <2>1, <2>2, <2>3, <2>4 DEF UserCode
<1>2. CASE TimeoutFires
  <2>1. /\ AdvanceTimers(tasks, taskQueue, now) /\ UNCHANGED <<now, pc, currentTask>>
    BY <1>2 DEF TimeoutFires, TaskTimeoutFires, OtherTimeoutFires, HandleTimeout, loopVars
  <2>2. runningTask' = runningTask
    BY <2>1 DEF runningTask
  <2> QED
    BY <2>1, <2>2, TimersMoveTasksStay, QueueStep
<1>3. CASE PerformWorkUntilDeadline
  <2>1. /\ AdvanceTimers(tasks, taskQueue, now) /\ UNCHANGED now
        /\ pc = "idle" /\ pc' # "callback"
    BY <1>3 DEF PerformWorkUntilDeadline, EnterLoop
  <2>2. runningTask' = runningTask
    BY <2>1 DEF runningTask
  <2> QED
    BY <2>1, <2>2, TimersMoveTasksStay, QueueStep
<1>4. CASE CallTask
  <2>1. /\ pc = "workLoop" /\ pc' = "callback" /\ UNCHANGED <<now, currentTask>>
        /\ tasks' = [tasks EXCEPT ![currentTask].callback = FALSE]
        /\ tasks[currentTask].callback
    BY <1>4 DEF CallTask
  <2>2. currentTask \in TaskId /\ currentTask \in taskQueue
    BY <2>1 DEF IndInv, LoopInv, TypeOK, IsPeek
  <2>3. tasks[currentTask].startTime <= now
    BY <2>2 DEF IndInv, NoTaskLost
  <2>4. /\ TaskId' = TaskId /\ ~tasks'[currentTask].callback
        /\ \A j \in TaskId : /\ j # currentTask => tasks'[j].callback = tasks[j].callback
                             /\ tasks'[j].startTime = tasks[j].startTime
    <3> DEFINE n == [tasks[currentTask] EXCEPT !.callback = FALSE]
    <3>1. n \in Task /\ ~n.callback /\ n.startTime = tasks[currentTask].startTime
      BY <1>0, <2>2 DEF Task
    <3>2. tasks' = [tasks EXCEPT ![currentTask] = n]
      BY <2>1
    <3> HIDE DEF n
    <3>3. /\ Len(tasks') = Len(tasks) /\ tasks'[currentTask] = n
          /\ \A j \in TaskId : j # currentTask => tasks'[j] = tasks[j]
          /\ \A j \in TaskId : tasks'[j].startTime = tasks[j].startTime
      BY <1>0, <2>2, <3>1, <3>2, SetCallback
    <3> QED
      BY <3>1, <3>3 DEF TaskId
  <2>5. /\ waitingTasks' = waitingTasks \ {currentTask}
        /\ currentTask \in waitingTasks
        /\ runningTask = {} /\ runningTask' = {currentTask}
        /\ startTimes' = startTimes /\ startTimes[currentTask] <= now
    BY <2>1, <2>2, <2>3, <2>4 DEF waitingTasks, runningTask, startTimes
  <2>6. Execution!Start(currentTask)
    BY <2>1, <2>5 DEF Execution!Start, waitingTasks, runningTask, startTimes
  <2> QED
    BY <1>0, <2>2, <2>6 DEF Execution!Next, Execution!Start, startTimes
<1>5. CASE YieldToHost \/ SkipTask \/ WorkLoopExit
  BY <1>5 DEF YieldToHost, SkipTask, NextTask, WorkLoopExit, LeaveWork, queueVars,
              waitingTasks, runningTask, startTimes, TaskId
<1>6. CASE TaskCompletes \/ TaskContinues \/ TaskThrows
  <2>1. /\ pc = "callback" /\ pc' # "callback" /\ UNCHANGED now /\ currentTask \in TaskId
    BY <1>6 DEF TaskCompletes, NextTask, TaskContinues, TaskThrows, LeaveWork, IndInv, TypeOK
  <2>2. /\ runningTask = {currentTask} /\ runningTask' = {}
    BY <2>1 DEF runningTask
  <2>3. /\ waitingTasks' \in {waitingTasks, waitingTasks \cup {currentTask}}
        /\ startTimes' = startTimes
    <3>1. CASE TaskCompletes
      <4>1. PICK queue \in SUBSET taskQueue : AdvanceTimers(tasks, queue, now)
        BY <3>1 DEF TaskCompletes
      <4> QED
        BY <4>1, TimersMoveTasksStay DEF waitingTasks, startTimes
    <3>2. CASE TaskThrows
      BY <3>2 DEF TaskThrows, queueVars, waitingTasks, startTimes, TaskId
    <3>3. CASE TaskContinues
      <4> DEFINE ts == [tasks EXCEPT ![currentTask].callback = TRUE]
      <4>1. /\ ts \in Seq(Task) /\ Len(ts) = Len(tasks) /\ ts[currentTask].callback
            /\ \A i \in TaskId : /\ i # currentTask => ts[i].callback = tasks[i].callback
                                 /\ ts[i].startTime = tasks[i].startTime
        <5> DEFINE n == [tasks[currentTask] EXCEPT !.callback = TRUE]
        <5>1. n \in Task /\ n.callback /\ n.startTime = tasks[currentTask].startTime
          BY <1>0, <2>1 DEF Task
        <5>2. ts = [tasks EXCEPT ![currentTask] = n]
          OBVIOUS
        <5> HIDE DEF n, ts
        <5>3. /\ ts \in Seq(Task) /\ Len(ts) = Len(tasks) /\ ts[currentTask] = n
              /\ \A j \in TaskId : j # currentTask => ts[j] = tasks[j]
              /\ \A j \in TaskId : ts[j].startTime = tasks[j].startTime
          BY <1>0, <2>1, <5>1, <5>2, SetCallback
        <5> QED
          BY <5>1, <5>3
      <4>2. AdvanceTimers(ts, taskQueue, now)
        BY <3>3 DEF TaskContinues
      <4> HIDE DEF ts
      <4>3. taskQueue \in SUBSET (1..Len(ts)) /\ timerQueue \in SUBSET (1..Len(ts))
        BY <4>1 DEF IndInv, TypeOK, TaskId
      <4>a. /\ Len(tasks') = Len(ts)
            /\ \A i \in 1..Len(ts) : /\ tasks'[i].callback = ts[i].callback
                                    /\ tasks'[i].startTime = ts[i].startTime
        <5>1. ts \in Seq(Task) /\ now \in Nat
          BY <1>0, <4>1
        <5> QED
          BY <4>2, <4>3, <5>1, AdvanceTimersMoves
      <4>4. /\ TaskId' = TaskId
            /\ \A i \in TaskId : /\ tasks'[i].callback = ts[i].callback
                                 /\ tasks'[i].startTime = ts[i].startTime
        BY <1>0, <4>1, <4>a DEF TaskId
      <4>5. startTimes' = startTimes
        BY <4>1, <4>4 DEF startTimes
      <4>6. waitingTasks' = waitingTasks \cup {currentTask}
        BY <2>1, <4>1, <4>4 DEF waitingTasks
      <4> QED
        BY <4>5, <4>6
    <3> QED
      BY <1>6, <3>1, <3>2, <3>3
  <2>4. Execution!Stop(currentTask)
    BY <2>1, <2>2, <2>3 DEF Execution!Stop, waitingTasks, runningTask, startTimes
  <2> QED
    BY <1>0, <2>1, <2>4 DEF Execution!Next, Execution!Stop, startTimes
<1>7. CASE Tick
  <2>1. Execution!TimePasses
    BY <1>7 DEF Tick, Execution!TimePasses, queueVars, loopVars, TaskId
  <2> QED
    BY <2>1 DEF Execution!Next
<1>8. CASE UNCHANGED vars
  BY <1>8 DEF vars, queueVars, loopVars, waitingTasks, runningTask, startTimes, TaskId
<1> QED
  BY <1>1, <1>2, <1>3, <1>4, <1>5, <1>6, <1>7, <1>8 DEF Next, WorkLoop, CallbackEnds

\* The Scheduler does what TaskExecution promises: no task starts early, none
\* preempts another, and a cancelled one is not started any more.
THEOREM Refinement == Spec => ImplementsTaskExecution
<1>1. Init => Execution!Init
  BY DEF Init, Execution!Init, TaskId
<1>2. IndInv /\ [Next]_vars => [Execution!Next]_(Execution!vars)
  BY StepRefines DEF Execution!vars, waitingTasks, runningTask, startTimes
<1> QED
  BY <1>1, <1>2, Invariance, PTL DEF Spec, Execution!Spec, ImplementsTaskExecution
=============================================================================
