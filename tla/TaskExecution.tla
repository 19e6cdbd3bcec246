--------------------------- MODULE TaskExecution ---------------------------
(***************************************************************************)
(* What the Scheduler promises the code that uses it, whatever the host    *)
(* does with its messages and timeouts: a scheduled task waits, it starts  *)
(* no earlier than its start time, tasks run one at a time and never       *)
(* preempt each other, a task that is cancelled while it waits is not      *)
(* started any more, and a task that asked to be continued waits again.    *)
(* Scheduler implements this module.                                       *)
(***************************************************************************)
EXTENDS Integers

VARIABLES time,     \* the clock
          waiting,  \* tasks that have a callback to be called
          running,  \* the set of tasks whose callback is on the stack
          startsAt  \* when each scheduled task may start, by the task

vars == <<time, waiting, running, startsAt>>

Init == /\ time = 0
        /\ waiting = {}
        /\ running = {}
        /\ startsAt = <<>>

TimePasses == time' = time + 1 /\ UNCHANGED <<waiting, running, startsAt>>

Schedule(t) ==
  /\ t \notin DOMAIN startsAt
  /\ DOMAIN startsAt' = DOMAIN startsAt \cup {t}
  /\ \A i \in DOMAIN startsAt : startsAt'[i] = startsAt[i]
  /\ startsAt'[t] >= time
  /\ waiting' = waiting \cup {t}
  /\ UNCHANGED <<time, running>>

Cancel(t) ==
  /\ waiting' = waiting \ {t}
  /\ UNCHANGED <<time, running, startsAt>>

Start(t) ==
  /\ running = {}
  /\ t \in waiting
  /\ startsAt[t] <= time
  /\ waiting' = waiting \ {t}
  /\ running' = {t}
  /\ UNCHANGED <<time, startsAt>>

Stop(t) ==
  /\ t \in running
  /\ running' = {}
  /\ waiting' \in {waiting, waiting \cup {t}}
  /\ UNCHANGED <<time, startsAt>>

Next == \/ TimePasses
        \/ \E t \in DOMAIN startsAt' : Schedule(t)
        \/ \E t \in DOMAIN startsAt : Cancel(t) \/ Start(t) \/ Stop(t)

Spec == Init /\ [][Next]_vars
=============================================================================
