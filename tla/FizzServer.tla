----------------------------- MODULE FizzServer -----------------------------
(***************************************************************************)
(* A request of the streaming server renderer (DevjsFizzServer.js).  The   *)
(* page is a tree of components and Suspense boundaries.  A component that *)
(* suspends gets a task and a segment of its own; a boundary whose content *)
(* is not there yet gets a task for its fallback.  What is complete is     *)
(* written while the rest is awaited, as fast as the destination takes it, *)
(* and abort() leaves the rest to the client.                              *)
(*                                                                         *)
(* The code is synchronous between its awaits and calls its own functions  *)
(* and the application's callbacks deeply: operators take and return s,    *)
(* the state of the request; s.thrown is what they throw.  Children are    *)
(* arrays.  Left out: prerenders and resuming, rows of SuspenseList,       *)
(* preambles, hoisted resources, deferred boundaries, boundaries in        *)
(* fallbacks.                                                              *)
(***************************************************************************)
EXTENDS Naturals, Sequences, FiniteSets, SequencesExt

CONSTANTS
  Leaves,      \* components without children
  Boundaries,  \* Suspense boundaries
  Pages,       \* what is rendered, and by which application
  MaxRoom      \* bound on what the destination takes at once

VARIABLES
  page,       \* content and fallback of each boundary, its size; see MCFizzServer
  component,  \* what rendering a component does now
  request     \* the state of the server

vars == <<page, component, request>>

Root == 0     \* the null boundary
Items == Leaves \cup Boundaries

ASSUME FizzServerAssumption ==
  /\ Root \notin Items /\ Leaves \cap Boundaries = {}
  /\ \A p \in Pages :
       /\ p.root \in Seq(Items)
       /\ \A b \in Boundaries :
            p.content[b] \in Seq(Items) /\ p.fallback[b] \in Seq(Leaves)

(* A segment is named by what is written to it; a task by its segment.     *)
RootSegment == <<"root", Root>>
Content(b) == <<"content", b>>
Fallback(b) == <<"fallback", b>>
Suspended(i) == <<"suspended", i>>
Tasks ==
  {RootSegment} \cup {Fallback(b) : b \in Boundaries} \cup {Suspended(i) : i \in Leaves}
Segments == Tasks \cup {Content(b) : b \in Boundaries}

NoId == <<"none", Root>>   \* an id is the name of the segment it was made for
Text(i) == <<"text", i>>   \* a chunk

\* The boundary in whose content, and the one in whose fallback, an item is.  An item
\* occurs once in a page.
Place(i) == IF \E b \in Boundaries : i \in ToSet(page.content[b])
              THEN CHOOSE b \in Boundaries : i \in ToSet(page.content[b]) ELSE Root
InFallback(i) == \E b \in Boundaries : i \in ToSet(page.fallback[b])
FallbackOf(i) == CHOOSE b \in Boundaries : i \in ToSet(page.fallback[b])

BlockedBoundary(t) ==
  CASE t[1] = "root"      -> Root
    [] t[1] = "fallback"  -> Place(t[2])
    [] t[1] = "suspended" -> IF InFallback(t[2]) THEN Place(FallbackOf(t[2])) ELSE Place(t[2])

\* A task is aborted with the request, or when the content of a boundary makes its
\* fallback unnecessary.
AbortSet(t) ==
  CASE t[1] = "root"      -> Root
    [] t[1] = "fallback"  -> t[2]
    [] t[1] = "suspended" -> IF InFallback(t[2]) THEN FallbackOf(t[2]) ELSE Root

IsEligibleForOutlining(b) == page.size[b] # "small"

NewSegment(status, boundary, parentFlushed) ==
  [status |-> status, boundary |-> boundary, parts |-> <<>>, id |-> NoId,
   parentFlushed |-> parentFlushed]
NewBoundary(status) ==
  [status |-> status, pendingTasks |-> 0, parentFlushed |-> FALSE,
   completedSegments |-> <<>>, fallbackAbortableTasks |-> <<>>, id |-> NoId]

NotThrown == "nothing"
Throw(s, what) == [s EXCEPT !.thrown = what]
IsThrown(s) == s.thrown # NotThrown
Then(s, Continue(_)) == IF IsThrown(s) THEN s ELSE Continue(s)

-----------------------------------------------------------------------------
(* Flushing.  The destination has room for some writes; one that it has no *)
(* room for is made all the same, and is the last of the flush.            *)

Write(s, kind, what) == [s EXCEPT !.output = Append(@, <<kind, what>>)]
WriteAndReturn(s, kind, what) ==
  [Write(s, kind, what) EXCEPT !.full = s.room = 0, !.room = IF @ = 0 THEN 0 ELSE @ - 1]

RECURSIVE FlushSegment(_, _)

FlushSubtree(s, t) ==
  LET s1 == [s EXCEPT !.segments[t].parentFlushed = TRUE]
      FlushPart(r, part) ==
        IF IsThrown(r) THEN r
        ELSE IF part[1] = "text" THEN Write(r, "text", part[2])
        ELSE FlushSegment(r, part)
  IN  CASE s.segments[t].status = "pending" ->
             Write([s1 EXCEPT !.segments[t].id = t], "placeholder", t)
        [] s.segments[t].status = "completed" ->
             FoldLeft(FlushPart, [s1 EXCEPT !.segments[t].status = "flushed"],
                      s.segments[t].parts)
        [] s.segments[t].status = "aborted" -> s1
        [] OTHER -> Throw(s1, "internal")

\* The fallback, in the wrapper of a boundary that is still to come.
FlushPending(s, b, t) ==
  FlushSubtree(Write([s EXCEPT !.boundaries[b].id = Content(b)], "pending", b), t)

FlushBoundary(s, b, t) ==
  LET boundary == s.boundaries[b]
      isOutlined == page.size[b] = "outlined" /\ ~s.flushingPartial
  IN  CASE boundary.status = "client" -> FlushSubtree(Write(s, "client", b), t)
        [] boundary.status = "pending" ->
             FlushPending(IF boundary.completedSegments = <<>> THEN s
                          ELSE [s EXCEPT !.partialBoundaries = Append(@, b)], b, t)
        [] boundary.status = "completed" /\ isOutlined ->
             FlushPending([s EXCEPT !.completedBoundaries = Append(@, b)], b, t)
        [] OTHER ->
             IF Len(boundary.completedSegments) = 1
               THEN FlushSegment(Write(s, "completed", b), boundary.completedSegments[1])
               ELSE Throw(Write(s, "completed", b), "internal")

FlushSegment(s, t) ==
  LET b == s.segments[t].boundary
  IN  IF b = Root THEN FlushSubtree(s, t)
      ELSE FlushBoundary([s EXCEPT !.segments[t].boundary = Root,
                                   !.boundaries[b].parentFlushed = TRUE], b, t)

FlushPartiallyCompletedSegment(s, b, t) ==
  LET id == IF s.segments[t].id = NoId THEN s.boundaries[b].id ELSE s.segments[t].id
      WriteInstruction(r) ==
        IF id = s.boundaries[b].id THEN WriteAndReturn(r, "root segment", b)
        ELSE WriteAndReturn(r, "segment", id)
  IN  IF s.segments[t].status = "flushed" THEN s
      ELSE IF id = NoId THEN Throw(s, "internal")
      ELSE Then(FlushSegment([s EXCEPT !.segments[t].id = id], t), WriteInstruction)

FlushClientRenderedBoundary(s, b) == WriteAndReturn(s, "client instruction", b)

\* Everything that is complete and was not written yet, and the instruction.
FlushCompletedBoundary(s, b) ==
  LET WriteInstruction(r) ==
        WriteAndReturn([r EXCEPT !.boundaries[b].completedSegments = <<>>], "complete", b)
      Flush(r, t) == IF IsThrown(r) THEN r ELSE FlushPartiallyCompletedSegment(r, b, t)
  IN  Then(FoldLeft(Flush, s, s.boundaries[b].completedSegments), WriteInstruction)

\* Segment by segment, as long as there is room.
FlushPartialBoundary(s, b) ==
  FoldLeft(LAMBDA r, t :
             IF IsThrown(r) \/ r.full THEN r
             ELSE FlushPartiallyCompletedSegment(
                    [r EXCEPT !.boundaries[b].completedSegments = Tail(@)], b, t),
           [s EXCEPT !.full = FALSE], s.boundaries[b].completedSegments)

(* The queues.  A queue may grow while it is flushed; one whose flush fails *)
(* keeps its boundaries.                                                    *)
RECURSIVE FlushClientRendered(_), FlushCompleted(_), FlushPartial(_)

FlushClientRendered(s) ==
  IF s.clientRenderedBoundaries = <<>> \/ s.full THEN s
  ELSE FlushClientRendered(
         FlushClientRenderedBoundary([s EXCEPT !.clientRenderedBoundaries = Tail(@)],
                                     Head(s.clientRenderedBoundaries)))

FlushCompleted(s) ==
  IF s.completedBoundaries = <<>> \/ s.full \/ IsThrown(s) THEN s
  ELSE Then(FlushCompletedBoundary(s, Head(s.completedBoundaries)),
            LAMBDA r : FlushCompleted([r EXCEPT !.completedBoundaries = Tail(@)]))

FlushPartial(s) ==
  IF s.partialBoundaries = <<>> \/ s.full \/ IsThrown(s) THEN s
  ELSE Then(FlushPartialBoundary(s, Head(s.partialBoundaries)),
            LAMBDA r : FlushPartial([r EXCEPT !.partialBoundaries = Tail(@)]))

FlushRoot(s) ==
  IF s.completedRootSegment
    THEN Then(FlushSegment(s, RootSegment), LAMBDA r : [r EXCEPT !.completedRootSegment = FALSE])
    ELSE s

FlushPartially(s) ==
  [FlushPartial([s EXCEPT !.flushingPartial = TRUE]) EXCEPT !.flushingPartial = FALSE]

FlushQueues(s) ==
  Then(FlushRoot(s),
       LAMBDA r : FlushCompleted(FlushPartially(FlushCompleted(FlushClientRendered(r)))))

\* Mutant: the stream is closed although boundaries wait to be written.
FlushEndForgetting(s) ==
  IF s.allPendingTasks = 0
    THEN [Write(s, "close", Root) EXCEPT !.status = "closed", !.flowing = FALSE]
    ELSE [s EXCEPT !.flowing = @ /\ ~s.full]

\* Mutant: the destination is kept although it is full, and not written to again.
FlushEndKeepingDestination(s) ==
  IF s.allPendingTasks = 0 /\ s.clientRenderedBoundaries = <<>> /\ s.completedBoundaries = <<>>
    THEN [Write(s, "close", Root) EXCEPT !.status = "closed", !.flowing = FALSE]
    ELSE s

\* The stream is closed when nothing is left, even by a flush that failed.
FlushEnd(s) ==
  IF s.allPendingTasks = 0 /\ s.clientRenderedBoundaries = <<>> /\ s.completedBoundaries = <<>>
    THEN [Write(s, "close", Root) EXCEPT !.status = "closed", !.flowing = FALSE]
    ELSE [s EXCEPT !.flowing = @ /\ ~s.full]

FlushCompletedQueues(s) ==
  LET s1 == [s EXCEPT !.full = FALSE]
  IN  FlushEnd(IF s.pendingRootTasks > 0 THEN s1 ELSE FlushQueues(s1))

FlushIfFlowing(s) == IF s.flowing THEN FlushCompletedQueues(s) ELSE s

-----------------------------------------------------------------------------
(* What the application hears, and where it may start to read.             *)

FatalError(s, what) ==
  LET s1 == [s EXCEPT !.failure = what,
                      !.heard = @ \o (IF "shellReady" \in ToSet(@) THEN <<>>
                                      ELSE <<"shellError">>) \o <<"fatalError">>]
  IN  IF s.flowing THEN [Write(s1, "error", Root) EXCEPT !.status = "closed"]
      ELSE [s1 EXCEPT !.status = "closing"]

\* What is thrown is an error of the renderer itself.
Caught(s) ==
  IF IsThrown(s) THEN FatalError([s EXCEPT !.thrown = NotThrown], "internal") ELSE s

StartFlowing(s) ==
  CASE s.status = "closing" -> [Write(s, "error", Root) EXCEPT !.status = "closed"]
    [] s.status = "closed" \/ s.flowing -> s
    [] OTHER -> Caught(FlushCompletedQueues([s EXCEPT !.flowing = TRUE]))

\* The application pipes the request at once, when it is ready, or another time.
Hear(s, callback) ==
  LET s1 == [s EXCEPT !.heard = Append(@, callback)]
  IN  IF page.pipeOn = callback THEN StartFlowing([s1 EXCEPT !.piped = TRUE]) ELSE s1

CompleteShell(s) == Hear(s, "shellReady")
CompleteAll(s) == Hear(s, "allReady")
CompleteAllIfDone(s) == IF s.allPendingTasks = 0 THEN CompleteAll(s) ELSE s

-----------------------------------------------------------------------------
(* Tasks *)

CreateRenderTask(s, t) ==
  LET b == BlockedBoundary(t)
      s1 == [s EXCEPT !.allPendingTasks = @ + 1]
      s2 == IF b = Root THEN [s1 EXCEPT !.pendingRootTasks = @ + 1]
            ELSE [s1 EXCEPT !.boundaries[b].pendingTasks = @ + 1]
  IN  IF AbortSet(t) = Root THEN [s2 EXCEPT !.abortableTasks = Append(@, t)]
      ELSE [s2 EXCEPT !.boundaries[AbortSet(t)].fallbackAbortableTasks = Append(@, t)]

\* Mutant: a task that is done can still be aborted.
DeleteFromNoAbortSet(s, t) == s

DeleteFromAbortSet(s, t) ==
  LET Others(tasks) == SelectSeq(tasks, LAMBDA u : u # t)
  IN  IF AbortSet(t) = Root THEN [s EXCEPT !.abortableTasks = Others(@)]
      ELSE [s EXCEPT !.boundaries[AbortSet(t)].fallbackAbortableTasks = Others(@)]

\* The first ping schedules work for all that follow.
PingTask(s, t) ==
  [s EXCEPT !.pingedTasks = Append(@, t), !.scheduled = @ \/ s.pingedTasks = <<>>]

\* An empty segment hands its place over to its only child.
RECURSIVE QueueCompletedSegment(_, _, _)
QueueCompletedSegment(s, b, t) ==
  LET segment == s.segments[t]
      child == segment.parts[1]
      s1 == [s EXCEPT !.segments[child].id = segment.id, !.segments[child].parentFlushed = TRUE]
  IN  IF /\ Len(segment.parts) = 1 /\ child[1] # "text"
         /\ s.segments[child].boundary = Root /\ s.segments[child].id = NoId
        THEN IF s.segments[child].status \in {"completed", "aborted", "errored"}
               THEN QueueCompletedSegment(s1, b, child) ELSE s1
        ELSE [s EXCEPT !.boundaries[b].completedSegments = Append(@, t)]

\* A segment whose parent was written is to be written on its own.
QueueSegment(s, b, t) ==
  IF s.segments[t].parentFlushed /\ s.segments[t].status \in {"completed", "aborted"}
    THEN QueueCompletedSegment(s, b, t) ELSE s

FinishedRootTask(s, t) ==
  LET s1 == [s EXCEPT !.completedRootSegment = @ \/ s.segments[t].parentFlushed,
                      !.pendingRootTasks = @ - 1]
  IN  IF s1.pendingRootTasks = 0 THEN CompleteShell(s1) ELSE s1

\* Some of the content is there: it is written ahead of the rest.
FinishedPart(s, b, t) ==
  LET s1 == QueueSegment(s, b, t)
  IN  IF s1 # s /\ Len(s1.boundaries[b].completedSegments) = 1 /\ s.boundaries[b].parentFlushed
        THEN [s1 EXCEPT !.partialBoundaries = Append(@, b)] ELSE s1

RECURSIVE FinishedTask(_, _)

\* The fallback is not needed any more, unless the content may be outlined.
AbortFallback(s, b) ==
  LET AbortTaskSoft(r, t) == FinishedTask([r EXCEPT !.segments[t].status = "aborted"], t)
  IN  [FoldLeft(AbortTaskSoft, s, s.boundaries[b].fallbackAbortableTasks)
         EXCEPT !.boundaries[b].fallbackAbortableTasks = <<>>]

FinishedContent(s, b, t) ==
  LET s1 == QueueSegment([s EXCEPT !.boundaries[b].status = "completed"], b, t)
      s2 == IF s.boundaries[b].parentFlushed
              THEN [s1 EXCEPT !.completedBoundaries = Append(@, b)] ELSE s1
  IN  IF IsEligibleForOutlining(b) THEN s2 ELSE AbortFallback(s2, b)

FinishedTask(s, t) ==
  LET b == BlockedBoundary(t)
      s1 == [s EXCEPT !.allPendingTasks = @ - 1]
      s2 == [s1 EXCEPT !.boundaries[b].pendingTasks = @ - 1]
  IN  CompleteAllIfDone(
        IF b = Root THEN FinishedRootTask(s1, t)
        ELSE IF s.boundaries[b].status = "client" THEN s2
        ELSE IF s2.boundaries[b].pendingTasks = 0 THEN FinishedContent(s2, b, t)
        ELSE FinishedPart(s2, b, t))

\* Mutant: the client is told in any case.
ClientRenderAnyway(s, b) ==
  [s EXCEPT !.boundaries[b].status = "client",
            !.clientRenderedBoundaries =
              IF s.boundaries[b].status # "client" THEN Append(@, b) ELSE @]

\* The client is to render the boundary; it is told so if it knows of it.
ClientRender(s, b) ==
  LET s1 == [s EXCEPT !.boundaries[b].status = "client"]
  IN  IF s.boundaries[b].status # "client" /\ s.boundaries[b].parentFlushed
        THEN [s1 EXCEPT !.clientRenderedBoundaries = Append(@, b)] ELSE s1

ErroredTask(s, t) ==
  LET b == BlockedBoundary(t)
      s1 == [s EXCEPT !.allPendingTasks = @ - 1]
  IN  CompleteAllIfDone(
        IF b = Root THEN FatalError(s1, "error")
        ELSE ClientRender([s1 EXCEPT !.boundaries[b].pendingTasks = @ - 1], b))

\* A task that is being rendered is aborted by its own rendering.
RECURSIVE AbortTask(_, _)
AbortTask(s, t) ==
  LET b == BlockedBoundary(t)
      s1 == [s EXCEPT !.segments[t].status = "aborted"]
      s2 == ClientRender([s1 EXCEPT !.boundaries[b].pendingTasks = @ - 1], b)
      s3 == [FoldLeft(AbortTask, s2, s2.boundaries[b].fallbackAbortableTasks)
               EXCEPT !.boundaries[b].fallbackAbortableTasks = <<>>]
  IN  IF s.segments[t].status = "rendering" THEN s
      ELSE IF b = Root /\ s.status \notin {"closing", "closed"} THEN FatalError(s1, "abort")
      ELSE CompleteAllIfDone([(IF b = Root THEN s1 ELSE s3) EXCEPT !.allPendingTasks = @ - 1])

Abort(s) ==
  LET s1 == IF s.status = "open" THEN [s EXCEPT !.status = "aborting"] ELSE s
  IN  Caught(FlushIfFlowing(
        [FoldLeft(AbortTask, s1, s1.abortableTasks) EXCEPT !.abortableTasks = <<>>]))

-----------------------------------------------------------------------------
(* Rendering *)

SpawnNewSuspendedTask(s, segment, i) ==
  CreateRenderTask(
    [s EXCEPT !.segments[segment].parts = Append(@, Suspended(i)),
              !.segments[Suspended(i)] = NewSegment("pending", Root, FALSE),
              !.listening = @ \cup {i}],
    Suspended(i))

\* A component returns, suspends, fails, or calls abort() and fails.
RenderComponent(s, segment, i) ==
  CASE component[i] = "ready"   -> [s EXCEPT !.segments[segment].parts = Append(@, Text(i))]
    [] component[i] = "pending" -> Throw(s, "suspense")
    [] component[i] = "failed"  -> Throw(s, "error")
    [] component[i] = "aborts"  -> Throw(Abort(s), "error")

RECURSIVE RenderNode(_, _, _)
RenderChildren(s, segment, children) ==
  FoldLeft(LAMBDA r, i : IF IsThrown(r) THEN r ELSE RenderNode(r, segment, i), s, children)

\* The fallback is rendered later, if it is needed.
FinishBoundary(s, b) ==
  LET finished == QueueCompletedSegment(
                    [s EXCEPT !.segments[Content(b)].status = "completed"], b, Content(b))
      isComplete == s.boundaries[b].pendingTasks = 0 /\ s.boundaries[b].status = "pending"
      completed == [finished EXCEPT !.boundaries[b].status = "completed"]
      failed == [s EXCEPT !.segments[Content(b)].status =
                            IF s.status = "aborting" THEN "aborted" ELSE "errored",
                          !.segments[Content(b)].parts = <<>>,
                          !.boundaries[b].status = "client",
                          !.thrown = NotThrown]
  IN  IF ~IsThrown(s) /\ isComplete /\ ~IsEligibleForOutlining(b) THEN completed
      ELSE [CreateRenderTask(IF IsThrown(s) THEN failed
                             ELSE IF isComplete THEN completed ELSE finished, Fallback(b))
              EXCEPT !.pingedTasks = Append(@, Fallback(b))]

\* The content is rendered at once.
RenderSuspenseBoundary(s, segment, b) ==
  FinishBoundary(
    RenderChildren([s EXCEPT !.segments[segment].parts = Append(@, Fallback(b)),
                             !.segments[Fallback(b)] = NewSegment("pending", b, FALSE),
                             !.segments[Content(b)] = NewSegment("rendering", Root, TRUE),
                             !.boundaries[b] = NewBoundary("pending")],
                   Content(b), page.content[b]), b)

RenderNode(s, segment, i) ==
  IF i \in Boundaries THEN RenderSuspenseBoundary(s, segment, i)
  ELSE IF component[i] # "pending" THEN RenderComponent(s, segment, i)
  ELSE IF s.status = "aborting" THEN Throw(s, "error")
  ELSE SpawnNewSuspendedTask(s, segment, i)

RenderTask(s, t) ==
  IF t[1] = "suspended" THEN RenderComponent(s, t, t[2])
  ELSE RenderChildren(s, t, IF t[1] = "root" THEN page.root ELSE page.fallback[t[2]])

\* s is the state before the task was rendered, rendered the one after.
EndRenderTask(s, rendered, t) ==
  LET s1 == [DeleteFromAbortSet(rendered, t) EXCEPT !.thrown = NotThrown]
  IN  IF rendered.thrown = "suspense" THEN [s EXCEPT !.listening = @ \cup {t[2]}]
      ELSE IF IsThrown(rendered)
        THEN ErroredTask([s1 EXCEPT !.segments[t].status = "errored",
                                    !.segments[t].parts = <<>>], t)
      ELSE FinishedTask([s1 EXCEPT !.segments[t].status = "completed"], t)

\* A component that suspends again keeps its task.
RetryRenderTask(s, t) ==
  IF s.segments[t].status # "pending" THEN s
  ELSE EndRenderTask(s, RenderTask([s EXCEPT !.segments[t].status = "rendering"], t), t)

\* Rendering may ping more tasks.
RECURSIVE RetryTasks(_, _)
RetryTasks(s, n) ==
  IF n > Len(s.pingedTasks) THEN [s EXCEPT !.pingedTasks = <<>>]
  ELSE RetryTasks(RetryRenderTask(s, s.pingedTasks[n]), n + 1)

-----------------------------------------------------------------------------
(* Each action may flush: room is for how many writes its destination has. *)

AtRest(s) == [s EXCEPT !.room = 0, !.full = FALSE]

\* No work is done for a request that has failed.
PerformWork(room) ==
  LET start == [request EXCEPT !.scheduled = FALSE, !.room = room]
  IN  /\ request.scheduled
      /\ request' = AtRest(
           IF request.status \in {"closing", "closed"} THEN start
           ELSE Caught(FlushIfFlowing(RetryTasks(start, 1))))
      /\ UNCHANGED <<page, component>>

\* What a component waits for arrives, and may not be the last it waits for.
Settle(i, outcome) ==
  /\ component[i] = "pending"
  /\ outcome = "pending" => i \in request.listening
  /\ component' = [component EXCEPT ![i] = outcome]
  /\ request' = IF i \in request.listening
                  THEN PingTask([request EXCEPT !.listening = @ \ {i}], Suspended(i))
                  ELSE request
  /\ UNCHANGED page

\* The application pipes the request, or its destination has drained.
CanPipe ==
  /\ request.piped \/ page.pipeOn = "later"
  /\ ~request.flowing
  /\ request.status # "closed"

Pipe(room) ==
  /\ CanPipe
  /\ request' = AtRest(StartFlowing([request EXCEPT !.piped = TRUE, !.room = room]))
  /\ UNCHANGED <<page, component>>

AbortRequest(room) ==
  /\ request.status = "open"
  /\ request' = AtRest(Abort([request EXCEPT !.room = room]))
  /\ UNCHANGED <<page, component>>

Init ==
  /\ page \in Pages
  /\ component \in [Leaves -> {"ready", "pending", "failed", "aborts"}]
  /\ request = CreateRenderTask(
       [status |-> "open", failure |-> "none", thrown |-> NotThrown,
        allPendingTasks |-> 0, pendingRootTasks |-> 0,
        segments |-> [t \in Segments |-> IF t = RootSegment THEN NewSegment("pending", Root, TRUE)
                                         ELSE NewSegment("none", Root, FALSE)],
        boundaries |-> [b \in Boundaries |-> NewBoundary("none")],
        abortableTasks |-> <<>>, pingedTasks |-> <<RootSegment>>, listening |-> {},
        completedRootSegment |-> FALSE, clientRenderedBoundaries |-> <<>>,
        completedBoundaries |-> <<>>, partialBoundaries |-> <<>>, flushingPartial |-> FALSE,
        scheduled |-> TRUE, piped |-> FALSE, flowing |-> FALSE, room |-> 0, full |-> FALSE,
        heard |-> <<>>, output |-> <<>>], RootSegment)

Next ==
  \/ \E room \in 0..MaxRoom : PerformWork(room) \/ Pipe(room) \/ AbortRequest(room)
  \/ \E i \in Leaves, outcome \in {"ready", "failed", "pending"} : Settle(i, outcome)

Spec == Init /\ [][Next]_vars

\* The host runs its tasks, what is awaited arrives in the end, the application pipes
\* the request and the destination drains.  Nobody has to abort.  The first two are
\* WF_vars, written out with the conditions that enable the actions, which always
\* change the request.
FairSpec ==
  /\ Spec
  /\ []<>~request.scheduled \/ []<><<\E room \in 0..MaxRoom : PerformWork(room)>>_vars
  /\ []<>~CanPipe \/ []<><<\E room \in 0..MaxRoom : Pipe(room)>>_vars
  /\ \A i \in Leaves : SF_vars(\E outcome \in {"ready", "failed"} : Settle(i, outcome))

-----------------------------------------------------------------------------
(* Properties *)

IsDone(status) == status \in {"closing", "closed"}
Live(t) == /\ request.segments[t].status = "pending"
           /\ t[1] = "fallback" => t \in ToSet(request.boundaries[t[2]].fallbackAbortableTasks)
BlockedOn(b) == {t \in Tasks : Live(t) /\ BlockedBoundary(t) = b}

TypeOK ==
  /\ request.status \in {"open", "aborting", "closing", "closed"}
  /\ request.thrown = NotThrown /\ ~request.flushingPartial
  /\ \A t \in Segments : request.segments[t].status \in
       {"none", "pending", "completed", "flushed", "aborted", "errored"}
  /\ \A b \in Boundaries : request.boundaries[b].status \in
       {"none", "pending", "completed", "client"}
  /\ request.allPendingTasks \in Nat /\ request.pendingRootTasks \in Nat

\* The counters, which a dozen places change, count the tasks that are to come.
TasksAreCounted ==
  request.failure = "none" =>
    /\ request.allPendingTasks = Cardinality({t \in Tasks : Live(t)})
    /\ request.pendingRootTasks = Cardinality(BlockedOn(Root))
    /\ \A b \in Boundaries :
         request.boundaries[b].pendingTasks = Cardinality(BlockedOn(b))

\* A task that is to come waits for data or for work that is scheduled, and
\* those that abort() would end are to come.
TasksAreWaitedFor ==
  /\ \A t \in Tasks : Live(t) =>
       t \in ToSet(request.pingedTasks) \/ t \in {Suspended(i) : i \in request.listening}
  /\ request.pingedTasks # <<>> /\ ~IsDone(request.status) => request.scheduled
  /\ ToSet(request.abortableTasks) \subseteq {t \in Tasks : Live(t)}

\* The request knows what is left to do, however tasks spawn, finish, fail and are aborted.
Consistency ==
  /\ TypeOK
  /\ TasksAreCounted
  /\ TasksAreWaitedFor

Times(kind, what) ==
  Cardinality({n \in DOMAIN request.output : request.output[n] = <<kind, what>>})
Before(n, kind, what) == \E m \in 1..(n - 1) : request.output[m] = <<kind, what>>

\* What is written can be put in its place when it arrives: the placeholder and the
\* wrapper have been written before, and nothing is written a second time.
InstructionsHaveTargets ==
  \A n \in DOMAIN request.output :
    LET kind == request.output[n][1]
        what == request.output[n][2]
    IN  /\ kind = "segment" => Before(n, "placeholder", what)
        /\ kind \in {"root segment", "client instruction"} => Before(n, "pending", what)
        /\ kind = "complete" => Before(n, "root segment", what)
        /\ kind \in {"text", "segment", "root segment", "complete", "client instruction"} =>
             Times(kind, what) = 1
        /\ kind \in {"pending", "completed", "client"} =>
             Times("pending", what) + Times("completed", what) + Times("client", what) = 1

\* When the stream ends, the page is whole: of every boundary that it shows it has all
\* of the content, or all of the fallback and the instruction to render it.
Delivered(b) == Times("completed", b) + Times("complete", b) = 1
LeftToClient(b) == Times("client", b) + Times("client instruction", b) = 1

IsWhole(i) ==
  IF i \in Boundaries
    THEN /\ Delivered(i) # LeftToClient(i)
         /\ LeftToClient(i) => \A f \in ToSet(page.fallback[i]) : Times("text", f) = 1
    ELSE /\ Times("text", i) = 1
         /\ Times("placeholder", Suspended(i)) = Times("segment", Suspended(i))

PageIsWhole ==
  request.status = "closed" /\ request.failure = "none" =>
    /\ \A i \in ToSet(page.root) : IsWhole(i)
    /\ \A b \in Boundaries : Delivered(b) => \A i \in ToSet(page.content[b]) : IsWhole(i)

\* Every request ends, whatever suspends, fails or is aborted, and however often the
\* destination is full.
EveryRequestEnds == <>IsDone(request.status)

(* What an error message in the source says cannot happen *)

\* "Aborted, errored or already flushed boundaries should not be flushed again. This is
\* a bug in Devjs."
NoInternalError == request.failure # "internal"
=============================================================================
