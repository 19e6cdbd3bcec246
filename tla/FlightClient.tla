---------------------------- MODULE FlightClient ----------------------------
(***************************************************************************)
(* The client of a Flight stream (DevjsFlightClient.js).  The rows of a    *)
(* response arrive in any order; each resolves a chunk.  A model refers to *)
(* other chunks: a direct reference blocks it until the other chunk is     *)
(* there, a lazy one does not.  Chunks wait for each other in lists of     *)
(* listeners, and references that form a cycle are resolved early.         *)
(*                                                                         *)
(* One row makes the client parse, fulfil and reject as much as it can, in *)
(* one call: operators that take and return s, the state of the client.    *)
(* The rows are objects, errors and modules, and a reference is a slot of  *)
(* an object: text, streams, elements and paths into an object are left    *)
(* out.                                                                    *)
(***************************************************************************)
EXTENDS Naturals, Sequences, FiniteSets, SequencesExt, Relation

CONSTANTS
  Ids,           \* chunks
  Root,          \* the one that getRoot returns
  Responses,     \* for each response, the row of each id
  MaxListeners   \* bound on the calls of then

Kinds == {"model", "error", "module", "broken_module"}
Rows == [kind : Kinds, refs : Seq([to : Ids, lazy : BOOLEAN])]

ASSUME FlightClientAssumption ==
  /\ Root \in Ids
  /\ \A r \in Responses : DOMAIN r = Ids /\ \A i \in Ids : r[i] \in Rows
  /\ MaxListeners \in Nat

VARIABLES
  rows,       \* what the server sends
  received,   \* the ids whose row has arrived
  client,     \* the state of the client
  callbacks   \* how many were passed to then

vars == <<rows, received, client, callbacks>>

Listeners == 1..MaxListeners

-----------------------------------------------------------------------------
(* Chunks.  value and reason are the listeners while a chunk waits.  A     *)
(* listener is a callback of then, or a reference: the slot "key" of the   *)
(* model of chunk "of".  A model has one handler, which counts the slots   *)
(* to fill and gets its chunk when the model has been parsed.              *)

Chunk(status) == [status |-> status, value |-> <<>>, reason |-> <<>>]
Callback(n) == [callback |-> TRUE, of |-> n, key |-> 0]
Reference(i, k) == [callback |-> FALSE, of |-> i, key |-> k]

\* A slot holds nothing, or the object of a chunk.
Empty == {}

Status(s, i) == s.chunks[i].status
Waits(s, i) == Status(s, i) \in {"pending", "blocked"}

GetChunk(s, i) ==
  IF Status(s, i) # "none" THEN s
  ELSE [s EXCEPT !.chunks[i] = Chunk(IF s.closed THEN "rejected" ELSE "pending")]

AddListener(s, i, listener) ==
  [s EXCEPT !.chunks[i].value = Append(@, listener),
            !.chunks[i].reason = Append(@, listener)]

Call(s, n, outcome) == [s EXCEPT !.heard[n] = Append(@, outcome)]

-----------------------------------------------------------------------------
(* Settling chunks and waking those who listen *)

RECURSIVE WakeChunk(_, _, _), RejectChunk(_, _)

\* The slot is filled; with the last one the model is there.
FillSlot(s, ref, object) ==
  [s EXCEPT !.slots[ref.of][ref.key] = {object}, !.handlers[ref.of].deps = @ - 1]

\* Mutant: the last slot is not waited for.
IsFilledEarly(s, i) ==
  s.handlers[i].deps <= 1 /\ s.handlers[i].chunk /\ Status(s, i) = "blocked"

IsFilled(s, i) ==
  s.handlers[i].deps = 0 /\ s.handlers[i].chunk /\ Status(s, i) = "blocked"

FulfillReference(s, ref, object) ==
  LET i == ref.of
      s1 == FillSlot(s, ref, object)
  IN  IF IsFilled(s1, i)
        THEN WakeChunk([s1 EXCEPT !.chunks[i] = Chunk("fulfilled")], s.chunks[i].value, i)
        ELSE s1

WakeChunk(s, listeners, i) ==
  FoldLeft(LAMBDA t, l : IF l.callback THEN Call(t, l.of, "fulfilled")
                         ELSE FulfillReference(t, l, i),
           s, listeners)

TriggerErrorOnChunk(s, i) ==
  RejectChunk([s EXCEPT !.chunks[i].status = "rejected", !.chunks[i].reason = <<>>],
              s.chunks[i].reason)

RejectReference(s, i) ==
  LET s1 == [s EXCEPT !.handlers[i].errored = TRUE]
  IN  IF s.handlers[i].errored THEN s
      ELSE IF s.handlers[i].chunk /\ Status(s, i) = "blocked"
        THEN TriggerErrorOnChunk(s1, i)
        ELSE s1

RejectChunk(s, listeners) ==
  FoldLeft(LAMBDA t, l : IF l.callback THEN Call(t, l.of, "rejected")
                         ELSE RejectReference(t, l.of),
           s, listeners)

\* Mutant: only a reference of the chunk to itself is a cycle.
ResolveOwnCycle(s, i, ref) == s.handlers[ref.of].chunk /\ ref.of = i

\* resolveBlockedCycle: chunk i is waited for, directly or through others, by
\* the model of ref.
RECURSIVE ResolveBlockedCycle(_, _, _)
ResolveBlockedCycle(s, i, ref) ==
  /\ s.handlers[ref.of].chunk
  /\ \/ ref.of = i
     \/ \E k \in DOMAIN s.chunks[ref.of].value :
          LET l == s.chunks[ref.of].value[k]
          IN  ~l.callback /\ ResolveBlockedCycle(s, i, l)

\* Mutant: only a value is waited for.
WaitAgainForValue(s, i, value, reason) == [s EXCEPT !.chunks[i].value = @ \o value]

WaitAgain(s, i, value, reason) ==
  [s EXCEPT !.chunks[i].value = @ \o value, !.chunks[i].reason = @ \o reason]

\* The listeners of a chunk that has been initialized and is blocked, from the
\* k-th on: those in a cycle are fulfilled, the others wait again.
RECURSIVE WakeBlockedChunk(_, _, _, _, _)
WakeBlockedChunk(s, i, k, value, reason) ==
  IF k > Len(value)
    THEN WaitAgain(s, i, value, reason)
  ELSE IF value[k].callback \/ ~ResolveBlockedCycle(s, i, value[k])
    THEN WakeBlockedChunk(s, i, k + 1, value, reason)
  ELSE LET s1 == FulfillReference(s, value[k], i)
           value1 == RemoveAt(value, k)
           reason1 == RemoveFirst(reason, value[k])
       IN  CASE Status(s1, i) = "fulfilled" -> WakeChunk(s1, value1, i)
             [] Status(s1, i) = "rejected"  -> RejectChunk(s1, reason1)
             [] OTHER                       -> WakeBlockedChunk(s1, i, k, value1, reason1)

WakeChunkIfInitialized(s, i, value, reason) ==
  CASE Status(s, i) = "fulfilled" -> WakeChunk(s, value, i)
    [] Status(s, i) = "rejected"  -> RejectChunk(s, reason)
    [] Status(s, i) = "blocked"   -> WakeBlockedChunk(s, i, 1, value, reason)

-----------------------------------------------------------------------------
(* Initializing a chunk *)

InitializeModuleChunk(s, i) ==
  [s EXCEPT !.chunks[i] =
     Chunk(IF rows[i].kind = "module" THEN "fulfilled" ELSE "rejected")]

RECURSIVE InitializeModelChunk(_, _)

\* A chunk that is read is initialized.
Initialize(s, i) ==
  CASE Status(s, i) = "resolved_model"  -> InitializeModelChunk(s, i)
    [] Status(s, i) = "resolved_module" -> InitializeModuleChunk(s, i)
    [] OTHER                            -> s

WaitForReference(s, i, k, j) ==
  AddListener([s EXCEPT !.handlers[i].deps = @ + 1], j, Reference(i, k))

\* getOutlinedModel: the k-th slot of the model of i.
GetOutlinedModel(s, i, k) ==
  LET j == rows[i].refs[k].to
      s1 == Initialize(GetChunk(s, j), j)
  IN  CASE Status(s1, j) = "fulfilled" -> [s1 EXCEPT !.slots[i][k] = {j}]
        [] Status(s1, j) = "rejected"  -> [s1 EXCEPT !.handlers[i].errored = TRUE]
        [] Waits(s1, j)              -> WaitForReference(s1, i, k, j)

ParseModel(s, i) ==
  FoldLeftDomain(LAMBDA t, k : IF rows[i].refs[k].lazy
                                 THEN [GetChunk(t, rows[i].refs[k].to) EXCEPT
                                         !.slots[i][k] = {rows[i].refs[k].to}]
                                 ELSE GetOutlinedModel(t, i, k),
                 s, rows[i].refs)

\* While the model is parsed its chunk is blocked; whoever waits for it by then
\* is part of a cycle.
InitializeModelChunk(s, i) ==
  LET parsed == ParseModel([s EXCEPT !.chunks[i] = Chunk("blocked")], i)
      woken == WakeChunk([parsed EXCEPT !.chunks[i] = Chunk("blocked")],
                         parsed.chunks[i].value, i)
  IN  IF woken.handlers[i].errored
        THEN [woken EXCEPT !.chunks[i].status = "rejected"]
      ELSE IF woken.handlers[i].deps > 0
        THEN [woken EXCEPT !.handlers[i].chunk = TRUE]
      ELSE [woken EXCEPT !.chunks[i] = Chunk("fulfilled")]

\* Those who already wait make the model be parsed at once.
ResolveModelChunk(s, i) ==
  LET s1 == [s EXCEPT !.chunks[i] = Chunk("resolved_model")]
  IN  IF s.chunks[i].value = <<>> THEN s1
      ELSE WakeChunkIfInitialized(InitializeModelChunk(s1, i), i,
                                  s.chunks[i].value, s.chunks[i].reason)

ResolveModuleChunk(s, i) ==
  LET s1 == [s EXCEPT !.chunks[i] = Chunk("resolved_module")]
  IN  IF s.chunks[i].value = <<>> THEN s1
      ELSE WakeChunkIfInitialized(InitializeModuleChunk(s1, i), i,
                                  s.chunks[i].value, s.chunks[i].reason)

-----------------------------------------------------------------------------
(* The stream *)

\* A module is sent before the rows that refer to it.
IsModule(i) == rows[i].kind \in {"module", "broken_module"}
CanSend(i) ==
  /\ ~client.closed
  /\ i \notin received
  /\ \A k \in DOMAIN rows[i].refs :
       IsModule(rows[i].refs[k].to) => rows[i].refs[k].to \in received
  /\ IsModule(i) => Status(client, i) = "none"

ResolveModel(i) ==
  /\ CanSend(i) /\ rows[i].kind = "model"
  /\ client' = IF Status(client, i) = "none"
                 THEN [client EXCEPT !.chunks[i] = Chunk("resolved_model")]
                 ELSE ResolveModelChunk(client, i)
  /\ received' = received \cup {i}
  /\ UNCHANGED <<rows, callbacks>>

ResolveError(i) ==
  /\ CanSend(i) /\ rows[i].kind = "error"
  /\ client' = IF Status(client, i) = "none"
                 THEN [client EXCEPT !.chunks[i] = Chunk("rejected")]
                 ELSE TriggerErrorOnChunk(client, i)
  /\ received' = received \cup {i}
  /\ UNCHANGED <<rows, callbacks>>

\* A module that is not loaded yet is loaded; its chunk is blocked until then.
ResolveModule(i) ==
  /\ CanSend(i) /\ IsModule(i)
  /\ \E loaded \in BOOLEAN :
       client' = [client EXCEPT !.chunks[i] =
                    Chunk(IF loaded THEN "resolved_module" ELSE "blocked")]
  /\ received' = received \cup {i}
  /\ UNCHANGED <<rows, callbacks>>

Loading(i) == IsModule(i) /\ Status(client, i) = "blocked"

PreloadModule(i) ==
  /\ Loading(i)
  /\ \/ client' = ResolveModuleChunk(client, i)
     \/ client' = TriggerErrorOnChunk(client, i)
  /\ UNCHANGED <<rows, received, callbacks>>

\* Mutant: every chunk fails, whatever it has become.
ReportGlobalErrorToAll(s) ==
  FoldLeft(LAMBDA t, i : TriggerErrorOnChunk(t, i), [s EXCEPT !.closed = TRUE],
           SetToSeq(Ids))

\* The stream ends, or breaks, and what is pending will not arrive.
ReportGlobalError(s) ==
  FoldLeft(LAMBDA t, i : IF Status(t, i) = "pending" THEN TriggerErrorOnChunk(t, i) ELSE t,
           [s EXCEPT !.closed = TRUE], SetToSeq(Ids))

Close ==
  /\ ~client.closed
  /\ client' = ReportGlobalError(client)
  /\ UNCHANGED <<rows, received, callbacks>>

-----------------------------------------------------------------------------
(* The reader *)

\* The chunks that the application can get at.
Held ==
  {Root} \cup {i \in Ids : \E p \in Ids : Status(client, p) = "fulfilled" /\
                 \E k \in DOMAIN rows[p].refs :
                   rows[p].refs[k].to = i /\ rows[p].refs[k].lazy}

\* Reading a chunk, and listening to it when that throws, is then.
Then(i) ==
  /\ callbacks < MaxListeners
  /\ i \in Held
  /\ client' = LET s == Initialize(GetChunk(client, i), i)
               IN  IF Waits(s, i) THEN AddListener(s, i, Callback(callbacks + 1))
                   ELSE Call(s, callbacks + 1, Status(s, i))
  /\ callbacks' = callbacks + 1
  /\ UNCHANGED <<rows, received>>

-----------------------------------------------------------------------------
Init ==
  /\ rows \in Responses
  /\ received = {}
  /\ callbacks = 0
  /\ client = [chunks   |-> [i \in Ids |-> Chunk("none")],
               handlers |-> [i \in Ids |-> [chunk |-> FALSE, deps |-> 0, errored |-> FALSE]],
               slots    |-> [i \in Ids |-> [k \in DOMAIN rows[i].refs |-> Empty]],
               heard    |-> [n \in Listeners |-> <<>>],
               closed   |-> FALSE]

Next ==
  \/ \E i \in Ids : ResolveModel(i) \/ ResolveError(i) \/ ResolveModule(i) \/ PreloadModule(i)
  \/ \E i \in Ids : Then(i)
  \/ Close

Spec == Init /\ [][Next]_vars

-----------------------------------------------------------------------------
(* Properties *)

Direct(i) == {rows[i].refs[k].to : k \in {k \in DOMAIN rows[i].refs : ~rows[i].refs[k].lazy}}
DependsOn == TransitiveClosure([p \in Ids \X Ids |-> p[2] \in Direct(p[1])], Ids)
Dependencies(i) == {j \in Ids : DependsOn[i, j]}
InCycle(i) == i \in Dependencies(i)

\* A chunk has one of its states, a handler never counts below zero, and a slot
\* holds nothing or the chunk that it refers to, never another one of the cycle.
TypeOK ==
  /\ received \subseteq Ids
  /\ \A i \in Ids :
       /\ Status(client, i) \in {"none", "pending", "blocked", "resolved_model",
                                 "resolved_module", "fulfilled", "rejected"}
       /\ client.handlers[i].deps \in Nat
       /\ \A k \in DOMAIN client.slots[i] :
            client.slots[i][k] \subseteq {rows[i].refs[k].to}

\* A callback that was passed to then waits in both lists of one chunk, or has
\* been called once: however its chunk is parsed, blocked, resolved as part of a
\* cycle or rejected, it is neither dropped nor called twice.
Occurrences(list, l) == Cardinality({k \in DOMAIN list : list[k] = l})

WaitingIn(l) == {i \in Ids : Waits(client, i) /\ Occurrences(client.chunks[i].value, l) = 1
                                             /\ Occurrences(client.chunks[i].reason, l) = 1}

CallbacksAreKept ==
  \A n \in 1..callbacks :
    Len(client.heard[n]) + Cardinality(WaitingIn(Callback(n))) = 1

\* A model that is blocked counts its empty slots, and each of them waits in
\* one chunk that does not have its value yet.
EmptySlotsWait ==
  \A i \in Ids : client.handlers[i].chunk /\ Status(client, i) = "blocked" =>
    LET empty == {k \in DOMAIN client.slots[i] : client.slots[i][k] = Empty}
    IN  /\ client.handlers[i].deps = Cardinality(empty)
        /\ \A k \in empty : Cardinality(WaitingIn(Reference(i, k))) = 1

\* The lists of those who wait and the counts of what is missing agree.
Consistency ==
  /\ TypeOK
  /\ CallbacksAreKept
  /\ EmptySlotsWait

\* The application reads no hole: a value that is part of no cycle is complete,
\* and so is all that it refers to; in a cycle they are complete in the end,
\* unless one of them has failed.
Settled == client.closed /\ \A i \in Ids : ~Loading(i)

ReadValuesAreWhole ==
  \A i \in Ids :
    /\ Status(client, i) = "fulfilled"
    /\ \/ \A j \in Dependencies(i) : ~InCycle(j)
       \/ Settled /\ \A j \in Dependencies(i) : Status(client, j) # "rejected"
    => \A j \in {i} \cup Dependencies(i) :
         /\ Status(client, j) = "fulfilled"
         /\ \A k \in DOMAIN client.slots[j] : client.slots[j][k] = {rows[j].refs[k].to}

\* Nobody waits for ever: once the stream has ended and the modules have
\* loaded, every chunk that anybody asked for is settled, cycles included.
NobodyWaits ==
  Settled => \A i \in Ids : ~Waits(client, i)

\* What a chunk has become it stays: no error comes after a value was read, and
\* no value after an error.
SettledForGood ==
  [][\A i \in Ids : Status(client, i) \in {"fulfilled", "rejected"} =>
        Status(client', i) = Status(client, i)]_vars
=============================================================================
