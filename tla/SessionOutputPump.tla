-------------------------- MODULE SessionOutputPump --------------------------
(***************************************************************************)
(* The bounded pump between the transports' readers and the document       *)
(* (VT7.Host/SessionOutputPump.cs).  A reader takes a slot, queues its     *)
(* chunk under the lock and waits for the chunk's own completion; Drain,   *)
(* posted to the dispatcher whenever none is scheduled, takes chunks under *)
(* the lock and writes them to the document outside it.  CompleteAsync     *)
(* asks for the end of the stream, Dispose abandons what is queued, and    *)
(* the dispatcher may shut down under the pump.                            *)
(*                                                                         *)
(* Each origin has one reader with at most one WriteAsync in progress.     *)
(***************************************************************************)
EXTENDS DocumentStream, FiniteSets, Functions

CONSTANTS
    MaximumQueuedChunks,  \* slots of the pump (16 in the host)
    MaxSequence,          \* bound on the chunks one origin produces
    MaxBurst,             \* bound on the replies one chunk asks for
    MaxStreams            \* bound on the streams begun on the document

ASSUME PumpAssumption ==
    /\ MaximumQueuedChunks \in Nat \ {0}
    /\ MaxSequence \in Nat /\ MaxBurst \in Nat /\ MaxStreams \in Nat
    /\ IsFiniteSet(Origins)

VARIABLES
    writes,          \* _writes
    available,       \* _available, the count of the slot semaphore
    completion,      \* _completion, "None" until CompleteAsync makes it
    failure,         \* _failure # null
    accepting,       \* _accepting
    drainScheduled,  \* _drainScheduled
    disposed,        \* _disposed
    posted,          \* Drain callbacks waiting in the dispatcher's queue
    drain,           \* where the Drain running on the dispatcher stands
    current,         \* the chunk Drain has dequeued, or <<>>
    shutdown,        \* the dispatcher has begun to shut down
    caller,          \* where the WriteAsync of each origin stands
    sequence,        \* the sequence number of each origin's last chunk
    admitted         \* history: chunks in the order the lock admitted them

pumpVars == <<writes, available, completion, failure, accepting, drainScheduled,
              disposed, posted, drain, current, shutdown, caller, sequence, admitted>>
vars == <<pumpVars, documentVars>>

Generation == 1    \* _streamGeneration, from BeginStream in the constructor

ChunkOf(o) == [origin |-> o, seq |-> sequence[o]]
Origin(chunks) == {chunks[i].origin : i \in DOMAIN chunks}

\* The calls of the given origins end.
Returned(origins, outcome) ==
    [o \in Origins |-> IF o \in origins THEN outcome ELSE caller[o]]

Init ==
    /\ DocumentInit
    /\ writes = <<>> /\ available = MaximumQueuedChunks
    /\ completion = "None" /\ failure = FALSE /\ accepting = TRUE
    /\ drainScheduled = FALSE /\ disposed = FALSE
    /\ posted = 0 /\ drain = "Idle" /\ current = <<>> /\ shutdown = FALSE
    /\ caller = [o \in Origins |-> "Idle"] /\ sequence = [o \in Origins |-> 0]
    /\ admitted = <<>>

-----------------------------------------------------------------------------
(* WriteAsync, on a reader's thread. *)

Call(o) ==
    /\ caller[o] = "Idle" /\ sequence[o] < MaxSequence
    /\ caller' = [caller EXCEPT ![o] = "Waiting"]
    /\ sequence' = [sequence EXCEPT ![o] = @ + 1]
    /\ UNCHANGED <<writes, available, completion, failure, accepting, drainScheduled,
                   disposed, posted, drain, current, shutdown, admitted, documentVars>>

\* _available.WaitAsync
SlotFree == available > 0

AcquireSlot(o) ==
    /\ caller[o] = "Waiting" /\ SlotFree
    /\ available' = available - 1
    /\ caller' = [caller EXCEPT ![o] = "Entered"]
    /\ UNCHANGED <<writes, completion, failure, accepting, drainScheduled, disposed,
                   posted, drain, current, shutdown, sequence, admitted, documentVars>>

\* The reader's token ends the wait for a slot.
WaitCancelled(o) ==
    /\ caller[o] = "Waiting"
    /\ caller' = [caller EXCEPT ![o] = "Failed"]
    /\ UNCHANGED <<writes, available, completion, failure, accepting, drainScheduled,
                   disposed, posted, drain, current, shutdown, sequence, admitted,
                   documentVars>>

\* ScheduleDrainLocked throws, or posts Drain unless one is scheduled.
CannotSchedule == ~drainScheduled /\ shutdown
ScheduleDrainLocked ==
    /\ ~CannotSchedule
    /\ drainScheduled' = TRUE
    /\ posted' = IF drainScheduled THEN posted ELSE posted + 1

\* ThrowIfClosed.
ClosedUnlessDisposed == disposed
Closed == disposed \/ ~accepting

\* The catch block gives the slot back.
SlotLost == available
SlotReturned == available + 1

\* The locked part: queue the chunk and schedule Drain; if that throws the
\* head of the queue is dequeued and the call fails.
Enqueue(o) ==
    /\ caller[o] = "Entered"
    /\ \/ /\ ~Closed
          /\ ScheduleDrainLocked
          /\ writes' = Append(writes, ChunkOf(o))
          /\ admitted' = Append(admitted, ChunkOf(o))
          /\ caller' = [caller EXCEPT ![o] = "Awaiting"]
          /\ UNCHANGED available
       \/ /\ Closed \/ CannotSchedule
          /\ writes' = IF Closed THEN writes ELSE Tail(Append(writes, ChunkOf(o)))
          /\ available' = SlotReturned
          /\ caller' = [caller EXCEPT ![o] = "Failed"]
          /\ UNCHANGED <<drainScheduled, posted, admitted>>
    /\ UNCHANGED <<completion, failure, accepting, disposed, drain, current, shutdown,
                   sequence, documentVars>>

\* The reader goes on to its next chunk; after a failure it stops.
Return(o) ==
    /\ caller[o] = "Ok"
    /\ caller' = [caller EXCEPT ![o] = "Idle"]
    /\ UNCHANGED <<writes, available, completion, failure, accepting, drainScheduled,
                   disposed, posted, drain, current, shutdown, sequence, admitted,
                   documentVars>>

-----------------------------------------------------------------------------
(* CompleteAsync and Dispose, on any thread. *)

CompleteAsync ==
    /\ ~disposed /\ ~failure /\ completion = "None"
    /\ accepting' = FALSE
    /\ \/ /\ ScheduleDrainLocked
          /\ completion' = "Pending"
          /\ UNCHANGED failure
       \/ /\ CannotSchedule
          /\ completion' = "Exception"
          /\ failure' = TRUE
          /\ UNCHANGED <<drainScheduled, posted>>
    /\ UNCHANGED <<writes, available, disposed, drain, current, shutdown, caller,
                   sequence, admitted, documentVars>>

\* Fail and Dispose both empty the queue, fail its callers, give their slots
\* back and fail a completion still pending.
AbandonOnlyWrites ==
    /\ writes' = <<>>
    /\ available' = available + Len(writes)
    /\ caller' = Returned(Origin(writes), "Failed")
    /\ UNCHANGED completion
KeepAbandoned ==
    /\ writes' = <<>>
    /\ available' = available + Len(writes)
    /\ completion' = IF completion = "Pending" THEN "Exception" ELSE completion
    /\ UNCHANGED caller
AbandonWrites ==
    /\ writes' = <<>>
    /\ available' = available + Len(writes)
    /\ caller' = Returned(Origin(writes), "Failed")
    /\ completion' = IF completion = "Pending" THEN "Exception" ELSE completion

Dispose ==
    /\ ~disposed
    /\ disposed' = TRUE /\ accepting' = FALSE
    /\ AbandonWrites
    /\ UNCHANGED <<failure, drainScheduled, posted, drain, current, shutdown, sequence,
                   admitted, documentVars>>

-----------------------------------------------------------------------------
(* The dispatcher thread. *)

\* The dispatcher starts the posted Drain.
InvokeDrain ==
    /\ posted > 0 /\ drain = "Idle"
    /\ posted' = posted - 1
    /\ drain' = "Looping"
    /\ UNCHANGED <<writes, available, completion, failure, accepting, drainScheduled,
                   disposed, current, shutdown, caller, sequence, admitted, documentVars>>

DrainTakeStaysScheduled ==
    /\ drain = "Looping"
    /\ IF disposed \/ writes = <<>>
       THEN /\ drain' = IF ~disposed /\ ~accepting /\ completion # "None"
                        THEN "Ending" ELSE "Idle"
            /\ UNCHANGED <<writes, current>>
       ELSE /\ current' = <<Head(writes)>>
            /\ writes' = Tail(writes)
            /\ drain' = "Writing"
    /\ UNCHANGED <<available, completion, failure, accepting, drainScheduled, disposed,
                   posted, shutdown, caller, sequence, admitted, documentVars>>
\* The locked head of Drain's loop.
DrainTake ==
    /\ drain = "Looping"
    /\ IF disposed \/ writes = <<>>
       THEN /\ drainScheduled' = FALSE
            /\ drain' = IF ~disposed /\ ~accepting /\ completion # "None"
                        THEN "Ending" ELSE "Idle"
            /\ UNCHANGED <<writes, current>>
       ELSE /\ current' = <<Head(writes)>>
            /\ writes' = Tail(writes)
            /\ drain' = "Writing"
            /\ UNCHANGED drainScheduled
    /\ UNCHANGED <<available, completion, failure, accepting, disposed, posted, shutdown,
                   caller, sequence, admitted, documentVars>>

\* The document takes the chunk: its caller succeeds and the loop goes on;
DrainWrite(n) ==
    /\ drain = "Writing"
    /\ WriteSucceeds(Generation, current[1], n)
    /\ caller' = Returned(Origin(current), "Ok")
    /\ available' = available + 1
    /\ current' = <<>>
    /\ drain' = "Looping"
    /\ UNCHANGED <<writes, completion, failure, accepting, drainScheduled, disposed,
                   posted, shutdown, sequence, admitted>>

DrainWriteFailsQuietly(n) ==
    /\ drain = "Writing"
    /\ WriteFails(Generation, current[1], n)
    /\ caller' = Returned(Origin(current), "Ok")
    /\ available' = available + 1
    /\ current' = <<>>
    /\ drain' = "Failing"
    /\ UNCHANGED <<writes, completion, failure, accepting, drainScheduled, disposed,
                   posted, shutdown, sequence, admitted>>
\* or it throws: its caller fails, and then Fail is called.
DrainWriteFails(n) ==
    /\ drain = "Writing"
    /\ WriteFails(Generation, current[1], n)
    /\ caller' = Returned(Origin(current), "Failed")
    /\ available' = available + 1
    /\ current' = <<>>
    /\ drain' = "Failing"
    /\ UNCHANGED <<writes, completion, failure, accepting, drainScheduled, disposed,
                   posted, shutdown, sequence, admitted>>

FailKeepsAccepting ==
    /\ drain = "Failing"
    /\ failure' = TRUE /\ drainScheduled' = FALSE
    /\ AbandonWrites
    /\ drain' = "Idle"
    /\ UNCHANGED <<accepting, disposed, posted, current, shutdown, sequence, admitted,
                   documentVars>>
Fail ==
    /\ drain = "Failing"
    /\ accepting' = FALSE /\ failure' = TRUE /\ drainScheduled' = FALSE
    /\ AbandonWrites
    /\ drain' = "Idle"
    /\ UNCHANGED <<disposed, posted, current, shutdown, sequence, admitted, documentVars>>

\* The end of the stream, outside the lock; TrySetResult after a Dispose
\* that already failed the completion changes nothing.
DrainEnd ==
    /\ drain = "Ending"
    /\ \/ /\ EndDocumentStream(Generation)
          /\ completion' \in {IF completion = "Pending" THEN c ELSE completion :
                                 c \in {"Result", "Exception"}}
       \/ /\ Generation # streamGeneration
          /\ completion' = "Exception"
          /\ UNCHANGED documentVars
    /\ drain' = "Idle"
    /\ UNCHANGED <<writes, available, failure, accepting, drainScheduled, disposed,
                   posted, current, shutdown, caller, sequence, admitted>>

\* The session collects the replies between two Drains.
CollectReplies ==
    /\ drain = "Idle" /\ ~shutdown /\ replies # <<>>
    /\ DrainReplies
    /\ UNCHANGED pumpVars

\* A later session's pump begins its own stream on the document.
BeginStream ==
    /\ drain = "Idle" /\ ~shutdown /\ streamGeneration < MaxStreams
    /\ BeginDocumentStream
    /\ UNCHANGED pumpVars

\* The dispatcher stops and drops what is posted.
Shutdown ==
    /\ ~shutdown /\ drain = "Idle"
    /\ shutdown' = TRUE
    /\ posted' = 0
    /\ UNCHANGED <<writes, available, completion, failure, accepting, drainScheduled,
                   disposed, drain, current, caller, sequence, admitted, documentVars>>

Dispatcher ==
    \/ InvokeDrain \/ DrainTake \/ Fail \/ DrainEnd
    \/ \E n \in 0..MaxBurst : DrainWrite(n) \/ DrainWriteFails(n)

Reader(o) == AcquireSlot(o) \/ Enqueue(o)

Next ==
    \/ \E o \in Origins : Call(o) \/ Reader(o) \/ WaitCancelled(o) \/ Return(o)
    \/ CompleteAsync \/ Dispose
    \/ Dispatcher \/ CollectReplies \/ BeginStream \/ Shutdown

Spec == Init /\ [][Next]_vars

\* The dispatcher runs what is posted until it shuts down, and a thread that
\* holds or is offered a slot keeps running; the semaphore is fair to waiters.
FairSpec ==
    /\ Spec /\ WF_vars(Dispatcher)
    /\ \A o \in Origins : SF_vars(AcquireSlot(o)) /\ WF_vars(Enqueue(o))

-----------------------------------------------------------------------------
OwnStream == streamGeneration = Generation

\* Every slot is free or held by exactly one call, so no path of a failure,
\* a disposal or a refused schedule frees a slot twice or keeps one.
SlotsAccounted ==
    available + Cardinality({o \in Origins : caller[o] \in {"Entered", "Awaiting"}})
        = MaximumQueuedChunks

\* A call that waits for its chunk's completion has the chunk in the queue or
\* in Drain's hands: the Dequeue after a refused schedule, which removes the
\* head of the queue, never takes a chunk some other call waits for.
NoOrphan ==
    \A o \in Origins : caller[o] = "Awaiting" =>
        ChunkOf(o) \in Range(writes) \cup Range(current)

\* The document parses chunks in the order the lock admitted them, without
\* gaps, whatever fails or is disposed in between.
CommittedInOrder ==
    OwnStream => /\ Len(text) <= Len(admitted)
                 /\ \A i \in DOMAIN text : text[i] = admitted[i]

\* A reader that went on after its WriteAsync finds all its chunks parsed.
OkMeansCommitted ==
    OwnStream => \A o \in Origins : caller[o] \in {"Idle", "Ok"} =>
        \A k \in 1..sequence[o] : [origin |-> o, seq |-> k] \in Range(text)

\* CompleteAsync succeeds only after every admitted chunk was parsed and the
\* stream was ended.
EndMeansAllCommitted ==
    completion = "Result" /\ OwnStream => text = admitted /\ ~streamActive

\* A Drain that outlives its session writes nothing into the next stream.
NoStaleText == ~OwnStream => text = <<>>

\* What Drain commits is what WriteAsync and CompleteAsync tell their callers:
\* the four of them together, through failure, Dispose and a later stream.
OutputCommitted == CommittedInOrder /\ OkMeansCommitted /\ EndMeansAllCommitted /\ NoStaleText

\* Every call has its slot and its chunk, whichever of Drain, Fail, Dispose
\* and WriteAsync's catch block gives them up.
CallsAccounted == SlotsAccounted /\ NoOrphan

\* A reader's call gets its slot and returns, and the end of the stream comes,
\* unless the dispatcher stopped and nobody disposes the pump: no chunk waits
\* for a Drain that nobody has scheduled.
Stranded == shutdown /\ ~disposed
WriteReturns ==
    \A o \in Origins :
        caller[o] \in {"Waiting", "Entered", "Awaiting"} ~>
            caller[o] \notin {"Waiting", "Entered", "Awaiting"} \/ Stranded
\* CompleteAsync's task ends, by the same argument.
CompletionEnds == completion = "Pending" ~> completion # "Pending" \/ Stranded

\* Neither the readers' calls nor the completion wait for ever.
CallsReturn == WriteReturns /\ CompletionEnds
=============================================================================
