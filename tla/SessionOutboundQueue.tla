------------------------ MODULE SessionOutboundQueue ------------------------
(***************************************************************************)
(* The bounded queue between the window's input (keys, paste, focus,       *)
(* resize, terminal replies) and one transport                             *)
(* (VT7.Host/SessionOutboundQueue.cs).  Callers enqueue under the queue's  *)
(* lock; one worker task takes an operation under the lock and awaits the  *)
(* sink outside it; CompleteAsync lets the worker drain; Dispose throws    *)
(* away what is pending and joins the worker.                              *)
(*                                                                         *)
(* An operation is its kind and its sequence number.  Six of the seven     *)
(* kinds are treated alike by the queue ("Input"); only "Resize" coalesces.*)
(***************************************************************************)
EXTENDS Integers, Sequences, Functions

CONSTANTS
    Capacity,      \* slots of the queue (256 in the host)
    Generation,    \* the transport generation this queue was made for
    Generations,   \* generations a caller may hold, stale ones included
    MaxSequence    \* bound on the operations offered in one behaviour

ASSUME QueueAssumption ==
    /\ Capacity \in Nat \ {0}
    /\ Generation \in Generations
    /\ MaxSequence \in Nat

VARIABLES
    pending,       \* _pending, the linked list of accepted operations
    slots,         \* _slots, the count of the free-slot semaphore
    available,     \* _available, the count of the work semaphore
    nextSequence,  \* _nextSequence
    accepting,     \* _accepting
    disposed,      \* _disposed; _cancel is cancelled in the same lock
    worker,        \* where the task running ProcessAsync stands
    writing,       \* the operation inside the sink's WriteAsync, or <<>>
    completion,    \* _completion
    released,      \* Dispose has joined the worker and freed the semaphores
    delivered,     \* history: operations whose WriteAsync returned
    told           \* history: operations callers were told are queued

callerVars == <<nextSequence, told>>
vars == <<pending, slots, available, nextSequence, accepting, disposed,
          worker, writing, completion, released, delivered, told>>

Kinds == {"Input", "Resize"}
Operation == [kind : Kinds, seq : Nat \ {0}]
WorkerStates == {"Waiting", "Taking", "Writing", "Draining", "Completing", "Done"}

Init ==
    /\ pending = <<>>
    /\ slots = Capacity
    /\ available = 0
    /\ nextSequence = 0
    /\ accepting = TRUE
    /\ disposed = FALSE
    /\ worker = "Waiting"
    /\ writing = <<>>
    /\ completion = "Pending"
    /\ released = FALSE
    /\ delivered = <<>>
    /\ told = <<>>

-----------------------------------------------------------------------------
(* Callers. *)

ReplaceLast(s, e) == [s EXCEPT ![Len(s)] = e]

\* AddLast: mutant, then the code.
AddLastInFront(s, e) == IF e.kind = "Resize" THEN <<e>> \o s ELSE Append(s, e)
AddLast(s, e) == Append(s, e)

\* _slots.Wait(0)
HasSlot == slots > 0

\* A resize offered while the newest pending operation is a resize.
CoalescesOntoAny(kind) ==
    kind = "Resize" /\ \E i \in DOMAIN pending : pending[i].kind = "Resize"
Coalesces(kind) ==
    /\ kind = "Resize"
    /\ pending # <<>>
    /\ pending[Len(pending)].kind = "Resize"

\* TryEnqueue.  Closed and StaleGeneration change nothing and are the two
\* guards; a refused Full attempt still consumes a sequence number.
TryEnqueue(generation, kind) ==
    LET op == [kind |-> kind, seq |-> nextSequence + 1] IN
    /\ nextSequence < MaxSequence
    /\ ~disposed /\ accepting
    /\ generation = Generation
    /\ nextSequence' = nextSequence + 1
    /\ \/ /\ Coalesces(kind)
          /\ pending' = ReplaceLast(pending, op)
          /\ told' = Append(told, op)
          /\ UNCHANGED <<slots, available>>
       \/ /\ ~Coalesces(kind) /\ HasSlot
          /\ pending' = AddLast(pending, op)
          /\ told' = Append(told, op)
          /\ slots' = slots - 1
          /\ available' = available + 1
       \/ /\ ~Coalesces(kind) /\ ~HasSlot
          /\ UNCHANGED <<pending, told, slots, available>>
    /\ UNCHANGED <<accepting, disposed, worker, writing, completion, released, delivered>>

CompleteAsyncSilently ==
    /\ ~disposed /\ accepting
    /\ accepting' = FALSE
    /\ UNCHANGED <<pending, slots, available, disposed, worker, writing, completion,
                   released, delivered, callerVars>>

\* CompleteAsync: the permit it releases wakes the worker on an empty list.
CompleteAsync ==
    /\ ~disposed /\ accepting
    /\ accepting' = FALSE
    /\ available' = available + 1
    /\ UNCHANGED <<pending, slots, disposed, worker, writing, completion,
                   released, delivered, callerVars>>

\* The locked part of Dispose.
Dispose ==
    /\ ~disposed
    /\ disposed' = TRUE
    /\ accepting' = FALSE
    /\ pending' = <<>>
    /\ available' = available + 1
    /\ UNCHANGED <<slots, worker, writing, completion, released, delivered, callerVars>>

\* Dispose returns from joining the worker and frees the semaphores.
DisposeJoined ==
    /\ disposed /\ ~released
    /\ worker = "Done"
    /\ released' = TRUE
    /\ UNCHANGED <<pending, slots, available, accepting, disposed, worker,
                   writing, completion, delivered, callerVars>>

-----------------------------------------------------------------------------
(* The worker (ProcessAsync). *)

\* TrySetResult, TrySetCanceled and TrySetException end the task; a fault
\* also stops acceptance.
Finish(outcome) ==
    /\ worker' = "Done"
    /\ completion' = outcome
    /\ accepting' = IF outcome = "Exception" THEN FALSE ELSE accepting
    /\ writing' = <<>>
    /\ UNCHANGED <<pending, slots, available, disposed, released, delivered, callerVars>>

\* WaitAsync hands over a permit.  A waiter already queued when Dispose
\* cancels may still win the permit Dispose releases.
AcquireAvailable ==
    /\ worker = "Waiting" /\ available > 0
    /\ available' = available - 1
    /\ worker' = "Taking"
    /\ UNCHANGED <<pending, slots, accepting, disposed, writing, completion,
                   released, delivered, callerVars>>

WaitCancelled ==
    /\ worker = "Waiting" /\ disposed
    /\ Finish("Canceled")

\* _slots.Release() for the operation taken.
SlotKept == slots
SlotReleased == slots + 1

\* The locked part of the loop body.
Take ==
    /\ worker = "Taking"
    /\ IF pending # <<>>
       THEN /\ writing' = <<Head(pending)>>
            /\ pending' = Tail(pending)
            /\ slots' = SlotReleased
            /\ worker' = "Writing"
       ELSE /\ worker' = IF accepting THEN "Waiting" ELSE "Draining"
            /\ UNCHANGED <<writing, pending, slots>>
    /\ UNCHANGED <<available, accepting, disposed, completion, released, delivered, callerVars>>

\* The sink's WriteAsync returns, throws, or observes the cancellation.
SinkWritten ==
    /\ worker = "Writing"
    /\ delivered' = delivered \o writing
    /\ writing' = <<>>
    /\ worker' = "Waiting"
    /\ UNCHANGED <<pending, slots, available, accepting, disposed, completion,
                   released, callerVars>>

SinkWriteFails ==
    /\ worker = "Writing"
    /\ Finish("Exception")

SinkWriteCancelled ==
    /\ worker = "Writing" /\ disposed
    /\ Finish("Canceled")

CallSinkCompleteUnchecked ==
    /\ worker = "Draining"
    /\ worker' = "Completing"
    /\ UNCHANGED <<pending, slots, available, accepting, disposed, writing,
                   completion, released, delivered, callerVars>>

\* The call of the sink's CompleteAsync: every sink first throws if the
\* token it is given is cancelled.
CallSinkComplete ==
    /\ worker = "Draining"
    /\ IF disposed
       THEN Finish("Canceled")
       ELSE /\ worker' = "Completing"
            /\ UNCHANGED <<pending, slots, available, accepting, disposed, writing,
                           completion, released, delivered, callerVars>>

\* It returns (also when Dispose arrived meanwhile), throws, or is cancelled.
SinkCompleted ==
    /\ worker = "Completing"
    /\ \/ Finish("Result")
       \/ Finish("Exception")
       \/ disposed /\ Finish("Canceled")

\* The worker's own steps, and the ends of the calls it awaits.
Worker == AcquireAvailable \/ WaitCancelled \/ Take \/ CallSinkComplete
Sink == SinkWritten \/ SinkWriteFails \/ SinkWriteCancelled \/ SinkCompleted

Next ==
    \/ \E generation \in Generations, kind \in Kinds : TryEnqueue(generation, kind)
    \/ CompleteAsync \/ Dispose \/ DisposeJoined
    \/ Worker \/ Sink

Spec == Init /\ [][Next]_vars

\* The thread pool keeps running the worker, and the thread inside Dispose
\* keeps running.  Nothing makes a sink return: a write into a full pipe or a
\* closed window waits for the peer, with a token it may never look at.
FairSpec == Spec /\ WF_vars(Worker) /\ WF_vars(DisposeJoined)

-----------------------------------------------------------------------------
TypeOK ==
    /\ pending \in Seq(Operation)
    /\ slots \in 0..Capacity
    /\ available \in Nat
    /\ nextSequence \in 0..MaxSequence
    /\ accepting \in BOOLEAN /\ disposed \in BOOLEAN /\ released \in BOOLEAN
    /\ worker \in WorkerStates
    /\ writing \in Seq(Operation)
    /\ completion \in {"Pending", "Result", "Canceled", "Exception"}
    /\ delivered \in Seq(Operation)
    /\ told \in Seq(Operation)

\* The i-th operation told is a resize directly followed by another resize:
\* the only operation a caller may find replaced.
Superseded(i) ==
    /\ told[i].kind = "Resize"
    /\ i + 1 \in DOMAIN told
    /\ told[i + 1].kind = "Resize"

Accounted(ops) == \A i \in DOMAIN told : told[i] \in ops \/ Superseded(i)

\* Until Dispose or a fault, every operation a caller was told is queued was
\* written, is being written or is pending; only a resize overtaken by the
\* very next accepted resize may be missing.
NothingLost ==
    ~disposed /\ completion # "Exception" =>
        Accounted(Range(delivered) \cup Range(writing) \cup Range(pending))

\* The sink sees operations in the order of their sequence numbers, each at
\* most once, whatever coalesces, fails or is disposed meanwhile.
InOrder ==
    \A i, j \in DOMAIN delivered : i < j => delivered[i].seq < delivered[j].seq

\* The drained task reports success only when every accepted operation was
\* written, even if Dispose raced with the drain.
SuccessMeansDelivered ==
    completion = "Result" => Accounted(Range(delivered))

\* The slot semaphore mirrors the list until Dispose clears it, so a full
\* queue opens up again.
SlotsMatch ==
    ~disposed => slots + Len(pending) = Capacity

\* What TryEnqueue and CompleteAsync tell a caller is true whatever coalesces,
\* fails, is cancelled or is disposed meanwhile: nothing accepted is lost,
\* repeated or overtaken, success is delivery, and room comes back.
QueueSound == NothingLost /\ InOrder /\ SuccessMeansDelivered /\ SlotsMatch

\* The semaphores are freed only after the worker has finished with them.
WorkerJoined ==
    released => worker = "Done"

\* No call of the sink's WriteAsync or CompleteAsync lasts for ever.
SinkReturns == []<>(worker \notin {"Writing", "Completing"})

\* A closing queue ends its task and lets Dispose return, unless the sink never
\* returns to the worker: neither CompleteAsync nor Dispose waits forever for a
\* worker asleep on the semaphore, whichever of them comes first.
ClosingEnds ==
    SinkReturns => /\ ~accepting ~> completion # "Pending"
                   /\ disposed ~> released
-----------------------------------------------------------------------------
Channel == INSTANCE OutboundChannel WITH
    Operation <- [kind : Kinds, seq : 1..MaxSequence]

\* The queue keeps the promise of an outbound channel: operations written in
\* the order accepted, only overtaken resizes skipped, success only when
\* drained, nothing after the end.
ImplementsChannel == Channel!Spec
=============================================================================
