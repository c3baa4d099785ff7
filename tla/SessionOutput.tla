---------------------------- MODULE SessionOutput ----------------------------
(***************************************************************************)
(* AcceptOutputAsync of VT7.Host/TerminalSession.cs over the pump and the  *)
(* document: the reader of each transport writes a chunk through the pump, *)
(* then drains the replies the document has queued, for whichever origin,  *)
(* and writes each to the transport it belongs to, awaiting every write.   *)
(* The root and an overlay read at the same time.                          *)
(***************************************************************************)
EXTENDS SessionOutputPump

VARIABLES
    live,        \* whether the transport of each origin still takes writes
    forwarding,  \* whether the origin's reader is in AcceptOutput's foreach
    collected,   \* the replies that reader has still to forward
    received     \* history: replies transports were given, in order

replyVars == <<live, forwarding, collected, received>>
sessionVars == <<vars, replyVars>>

SessionInit ==
    /\ Init
    /\ live = [o \in Origins |-> TRUE]
    /\ forwarding = [o \in Origins |-> FALSE]
    /\ collected = [o \in Origins |-> <<>>]
    /\ received = <<>>

\* After its WriteAsync the reader drains the replies on the dispatcher.
Collect(o) ==
    /\ caller[o] = "Ok" /\ ~forwarding[o]
    /\ drain = "Idle" /\ ~shutdown
    /\ DrainReplies
    /\ forwarding' = [forwarding EXCEPT ![o] = TRUE]
    /\ collected' = [collected EXCEPT ![o] = replies]
    /\ UNCHANGED <<pumpVars, live, received>>

\* An exception leaves AcceptOutput and ends the reader.
Throw(o) ==
    /\ caller' = [caller EXCEPT ![o] = "Failed"]
    /\ forwarding' = [forwarding EXCEPT ![o] = FALSE]
    /\ collected' = [collected EXCEPT ![o] = <<>>]
    /\ UNCHANGED <<writes, available, completion, failure, accepting, drainScheduled,
                   disposed, posted, drain, current, shutdown, sequence, admitted,
                   documentVars, live, received>>

\* A dispatcher that has shut down cancels the drain.
CollectCancelled(o) ==
    /\ caller[o] = "Ok" /\ ~forwarding[o]
    /\ shutdown
    /\ Throw(o)

\* origin.WriteAsync(operation) takes the next reply,
Forward(o) ==
    /\ forwarding[o] /\ collected[o] # <<>>
    /\ live[Head(collected[o]).origin]
    /\ received' = Append(received, Head(collected[o]))
    /\ collected' = [collected EXCEPT ![o] = Tail(@)]
    /\ UNCHANGED <<vars, live, forwarding>>

\* or throws because that transport is no longer running.
ForwardThrows(o) ==
    /\ forwarding[o] /\ collected[o] # <<>>
    /\ ~live[Head(collected[o]).origin]
    /\ Throw(o)

\* AcceptOutput returns to the reader.
Accepted(o) ==
    /\ forwarding[o] /\ collected[o] = <<>>
    /\ Return(o)
    /\ forwarding' = [forwarding EXCEPT ![o] = FALSE]
    /\ UNCHANGED <<live, collected, received>>

\* A transport leaves Running: it is closed, its peer goes away, or its
\* reader has failed.
Stop(o) ==
    /\ live[o]
    /\ live' = [live EXCEPT ![o] = FALSE]
    /\ UNCHANGED <<vars, forwarding, collected, received>>

PumpStep ==
    /\ \/ \E o \in Origins :
            \/ live[o] /\ Call(o)
            \/ AcquireSlot(o) \/ Enqueue(o) \/ WaitCancelled(o)
       \/ CompleteAsync \/ Dispose \/ Dispatcher \/ Shutdown
    /\ UNCHANGED replyVars

AcceptOutput(o) ==
    Collect(o) \/ CollectCancelled(o) \/ Forward(o) \/ ForwardThrows(o) \/ Accepted(o)

SessionNext == PumpStep \/ \E o \in Origins : AcceptOutput(o) \/ Stop(o)

SessionSpec == SessionInit /\ [][SessionNext]_sessionVars

-----------------------------------------------------------------------------
\* A reply is in one place only: in the document, with one reader, or
\* received; so no transport sees an answer twice although every reader
\* drains the replies of all.
RepliesOnce ==
    LET inFlight == UNION {{<<o, i>> : i \in DOMAIN collected[o]} : o \in Origins}
        Number(p) == collected[p[1]][p[2]].seq
    IN  /\ \A i, j \in DOMAIN received : received[i].seq = received[j].seq => i = j
        /\ \A p, q \in inFlight : Number(p) = Number(q) => p = q
        /\ \A p \in inFlight : \A i \in DOMAIN received : Number(p) # received[i].seq
        /\ \A i \in DOMAIN replies :
             /\ \A p \in inFlight : Number(p) < replies[i].seq
             /\ \A j \in DOMAIN received : received[j].seq < replies[i].seq

\* Replies are accepted in one serialized order: each transport gets its
\* answers in the order the document produced them. It does not hold, and no
\* run checks it.
RepliesInOrder ==
    \A i, j \in DOMAIN received :
        i < j /\ received[i].origin = received[j].origin => received[i].seq < received[j].seq
=============================================================================
