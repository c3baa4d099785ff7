--------------------------- MODULE SshNetTransport ---------------------------
(***************************************************************************)
(* The life of an SSH connection (VT7.Host/SshNetTransport.cs) with the    *)
(* threads that may end it: StartCoreAsync, whose phases are in            *)
(* SshStartupDeadline; the reader of the shell's output; the writers; the  *)
(* one CloseCoreAsync that every caller of CloseAsync joins; and Dispose.  *)
(* All but the last end it in FinishAsync, one at a time.  A step is the   *)
(* code between two awaits, or a lock's critical section.                  *)
(***************************************************************************)
CONSTANTS
    Writers,   \* threads that write: the queue's worker, readers with replies
    Worker,    \* the queue's worker, which also flushes
    CloseReasons \* the reasons that callers of CloseAsync give

NoOne == "NoOne"
Finishers == {"Start", "Reader", "Close"} \cup Writers

\* Why a session is closed: a profile is changed, the window or a person
\* closes it, or the session's monitor has seen it fail.
TerminalCloseReason == {"Normal", "Replaced", "Cancelled", "Failed"}

SshAssumption ==
    /\ Writers \cap {NoOne, "Start", "Reader", "Close"} = {}
    /\ CloseReasons \subseteq TerminalCloseReason

VARIABLES
    State,        \* State
    result,       \* _completion: "None" or the result's kind
    closeReason,  \* _closeReason, "None" for null
    lifetime,     \* _lifetime is cancelled
    callerToken,  \* the token StartAsync was given is cancelled
    owned,        \* what is open: "Secret" (_options), "Client", "Stream"
    writeGate,    \* who holds _writeGate
    finishGate,   \* who holds _finishGate
    cleanup,      \* the holder's place in FinishAsync
    failed,       \* its failed
    ending,       \* who is in FinishAsync, with which result's kind
    start,        \* StartCoreAsync's place
    reader,       \* ReadOutputLoop's place
    writer,       \* the place of each writer
    close,        \* CloseCoreAsync's place
    dispose,      \* Dispose: "No", "Closing", "Deferred", "Done"
    remote,       \* external: the remote shell is "Open", "Closed" or "Lost"
    shellClosed   \* _shellClosed is set

finishVars == <<finishGate, cleanup, failed>>
peerVars == <<remote, shellClosed>>
vars == <<State, result, closeReason, lifetime, callerToken, owned, writeGate, finishVars,
          ending, start, reader, writer, close, dispose, peerVars>>

Init ==
    /\ State = "Created" /\ result = "None" /\ closeReason = "None"
    /\ lifetime = FALSE /\ callerToken = FALSE /\ owned = {"Secret"}
    /\ writeGate = NoOne /\ finishGate = NoOne /\ cleanup = "None" /\ failed = FALSE
    /\ ending = [a \in Finishers |-> "None"]
    /\ start = "None" /\ reader = "None" /\ writer = [w \in Writers |-> "Idle"]
    /\ close = "None" /\ dispose = "No" /\ remote = "Open" /\ shellClosed = FALSE

\* The linked token of StartCoreAsync.
Token == lifetime \/ callerToken
\* _lifetime and the gates are disposed.
Gone == dispose = "Done"
GateFree == writeGate = NoOne /\ ~Gone

StartEnded == start \in {"None", "Ok", "Threw"}
ReaderEnded == reader \in {"None", "Done"}

\* The actor calls FinishAsync and waits for it.
CallsFinish(a, kind) == ending' = [ending EXCEPT ![a] = kind]
Finished(a) == ending[a] = "None"

-----------------------------------------------------------------------------
\* FinishAsync.

Failing(kind) == kind \in {"ConnectionFailure", "ForcedTermination"}

\* The gate, then the check whether somebody else has finished.
FinishEnters(a) ==
    /\ ending[a] # "None" /\ finishGate = NoOne
    /\ IF result # "None"
       THEN /\ CallsFinish(a, "None")
            /\ UNCHANGED <<State, finishVars>>
       ELSE /\ finishGate' = a /\ cleanup' = "Release" /\ failed' = Failing(ending[a])
            /\ State' = IF State = "Running" THEN "Closing" ELSE State
            /\ UNCHANGED ending
    /\ UNCHANGED <<result, closeReason, lifetime, callerToken, owned, writeGate, start,
                   reader, writer, close, dispose, peerVars>>

FinishReleasesKeepingClient ==
    /\ cleanup = "Release"
    /\ lifetime' = TRUE /\ owned' = owned \cap {"Client"}
    /\ failed' \in {failed, TRUE}
    /\ cleanup' = "State"
    /\ UNCHANGED <<State, result, closeReason, callerToken, writeGate, finishGate, ending,
                   start, reader, writer, close, dispose, peerVars>>
\* Stream, client, key and secret are disposed; one that throws is a failure.
FinishReleases ==
    /\ cleanup = "Release"
    /\ lifetime' = TRUE /\ owned' = {}
    /\ failed' \in {failed, TRUE}
    /\ cleanup' = "State"
    /\ UNCHANGED <<State, result, closeReason, callerToken, writeGate, finishGate, ending,
                   start, reader, writer, close, dispose, peerVars>>

\* The state is published under the lock, and then the result outside it.
FinishSetsState ==
    /\ cleanup = "State"
    /\ State' = IF failed THEN "Failed" ELSE "Closed"
    /\ cleanup' = "Result"
    /\ UNCHANGED <<result, closeReason, lifetime, callerToken, owned, writeGate, finishGate,
                   failed, ending, start, reader, writer, close, dispose, peerVars>>

PublishedKind(kind) ==
    IF failed /\ kind = "CleanEof" THEN "ConnectionFailure" ELSE kind

FinishSetsResult ==
    /\ cleanup = "Result"
    /\ result' = PublishedKind(ending[finishGate])
    /\ CallsFinish(finishGate, "None")
    /\ finishGate' = NoOne /\ cleanup' = "None" /\ failed' = FALSE
    /\ UNCHANGED <<State, closeReason, lifetime, callerToken, owned, writeGate, start,
                   reader, writer, close, dispose, peerVars>>

Finishing ==
    \/ \E a \in Finishers : FinishEnters(a)
    \/ FinishReleases \/ FinishSetsState \/ FinishSetsResult

-----------------------------------------------------------------------------
\* StartAsync and StartCoreAsync.

startVars == <<result, closeReason, lifetime, callerToken, writeGate, finishVars, writer,
               close, dispose, peerVars>>

StartAsync ==
    /\ State = "Created" /\ dispose = "No"
    /\ State' = "Starting" /\ start' = "Opening"
    /\ UNCHANGED <<startVars, owned, ending, reader>>

\* An attempt makes its client;
Connect ==
    /\ start = "Opening" /\ ~Token
    /\ owned' = owned \cup {"Client"} /\ start' = "Connecting"
    /\ UNCHANGED <<startVars, State, ending, reader>>

\* it is given up while the person decides about a host key;
DisposeConnectionAttempt ==
    /\ start = "Connecting" /\ ~Token
    /\ owned' = owned \ {"Client"} /\ start' = "Opening"
    /\ UNCHANGED <<startVars, State, ending, reader>>

\* or it opens the remote shell.
CreateShellStream ==
    /\ start = "Connecting" /\ ~Token
    /\ owned' = owned \cup {"Stream"} /\ start' = "Opened"
    /\ UNCHANGED <<startVars, State, ending, reader>>

RunsUnlessCancelled ==
    /\ start = "Opened" /\ ~Token
    /\ State' = "Running" /\ start' = "Launching"
    /\ UNCHANGED <<startVars, owned, ending, reader>>
\* The lock in which the connection becomes a running transport, unless a
\* close or a cancellation has come.
Runs ==
    /\ start = "Opened" /\ ~Token /\ closeReason = "None"
    /\ State' = "Running" /\ start' = "Launching"
    /\ UNCHANGED <<startVars, owned, ending, reader>>

LaunchReader ==
    /\ start = "Launching"
    /\ reader' = "Starting" /\ start' = "Ok"
    /\ UNCHANGED <<startVars, State, owned, ending>>

\* The start throws: for a cancellation or a close,
Withdraws ==
    /\ \/ start \in {"Opening", "Connecting"} /\ Token
       \/ start = "Opened" /\ (Token \/ closeReason # "None")
    /\ start' = "Withdrawn"
    /\ UNCHANGED <<startVars, State, owned, ending, reader>>

\* or for an error of its own.
StartFails ==
    /\ start \in {"Opening", "Connecting", "Opened"}
    /\ start' = "Caught"
    /\ UNCHANGED <<startVars, State, owned, ending, reader>>

\* The catch block asks the token whether this is a cancellation.
StartCatches ==
    /\ start \in {"Withdrawn", "Caught"}
    /\ CallsFinish("Start", IF Token THEN "Cancelled" ELSE "ConnectionFailure")
    /\ start' = "Finishing"
    /\ UNCHANGED <<startVars, State, owned, reader>>

StartThrows ==
    /\ start = "Finishing" /\ Finished("Start")
    /\ start' = "Threw"
    /\ UNCHANGED <<startVars, State, owned, ending, reader>>

Starter ==
    \/ Connect \/ DisposeConnectionAttempt \/ CreateShellStream \/ Runs \/ LaunchReader
    \/ Withdraws \/ StartFails \/ StartCatches \/ StartThrows

-----------------------------------------------------------------------------
\* WriteAsync and CompleteAsync.

writeVars == <<State, result, closeReason, lifetime, callerToken, owned, finishVars, start,
               reader, close, dispose, peerVars>>
WriterMoves(w, place) == writer' = [writer EXCEPT ![w] = place]

\* The session writes to a transport it has started; the wait for the gate
\* is linked to _lifetime.
BeginWrite(w) ==
    /\ start = "Ok" /\ ~lifetime /\ writer[w] = "Idle"
    /\ WriterMoves(w, "Waiting")
    /\ UNCHANGED <<writeVars, writeGate, ending>>

\* CompleteAsync's wait for the gate is not.
BeginFlush(w) ==
    /\ w = Worker /\ State = "Running" /\ start = "Ok" /\ writer[w] = "Idle"
    /\ WriterMoves(w, "FlushWaiting")
    /\ UNCHANGED <<writeVars, writeGate, ending>>

\* The gate serves its waiters in order, so that none that _lifetime has
\* cancelled is served after the close has been.
BeforeGate == {"None", "Cancel", "JoinStart", "TakeGate", "JoinReader", "JoinWriter"}

WriteCancelled(w) ==
    /\ writer[w] = "Waiting" /\ lifetime
    /\ WriterMoves(w, "Idle")
    /\ UNCHANGED <<writeVars, writeGate, ending>>

\* A token of the caller gives up the wait, or the write before it begins.
WriteGivenUp(w) ==
    /\ writer[w] \in {"Waiting", "FlushWaiting", "Holding"}
    /\ WriterMoves(w, IF writer[w] = "Holding" THEN "Leaving" ELSE "Idle")
    /\ UNCHANGED <<writeVars, writeGate, ending>>

WriteEnters(w) ==
    /\ writer[w] \in {"Waiting", "FlushWaiting"} /\ GateFree
    /\ writer[w] = "Waiting" => ~lifetime \/ close \in BeforeGate
    /\ writeGate' = w
    /\ WriterMoves(w, IF writer[w] = "Waiting" THEN "Holding" ELSE "Flushing")
    /\ UNCHANGED <<writeVars, ending>>

\* WriteCore: the stream may wait for a peer that does not read.
WriteBegins(w) ==
    /\ writer[w] = "Holding" /\ State = "Running" /\ "Stream" \in owned
    /\ WriterMoves(w, "Writing")
    /\ UNCHANGED <<writeVars, writeGate, ending>>

\* The write or the flush is done.
Written(w) ==
    /\ writer[w] \in {"Writing", "Flushing"}
    /\ WriterMoves(w, "Leaving")
    /\ UNCHANGED <<writeVars, writeGate, ending>>

\* WriteCore throws, which ends the transport unless it is being closed.
Refused == State # "Running" \/ "Stream" \notin owned
Broken == "Stream" \notin owned \/ remote # "Open"
WriteThrows(w) ==
    /\ \/ writer[w] = "Holding" /\ Refused
       \/ writer[w] \in {"Writing", "Flushing"} /\ Broken
    /\ IF closeReason = "None" /\ writer[w] # "Flushing"
       THEN WriterMoves(w, "Finishing") /\ CallsFinish(w, "ConnectionFailure")
       ELSE WriterMoves(w, "Leaving") /\ UNCHANGED ending
    /\ UNCHANGED <<writeVars, writeGate>>

WriteLeavesKeepingGate(w) ==
    /\ writer[w] = "Leaving" \/ (writer[w] = "Finishing" /\ Finished(w))
    /\ WriterMoves(w, "Idle")
    /\ writeGate' = IF writer[w] = "Leaving" THEN NoOne ELSE writeGate
    /\ UNCHANGED <<writeVars, ending>>
\* The finally clause.
WriteLeaves(w) ==
    /\ writer[w] = "Leaving" \/ (writer[w] = "Finishing" /\ Finished(w))
    /\ WriterMoves(w, "Idle") /\ writeGate' = NoOne
    /\ UNCHANGED <<writeVars, ending>>

\* What a writer does when its peer or its caller lets it, and by itself.
PeerReads(w) == Written(w) \/ WriteGivenUp(w)
WriterRuns(w) ==
    \/ WriteCancelled(w) \/ WriteEnters(w) \/ WriteBegins(w) \/ WriteThrows(w)
    \/ WriteLeaves(w)

-----------------------------------------------------------------------------
\* ReadOutputLoop.

readVars == <<State, result, closeReason, lifetime, callerToken, owned, writeGate,
              finishVars, start, writer, close, dispose, peerVars>>

ReadData ==
    /\ \/ reader = "Starting" /\ "Stream" \in owned /\ reader' = "Reading"
       \/ reader = "Reading" /\ "Stream" \in owned /\ reader' = "Delivering"
       \/ reader = "Delivering" /\ reader' = "Reading"
    /\ UNCHANGED <<readVars, ending>>

\* Read returns zero when the shell or the stream is closed.
ReadEnds ==
    /\ reader = "Reading" /\ Broken
    /\ reader' = IF closeReason # "None" THEN "Done" ELSE "Settling"
    /\ UNCHANGED <<readVars, ending>>

ReaderFinishes(kind) ==
    IF closeReason # "None" THEN reader' = "Done" /\ UNCHANGED ending
    ELSE reader' = "Finishing" /\ CallsFinish("Reader", kind)

ReaderSettlesClean ==
    /\ reader = "Settling"
    /\ ReaderFinishes("CleanEof")
    /\ UNCHANGED readVars
\* The channel's own close, five seconds or the end of _lifetime settle what
\* the end of the output was.
ReaderSettles ==
    /\ reader = "Settling"
    /\ ReaderFinishes(IF shellClosed THEN "CleanEof" ELSE "ConnectionFailure")
    /\ UNCHANGED readVars

\* The stream is gone or broken, or the sink refuses or is cancelled.
ReaderThrows ==
    /\ \/ reader = "Starting" /\ "Stream" \notin owned
       \/ reader = "Reading" /\ Broken
       \/ reader = "Delivering"
    /\ ReaderFinishes("ConnectionFailure")
    /\ UNCHANGED readVars

ReaderReturns ==
    /\ reader = "Finishing" /\ Finished("Reader")
    /\ reader' = "Done"
    /\ UNCHANGED <<readVars, ending>>

Reader == ReadData \/ ReadEnds \/ ReaderSettles \/ ReaderThrows \/ ReaderReturns

-----------------------------------------------------------------------------
\* CloseAsync and CloseCoreAsync.

closeVars == <<result, finishVars, start, reader, writer, writeGate, peerVars>>

\* The lock: one close, which every later caller joins.
CloseOnce(reason) ==
    IF close # "None" THEN UNCHANGED <<State, closeReason, close>>
    ELSE /\ closeReason' = reason /\ close' = "Cancel"
         /\ State' = IF result = "None" THEN "Closing" ELSE State

CloseAsync(reason) ==
    /\ CloseOnce(reason)
    /\ UNCHANGED <<closeVars, lifetime, callerToken, owned, ending, dispose>>

\* The caller's token is cancelled, which calls CloseAsync while it is
\* registered: from StartAsync until FinishAsync.
CallerCancels ==
    /\ start # "None" /\ ~callerToken
    /\ callerToken' = TRUE
    /\ IF lifetime THEN UNCHANGED <<State, closeReason, close>> ELSE CloseOnce("Cancelled")
    /\ UNCHANGED <<closeVars, lifetime, owned, ending, dispose>>

CloseCancels ==
    /\ close = "Cancel"
    /\ lifetime' = TRUE /\ close' = "JoinStart"
    /\ UNCHANGED <<closeVars, State, closeReason, callerToken, owned, ending, dispose>>

CloseSkipsStart ==
    /\ close = "JoinStart"
    /\ close' = IF result # "None" THEN "JoinReader" ELSE "TakeGate"
    /\ UNCHANGED <<closeVars, State, closeReason, lifetime, callerToken, owned, ending,
                   dispose>>
\* The start is joined; one that failed has finished the transport.
CloseJoinsStart ==
    /\ close = "JoinStart" /\ StartEnded
    /\ close' = IF result # "None" THEN "JoinReader" ELSE "TakeGate"
    /\ UNCHANGED <<closeVars, State, closeReason, lifetime, callerToken, owned, ending,
                   dispose>>

\* The stream is disposed when no writer is in it; it may throw.
CloseStream ==
    /\ close = "TakeGate" /\ GateFree
    /\ \/ owned' = owned \ {"Stream"} /\ close' = "WaitReader"
       \/ "Stream" \in owned /\ UNCHANGED owned /\ close' = "WaitReaderForced"
    /\ UNCHANGED <<closeVars, State, closeReason, lifetime, callerToken, ending, dispose>>

\* The reader is given five seconds.
CloseWaits ==
    /\ close \in {"WaitReader", "WaitReaderForced"}
    /\ CallsFinish("Close",
           IF close = "WaitReaderForced" \/ ~ReaderEnded THEN "ForcedTermination"
           ELSE IF closeReason = "Cancelled" THEN "Cancelled" ELSE "CleanEof")
    /\ close' = "Finishing"
    /\ UNCHANGED <<closeVars, State, closeReason, lifetime, callerToken, owned, dispose>>

\* A transport that has finished is joined: its reader, then its writer.
CloseDone ==
    /\ \/ close = "JoinReader" /\ ReaderEnded /\ close' = "JoinWriter"
       \/ close = "JoinWriter" /\ GateFree /\ close' = "Done"
       \/ close = "Finishing" /\ Finished("Close") /\ close' = "Done"
    /\ UNCHANGED <<closeVars, State, closeReason, lifetime, callerToken, owned, ending,
                   dispose>>

Closer == CloseCancels \/ CloseJoinsStart \/ CloseStream \/ CloseWaits \/ CloseDone

-----------------------------------------------------------------------------
\* Dispose closes; the gates go when the reader has ended.

Dispose ==
    /\ dispose = "No"
    /\ dispose' = "Closing"
    /\ CloseOnce("Cancelled")
    /\ UNCHANGED <<closeVars, lifetime, callerToken, owned, ending>>

DisposeJoinedEarly ==
    /\ dispose \in {"Closing", "Deferred"} /\ close = "Done"
    /\ dispose' = "Done"
    /\ UNCHANGED <<closeVars, State, closeReason, lifetime, callerToken, owned, ending, close>>
DisposeJoined ==
    /\ \/ dispose = "Closing" /\ close = "Done"
       \/ dispose = "Deferred" /\ ReaderEnded
    /\ dispose' = IF ReaderEnded THEN "Done" ELSE "Deferred"
    /\ UNCHANGED <<closeVars, State, closeReason, lifetime, callerToken, owned, ending, close>>

\* External: the remote shell closes its channel, which is reported in its
\* own time, or the connection is lost.
RemoteEnds ==
    /\ start = "Ok" /\ remote = "Open"
    /\ remote' \in {"Closed", "Lost"}
    /\ UNCHANGED <<State, result, closeReason, lifetime, callerToken, owned, writeGate,
                   finishVars, ending, start, reader, writer, close, dispose, shellClosed>>
OnShellClosed ==
    /\ remote = "Closed" /\ "Stream" \in owned /\ ~shellClosed
    /\ shellClosed' = TRUE
    /\ UNCHANGED <<State, result, closeReason, lifetime, callerToken, owned, writeGate,
                   finishVars, ending, start, reader, writer, close, dispose, remote>>

Next ==
    \/ StartAsync \/ Starter \/ Finishing \/ Reader
    \/ \E w \in Writers : BeginWrite(w) \/ BeginFlush(w) \/ PeerReads(w) \/ WriterRuns(w)
    \/ (\E reason \in CloseReasons : CloseAsync(reason)) \/ CallerCancels \/ Closer
    \/ Dispose \/ DisposeJoined \/ RemoteEnds \/ OnShellClosed

Spec == Init /\ [][Next]_vars

-----------------------------------------------------------------------------
\* What a session sees of the transport: the state until the result is out,
\* the task of StartAsync, and the result's kind.
Status ==
    IF result # "None" THEN "Ended"
    ELSE IF State \in {"Closed", "Failed"} THEN "Closing" ELSE State
StartTask ==
    IF start \in {"None", "Ok"} THEN start
    ELSE IF start = "Launching" THEN "Ok"
    ELSE IF result # "None" THEN "Threw" ELSE "Pending"
Outcome ==
    IF result = "None" THEN "None"
    ELSE IF result = "ConnectionFailure" THEN "Failure" ELSE "Other"

=============================================================================
