--------------------------- MODULE WinPtyTransport ---------------------------
(***************************************************************************)
(* The local shell's transport (VT7.Host/WinPtyTransport.cs): the reader   *)
(* of the console's output, the writers of its input and size, and the     *)
(* calls of CloseAsync, which come from the session, from the registration *)
(* on its token and from Dispose, on threads of their own.  StartAsync     *)
(* runs on the window's thread from end to end, as every CloseAsync before *)
(* or after it does, so that none comes between.  A lock's critical        *)
(* section is one step.                                                    *)
(***************************************************************************)
CONSTANTS
    Writers,   \* threads that write: the queue's worker, readers with replies
    Closers,   \* calls of CloseAsync other than Dispose's
    CloseReasons \* the reasons they give

NoOne == "NoOne"
Disposer == "Disposer"
Callers == Closers \cup {Disposer}

\* Why a session is closed: a profile is changed, the window or a person
\* closes it, or the session's monitor has seen it fail.
TerminalCloseReason == {"Normal", "Replaced", "Cancelled", "Failed"}

WinPtyAssumption ==
    /\ NoOne \notin Writers /\ Disposer \notin Closers
    /\ CloseReasons \subseteq TerminalCloseReason

VARIABLES
    State,        \* State
    result,       \* _completion: "None" or the result's kind
    closeReason,  \* _closeReason, "None" for null
    lifetime,     \* _lifetime is cancelled
    owned,        \* what is open: "Pty", "Input", "Output", "Child"
    writeGate,    \* who holds _writeGate
    start,        \* StartAsync: "None", "Pending", "Ok", "Threw"
    reader,       \* ReadOutputAsync: its place and the result it publishes
    writer,       \* the place of each writer
    closer,       \* the place and the result of each CloseAsync
    dispose,      \* Dispose: "No", "Closing", "Releasing", "Done"
    childExited   \* external: the shell's process has ended

vars == <<State, result, closeReason, lifetime, owned, writeGate, start, reader, writer,
          closer, dispose, childExited>>

Handles == {"Pty", "Input", "Output", "Child"}
At(place, kind) == [at |-> place, kind |-> kind]
NotRunning == At("None", "None")
Over == {"Closed", "Failed"}
Returned == {"Done", "Threw"}

\* _writeGate and _lifetime are disposed.
Gone == dispose = "Done"
GateFree == writeGate = NoOne /\ ~Gone

Init ==
    /\ State = "Created" /\ result = "None" /\ closeReason = "None" /\ lifetime = FALSE
    /\ owned = {} /\ writeGate = NoOne /\ start = "None" /\ reader = NotRunning
    /\ writer = [w \in Writers |-> "Idle"] /\ closer = [c \in Callers |-> NotRunning]
    /\ dispose = "No" /\ childExited = FALSE

TrySet(kind) == IF result = "None" THEN kind ELSE result

-----------------------------------------------------------------------------
\* StartAsync.

StartAsync ==
    /\ State = "Created" /\ start = "None" /\ dispose = "No"
    /\ State' = "Starting" /\ start' = "Pending"
    /\ UNCHANGED <<result, closeReason, lifetime, owned, writeGate, reader, writer, closer,
                   dispose, childExited>>

\* StartNative opens the console and spawns the shell; the reader starts.
StartRuns ==
    /\ start = "Pending"
    /\ owned' = Handles
    /\ State' = "Running" /\ start' = "Ok" /\ reader' = At("Reading", "None")
    /\ UNCHANGED <<result, closeReason, lifetime, writeGate, writer, closer, dispose,
                   childExited>>

\* Or it throws, and ReleaseNative undoes what it had opened.
StartThrows ==
    /\ start = "Pending"
    /\ lifetime' = TRUE
    /\ State' = "Failed" /\ result' = "ConnectionFailure" /\ start' = "Threw"
    /\ UNCHANGED <<closeReason, owned, writeGate, reader, writer, closer, dispose,
                   childExited>>

-----------------------------------------------------------------------------
\* WriteAsync and CompleteAsync.

writeVars == <<State, result, closeReason, lifetime, owned, start, reader, closer, dispose,
               childExited>>

\* The session writes to a transport that it has started.
BeginWrite(w) ==
    /\ start = "Ok" /\ ~Gone /\ writer[w] = "Idle"
    /\ writer' = [writer EXCEPT ![w] = "Waiting"]
    /\ UNCHANGED <<writeVars, writeGate>>

\* A token of the caller gives up the wait.
WriteGivenUp(w) ==
    /\ writer[w] = "Waiting"
    /\ writer' = [writer EXCEPT ![w] = "Idle"]
    /\ UNCHANGED <<writeVars, writeGate>>

Enter(w) ==
    /\ writer[w] = "Waiting" /\ GateFree
    /\ writer' = [writer EXCEPT ![w] = "Holding"] /\ writeGate' = w
    /\ UNCHANGED writeVars

\* A resize calls the native library with the pty it has read,
ResizeBegins(w) ==
    /\ writer[w] = "Holding" /\ State = "Running" /\ "Pty" \in owned
    /\ writer' = [writer EXCEPT ![w] = "Resizing"]
    /\ UNCHANGED <<writeVars, writeGate>>

\* input goes to the pipe, which the shell may not be reading,
InputBegins(w) ==
    /\ writer[w] = "Holding" /\ State = "Running" /\ "Input" \in owned
    /\ writer' = [writer EXCEPT ![w] = "Writing"]
    /\ UNCHANGED <<writeVars, writeGate>>

LeaveGate(w) ==
    /\ writer' = [writer EXCEPT ![w] = "Idle"] /\ writeGate' = NoOne
    /\ UNCHANGED writeVars

\* an empty operation, a flush and a refusal leave at once,
LeaveEarly(w) == writer[w] = "Holding" /\ LeaveGate(w)

\* and the calls return or throw; either way the gate is released.
Resized(w) == writer[w] = "Resizing" /\ LeaveGate(w)
Written(w) == writer[w] = "Writing" /\ LeaveGate(w)

-----------------------------------------------------------------------------
\* ReleaseNative, under the write gate.

ReleaseOutsideGate ==
    /\ ~Gone
    /\ lifetime' = TRUE /\ owned' = {}
ReleaseNative ==
    /\ GateFree
    /\ lifetime' = TRUE /\ owned' = {}

\* CompleteFromClose chooses the result.
KindFromClose(exited) ==
    IF closeReason = "Cancelled" THEN "Cancelled"
    ELSE IF exited THEN "CleanEof" ELSE "ForcedTermination"

-----------------------------------------------------------------------------
\* ReadOutputAsync.

readVars == <<closeReason, writeGate, start, writer, closer, dispose, childExited>>
quietVars == <<State, result, lifetime, owned, readVars>>

ReaderAt(place) == reader.at = place

ReadData ==
    /\ ReaderAt("Reading") /\ "Output" \in owned /\ ~lifetime
    /\ reader' = At("Delivering", "None")
    /\ UNCHANGED quietVars

\* The pipe ends, by the shell or by its agent, or the wait is cancelled.
ReadEnds ==
    /\ ReaderAt("Reading")
    /\ reader' = At("Ended", "None")
    /\ UNCHANGED quietVars

Deliver ==
    /\ ReaderAt("Delivering")
    /\ reader' = At("Reading", "None")
    /\ UNCHANGED quietVars

CompletesAs(kind) ==
    /\ reader' = At("Settling", kind)
    /\ UNCHANGED quietVars

\* At the end of the output the close reason is read, and the child waited for.
ReaderLooks ==
    /\ ReaderAt("Ended")
    /\ reader' = At(IF closeReason # "None" THEN "JoinChild" ELSE "AwaitExit", "None")
    /\ UNCHANGED quietVars

\* The wait for the child, by its handle, finds it ended.
NaturalEnd == childExited /\ "Child" \in owned

ReaderJoinsChild ==
    /\ ReaderAt("JoinChild")
    /\ CompletesAs(KindFromClose(NaturalEnd))

\* The catch block, which reads the close reason again.
ThrownKind == IF closeReason # "None" THEN KindFromClose(FALSE) ELSE "ConnectionFailure"

ReaderSettlesUnwaited ==
    /\ ReaderAt("AwaitExit")
    /\ CompletesAs("ReportedExit")
\* Without a close, a child that has not ended in time is an error.
ReaderSettles ==
    /\ ReaderAt("AwaitExit")
    /\ CompletesAs(IF NaturalEnd THEN "ReportedExit" ELSE ThrownKind)

\* The sink refuses the block, or the pipe fails.
ReaderThrows ==
    /\ ReaderAt("Reading") \/ ReaderAt("Delivering")
    /\ CompletesAs(ThrownKind)

\* Complete: a running transport is closing,
ReaderCloses ==
    /\ ReaderAt("Settling")
    /\ State' = IF State = "Running" THEN "Closing" ELSE State
    /\ reader' = At("Releasing", reader.kind)
    /\ UNCHANGED <<result, lifetime, owned, readVars>>

ReaderReleases ==
    /\ ReaderAt("Releasing") /\ ReleaseNative
    /\ reader' = At("Publishing", reader.kind)
    /\ UNCHANGED <<State, result, readVars>>

\* the gate was disposed under a reader that outlived a close: it throws,
ReaderFaults ==
    /\ ReaderAt("Releasing") /\ Gone
    /\ reader' = At("Threw", "None")
    /\ UNCHANGED quietVars

\* the state is set, and then the result.
ReaderPublishes ==
    /\ ReaderAt("Publishing")
    /\ State' = IF reader.kind = "ConnectionFailure" THEN "Failed" ELSE "Closed"
    /\ reader' = At("Completing", reader.kind)
    /\ UNCHANGED <<result, lifetime, owned, readVars>>
ReaderCompletes ==
    /\ ReaderAt("Completing")
    /\ result' = TrySet(reader.kind)
    /\ reader' = At("Done", reader.kind)
    /\ UNCHANGED <<State, lifetime, owned, readVars>>

Reader ==
    \/ ReadData \/ ReadEnds \/ Deliver \/ ReaderLooks \/ ReaderJoinsChild
    \/ ReaderSettles \/ ReaderThrows \/ ReaderCloses \/ ReaderReleases \/ ReaderFaults
    \/ ReaderPublishes \/ ReaderCompletes

-----------------------------------------------------------------------------
\* CloseAsync.

closeVars == <<start, reader, writer, writeGate, childExited>>

Move(c, place) == closer' = [closer EXCEPT ![c] = At(place, "None")]
CloserAt(c, place) == closer[c].at = place

\* The first lock.
CloseCalled(c, reason) ==
    /\ closer[c].at = "None" /\ start # "Pending"
    /\ State' = IF State \in Over THEN State ELSE "Closing"
    /\ closeReason' = IF State \in Over THEN closeReason ELSE reason
    /\ Move(c, "Looking")

\* From the session, or from the registration on its token.
CloseAsync(c, reason) ==
    /\ c \in Closers
    /\ CloseCalled(c, reason)
    /\ UNCHANGED <<closeVars, result, lifetime, owned, dispose>>

\* A completed transport is only joined.
CloseLooks(c) ==
    /\ CloserAt(c, "Looking")
    /\ Move(c, IF result # "None" THEN "Joining" ELSE "Input")
    /\ UNCHANGED <<closeVars, State, result, closeReason, lifetime, owned, dispose>>

\* The shell's input ends, and it is given time to exit;
CloseInput(c) ==
    /\ CloserAt(c, "Input") /\ GateFree
    /\ owned' = owned \ {"Input"}
    /\ Move(c, "WaitChild")
    /\ UNCHANGED <<closeVars, State, result, closeReason, lifetime, dispose>>

CloseWaits(c) ==
    /\ CloserAt(c, "WaitChild")
    /\ Move(c, IF NaturalEnd THEN "WaitReader" ELSE "Free")
    /\ UNCHANGED <<closeVars, State, result, closeReason, lifetime, owned, dispose>>

\* if it has not, the pty is freed, which ends it.
CloseFrees(c) ==
    /\ CloserAt(c, "Free") /\ GateFree
    /\ owned' = owned \ {"Pty"}
    /\ Move(c, "WaitReader")
    /\ UNCHANGED <<closeVars, State, result, closeReason, lifetime, dispose>>

\* The gate was disposed by a Dispose that came first.
CloseFaults(c) ==
    /\ closer[c].at \in {"Input", "Free", "Releasing"} /\ Gone
    /\ Move(c, "Threw")
    /\ UNCHANGED <<closeVars, State, result, closeReason, lifetime, owned, dispose>>

\* The reader is joined, for five seconds unless it had completed.
CloseJoins(c) ==
    /\ CloserAt(c, "Joining") \/ (CloserAt(c, "WaitReader") /\ reader # NotRunning)
    /\ \/ ReaderAt("Done") /\ Move(c, "Done")
       \/ ReaderAt("None") /\ Move(c, "Done")
       \/ ReaderAt("Threw") /\ Move(c, "Threw")
    /\ UNCHANGED <<closeVars, State, result, closeReason, lifetime, owned, dispose>>
CloseTimesOut(c) ==
    /\ CloserAt(c, "WaitReader") /\ reader.at \notin {"None", "Done", "Threw"}
    /\ Move(c, "Threw")
    /\ UNCHANGED <<closeVars, State, result, closeReason, lifetime, owned, dispose>>

\* Without a reader the close completes the transport itself.
CloseAlone(c) ==
    /\ CloserAt(c, "WaitReader") /\ ReaderAt("None")
    /\ closer' = [closer EXCEPT ![c] = At("Releasing", KindFromClose(FALSE))]
    /\ UNCHANGED <<closeVars, State, result, closeReason, lifetime, owned, dispose>>
CloseReleases(c) ==
    /\ CloserAt(c, "Releasing") /\ ReleaseNative
    /\ closer' = [closer EXCEPT ![c] = At("Publishing", @.kind)]
    /\ UNCHANGED <<closeVars, State, result, closeReason, dispose>>
ClosePublishes(c) ==
    /\ CloserAt(c, "Publishing")
    /\ State' = "Closed"
    /\ closer' = [closer EXCEPT ![c] = At("Completing", @.kind)]
    /\ UNCHANGED <<closeVars, result, closeReason, lifetime, owned, dispose>>
CloseCompletes(c) ==
    /\ CloserAt(c, "Completing")
    /\ result' = TrySet(closer[c].kind)
    /\ Move(c, "Done")
    /\ UNCHANGED <<closeVars, State, closeReason, lifetime, owned, dispose>>

Closer(c) ==
    \/ CloseLooks(c) \/ CloseInput(c) \/ CloseWaits(c) \/ CloseFrees(c) \/ CloseFaults(c)
    \/ CloseJoins(c) \/ CloseTimesOut(c) \/ CloseAlone(c) \/ CloseReleases(c)
    \/ ClosePublishes(c) \/ CloseCompletes(c)

-----------------------------------------------------------------------------
\* Dispose calls CloseAsync and waits for it; if that throws it releases what
\* is open itself.  Then the gate goes.

Dispose ==
    /\ dispose = "No"
    /\ dispose' = "Closing"
    /\ CloseCalled(Disposer, "Cancelled")
    /\ UNCHANGED <<closeVars, result, lifetime, owned>>

DisposeJoined ==
    /\ dispose = "Closing" /\ closer[Disposer].at \in Returned
    /\ dispose' = IF CloserAt(Disposer, "Done") THEN "Done" ELSE "Releasing"
    /\ UNCHANGED <<closeVars, State, result, closeReason, lifetime, owned, closer>>

DisposeReleases ==
    /\ dispose = "Releasing" /\ ReleaseNative
    /\ dispose' = "Done"
    /\ UNCHANGED <<closeVars, State, result, closeReason, closer>>

Disposing == DisposeJoined \/ DisposeReleases

\* External: the shell ends, by itself or because its pty was freed.
ChildExits ==
    /\ start = "Ok" /\ ~childExited
    /\ childExited' = TRUE
    /\ UNCHANGED <<State, result, closeReason, lifetime, owned, writeGate, start, reader, writer,
                   closer, dispose>>

\* What a writer does when its peer or its caller lets it, and by itself.
PeerReads(w) == Written(w) \/ WriteGivenUp(w)
Writer(w) ==
    Enter(w) \/ ResizeBegins(w) \/ InputBegins(w) \/ LeaveEarly(w) \/ Resized(w)

Next ==
    \/ StartAsync \/ StartRuns \/ StartThrows
    \/ \E w \in Writers : BeginWrite(w) \/ PeerReads(w) \/ Writer(w)
    \/ Reader
    \/ \E c \in Closers : \E reason \in CloseReasons : CloseAsync(c, reason)
    \/ \E c \in Callers : Closer(c)
    \/ Dispose \/ Disposing \/ ChildExits

Spec == Init /\ [][Next]_vars

-----------------------------------------------------------------------------
\* What a session sees of the transport: the state until the result is out,
\* the task of StartAsync, which is start, and the result's kind.
Status ==
    IF result # "None" THEN "Ended" ELSE IF State \in Over THEN "Closing" ELSE State
Outcome ==
    IF result = "None" THEN "None"
    ELSE IF result = "ConnectionFailure" THEN "Failure" ELSE "Other"

\* A resize calls the native library with a pty that is not freed under it, and
\* a write has its pipe until it returns.
HandlesAlive ==
    \A w \in Writers : /\ writer[w] = "Resizing" => "Pty" \in owned
                       /\ writer[w] = "Writing" => "Input" \in owned
=============================================================================
