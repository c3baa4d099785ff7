---------------------------- MODULE SshShimBroker ----------------------------
(***************************************************************************)
(* The typed-ssh handshake: shim processes (VT7.SshShim/main.cpp) that the *)
(* user's commands start, and the session's broker                         *)
(* (VT7.Host/SshShimBroker.cs) with the coordinator's barrier and handler  *)
(* (VT7.Host/SshOverlayCoordinator.cs) and the committed-output waiter of  *)
(* VT7.Host/TerminalSession.cs.  They share one pipe instance, so one shim *)
(* is connected at a time.  A frame is its kind; what authentication and   *)
(* the grammar make of a request is a choice.  Every wait with a deadline  *)
(* can end by it at any time.                                              *)
(***************************************************************************)
EXTENDS Naturals, Sequences

CONSTANTS
    Shims,      \* ssh commands typed in the session
    NoShim

ASSUME ShimAssumption == NoShim \notin Shims

VARIABLES
    broker,     \* the place of RunAsync and RunRequestAsync
    stopped,    \* Dispose was called
    broken,     \* the pipe stream has met a client that has gone, and says
                \* that it is no longer connected
    client,     \* the shim whose connection the pipe instance serves
    linked,     \* whether that shim still has its end open
    toHost,     \* frames written by the client and not yet read
    toShim,     \* frames written by the broker and not yet read
    rootKnown,  \* SetRootProcess was called
    shim,       \* each shim's place in RunShim
    status,     \* its exit status, "None" before
    killed,     \* shims that were killed
    printed,    \* shims whose barrier line was written to the console
    committed,  \* of those, the ones the document has taken
    tail,       \* of those, the ones still in _committedTails
    waiter,     \* _committedWaiters[RootGeneration]
    refused,    \* history: requests refused because a waiter existed
    result,     \* what the embedded handler did for each shim
    resumed     \* shims for which embeddedCompleted was called

brokerVars == <<broker, stopped, broken, client, rootKnown>>
pipeVars == <<linked, toHost, toShim>>
shimVars == <<shim, status, killed, printed>>
hostVars == <<committed, tail, waiter, refused, result, resumed>>
vars == <<brokerVars, pipeVars, shimVars, hostVars>>

Init ==
    /\ broker = "Listen" /\ stopped = FALSE /\ broken = FALSE
    /\ client = NoShim /\ rootKnown = FALSE
    /\ linked = FALSE /\ toHost = <<>> /\ toShim = <<>>
    /\ shim = [s \in Shims |-> "Idle"] /\ status = [s \in Shims |-> "None"]
    /\ killed = {} /\ printed = {} /\ committed = {} /\ tail = {}
    /\ waiter = NoShim /\ refused = {}
    /\ result = [s \in Shims |-> "None"] /\ resumed = {}

-----------------------------------------------------------------------------
\* The shim.

\* The client's end sees that the server disconnected or is gone.
Severed(s) == client # s \/ stopped

Exit(s, code) ==
    /\ shim' = [shim EXCEPT ![s] = "Exited"]
    /\ status' = [status EXCEPT ![s] = code]
    /\ linked' = (linked /\ client # s)

\* LaunchSystem: the shim becomes the parent of the system's client and
\* returns its status.
LaunchSystem(s) == shim' = [shim EXCEPT ![s] = "External"]

Launch(s) ==
    /\ shim[s] = "Idle"
    /\ shim' = [shim EXCEPT ![s] = "Connecting"]
    /\ UNCHANGED <<brokerVars, pipeVars, status, killed, printed, hostVars>>

\* The pipe instance is free: the shim opens it and writes its hello.
Connect(s) ==
    /\ shim[s] = "Connecting" /\ broker = "Listen" /\ client = NoShim /\ ~stopped
    /\ client' = s /\ linked' = TRUE
    /\ toHost' = <<"Hello">> /\ toShim' = <<>>
    /\ shim' = [shim EXCEPT ![s] = "AwaitChallenge"]
    /\ UNCHANGED <<broker, stopped, broken, rootKnown, status, killed, printed, hostVars>>

\* Before the host has decided, every failure and every five-second wait
\* ends in LaunchSystem, with the pipe still open.
FallBack(s) ==
    /\ shim[s] \in {"Connecting", "AwaitChallenge", "AwaitResponse"}
    /\ LaunchSystem(s)
    /\ UNCHANGED <<brokerVars, pipeVars, status, killed, printed, hostVars>>

ReadChallenge(s) ==
    /\ shim[s] = "AwaitChallenge" /\ client = s
    /\ toShim # <<>> /\ Head(toShim) = "Challenge"
    /\ toShim' = Tail(toShim) /\ toHost' = Append(toHost, "Request")
    /\ shim' = [shim EXCEPT ![s] = "AwaitResponse"]
    /\ UNCHANGED <<brokerVars, linked, status, killed, printed, hostVars>>

ReadSystem(s) ==
    /\ shim[s] = "AwaitResponse" /\ client = s
    /\ toShim # <<>> /\ Head(toShim) = "System"
    /\ toShim' = Tail(toShim)
    /\ LaunchSystem(s)
    /\ UNCHANGED <<brokerVars, linked, toHost, status, killed, printed, hostVars>>

ReadReject(s) ==
    /\ shim[s] = "AwaitResponse" /\ client = s
    /\ toShim # <<>> /\ Head(toShim) = "Reject"
    /\ toShim' = Tail(toShim)
    /\ Exit(s, "255")
    /\ UNCHANGED <<brokerVars, toHost, killed, printed, hostVars>>

\* USE_EMBEDDED: the barrier line goes to the console, then the frame that
\* says so to the host.
ReadEmbedded(s) ==
    /\ shim[s] = "AwaitResponse" /\ client = s
    /\ toShim # <<>> /\ Head(toShim) = "Embedded"
    /\ toShim' = Tail(toShim)
    /\ printed' = printed \cup {s} /\ toHost' = Append(toHost, "Barrier")
    /\ shim' = [shim EXCEPT ![s] = "AwaitComplete"]
    /\ UNCHANGED <<brokerVars, linked, status, killed, hostVars>>

\* One of the two fails after the decision: the shim exits.
BarrierFails(s) ==
    /\ shim[s] = "AwaitResponse" /\ client = s
    /\ toShim # <<>> /\ Head(toShim) = "Embedded"
    /\ toShim' = Tail(toShim)
    /\ printed' \in {printed, printed \cup {s}}
    /\ Exit(s, "255")
    /\ UNCHANGED <<brokerVars, toHost, killed, hostVars>>

\* The last wait has no deadline; it ends with the frame
ReadComplete(s) ==
    /\ shim[s] = "AwaitComplete" /\ client = s
    /\ toShim # <<>> /\ Head(toShim) \in {"0", "255"}
    /\ toShim' = Tail(toShim)
    /\ Exit(s, Head(toShim))
    /\ UNCHANGED <<brokerVars, toHost, killed, printed, hostVars>>

\* or with the pipe.
ReadBrokenAsEof(s) ==
    /\ shim[s] = "AwaitComplete" /\ Severed(s)
    /\ Exit(s, "0")
    /\ UNCHANGED <<brokerVars, toHost, toShim, killed, printed, hostVars>>
ReadBroken(s) ==
    /\ shim[s] = "AwaitComplete" /\ Severed(s)
    /\ Exit(s, "255")
    /\ UNCHANGED <<brokerVars, toHost, toShim, killed, printed, hostVars>>

\* Ctrl+C, or the console goes away.
Kill(s) ==
    /\ shim[s] \in {"Connecting", "AwaitChallenge", "AwaitResponse", "AwaitComplete"}
    /\ killed' = killed \cup {s}
    /\ Exit(s, "255")
    /\ UNCHANGED <<brokerVars, toHost, toShim, printed, hostVars>>

ShimSteps(s) ==
    \/ Connect(s) \/ FallBack(s) \/ ReadChallenge(s) \/ ReadSystem(s) \/ ReadReject(s)
    \/ ReadEmbedded(s) \/ BarrierFails(s) \/ ReadComplete(s) \/ ReadBroken(s)

-----------------------------------------------------------------------------
\* The broker.

\* Attach: the coordinator learns of the session and its root process.
SetRootProcess ==
    /\ ~rootKnown
    /\ rootKnown' = TRUE
    /\ UNCHANGED <<broker, stopped, broken, client, pipeVars, shimVars, hostVars>>

\* WaitForConnectionAsync returns.
Accept ==
    /\ broker = "Listen" /\ client # NoShim /\ ~broken
    /\ broker' = "Hello"
    /\ UNCHANGED <<stopped, broken, client, rootKnown, pipeVars, shimVars, hostVars>>

\* A read or a write that fails because the client has gone may leave the
\* stream broken.
MeetsClient == broken' \in {broken, ~linked}

\* A read or a write meets its deadline or a broken pipe, a frame is not
\* what it should be, or the request is not authentic.
RequestThrows ==
    /\ broker \in {"Hello", "Request", "Identify", "Barrier"}
    /\ MeetsClient
    /\ broker' = "Disconnect"
    /\ UNCHANGED <<stopped, client, rootKnown, pipeVars, shimVars, hostVars>>

ReadHello ==
    /\ broker = "Hello"
    /\ toHost # <<>> /\ Head(toHost) = "Hello" /\ linked
    /\ toHost' = Tail(toHost) /\ toShim' = Append(toShim, "Challenge")
    /\ broker' = "Request"
    /\ UNCHANGED <<stopped, broken, client, rootKnown, linked, shimVars, hostVars>>

ReadRequest ==
    /\ broker = "Request"
    /\ toHost # <<>> /\ Head(toHost) = "Request"
    /\ toHost' = Tail(toHost)
    /\ broker' = "Identify"
    /\ UNCHANGED <<stopped, broken, client, rootKnown, linked, toShim, shimVars, hostVars>>

\* An invocation the embedded client cannot take goes to the system's
\* client or, without one, is rejected.
Ineligible(action) ==
    /\ broker = "Identify" /\ rootKnown /\ linked
    /\ toShim' = Append(toShim, action)
    /\ broker' = "Disconnect"
    /\ UNCHANGED <<stopped, broken, client, rootKnown, linked, toHost, shimVars, hostVars>>

EligibleEager ==
    /\ broker = "Identify" /\ rootKnown /\ linked
    /\ toShim' = Append(toShim, "Embedded")
    /\ broker' = "Handle" /\ result' = [result EXCEPT ![client] = "Running"]
    /\ UNCHANGED <<stopped, broken, client, rootKnown, linked, toHost, shimVars, committed, tail, waiter, refused,
                   resumed>>
Eligible ==
    /\ broker = "Identify" /\ rootKnown /\ linked
    /\ toShim' = Append(toShim, "Embedded")
    /\ broker' = "Barrier"
    /\ UNCHANGED <<stopped, broken, client, rootKnown, linked, toHost, shimVars, hostVars>>

Handle ==
    /\ broker' = "Handle"
    /\ result' = [result EXCEPT ![client] = "Running"]

\* WaitForCommittedOutputAsync, called when the barrier frame is in: the
\* line has been committed already, or a waiter is left for it.
ReadBarrier ==
    /\ broker = "Barrier"
    /\ toHost # <<>> /\ Head(toHost) = "Barrier"
    /\ toHost' = Tail(toHost)
    /\ waiter = NoShim
    /\ IF client \in tail
       THEN Handle /\ UNCHANGED waiter
       ELSE broker' = "Waiting" /\ waiter' = client /\ UNCHANGED result
    /\ UNCHANGED <<stopped, broken, client, rootKnown, linked, toShim, shimVars, committed, tail, refused, resumed>>

\* A waiter of an earlier request is in the way.
WaiterExists ==
    /\ broker = "Barrier"
    /\ toHost # <<>> /\ Head(toHost) = "Barrier"
    /\ toHost' = Tail(toHost)
    /\ waiter # NoShim
    /\ refused' = refused \cup {client}
    /\ broker' = "Disconnect"
    /\ UNCHANGED <<stopped, broken, client, rootKnown, linked, toShim, shimVars, committed, tail, waiter, result,
                   resumed>>

\* RecordCommittedOutput: the root's output carries a whole barrier line.
Commit(s) ==
    /\ s \in printed \ committed
    /\ committed' = committed \cup {s} /\ tail' = tail \cup {s}
    /\ waiter' = IF waiter = s THEN NoShim ELSE waiter
    /\ UNCHANGED <<brokerVars, pipeVars, shimVars, refused, result, resumed>>

\* Later output pushes the line out of the 8192 bytes that are kept.
Scroll(s) ==
    /\ s \in tail
    /\ tail' = tail \ {s}
    /\ UNCHANGED <<brokerVars, pipeVars, shimVars, committed, waiter, refused, result, resumed>>

\* The waiter's task completes.
BarrierCommitted ==
    /\ broker = "Waiting" /\ waiter # client
    /\ Handle
    /\ UNCHANGED <<stopped, broken, client, rootKnown, pipeVars, shimVars, committed, tail, waiter, refused, resumed>>

\* Ten seconds pass; the waiter is left where it is.
BarrierTimesOutAccepted ==
    /\ broker = "Waiting"
    /\ Handle
    /\ UNCHANGED <<stopped, broken, client, rootKnown, pipeVars, shimVars, committed, tail, waiter, refused, resumed>>
BarrierAwaited ==
    /\ broker = "Waiting" /\ waiter # client
    /\ broker' = "Disconnect"
    /\ UNCHANGED <<stopped, broken, client, rootKnown, pipeVars, shimVars, hostVars>>
BarrierTimesOut ==
    /\ broker = "Waiting"
    /\ broker' = "Disconnect"
    /\ UNCHANGED <<stopped, broken, client, rootKnown, pipeVars, shimVars, hostVars>>

\* HandleEmbeddedAsync returns a status, or throws.
HandlerReturns(code) ==
    /\ broker = "Handle"
    /\ result' = [result EXCEPT ![client] = code]
    /\ broker' = "Complete"
    /\ UNCHANGED <<stopped, broken, client, rootKnown, pipeVars, shimVars, committed, tail, waiter, refused, resumed>>

HandlerThrows ==
    /\ broker = "Handle"
    /\ result' = [result EXCEPT ![client] = "Threw"]
    /\ broker' = "Disconnect"
    /\ UNCHANGED <<stopped, broken, client, rootKnown, pipeVars, shimVars, committed, tail, waiter, refused, resumed>>

\* The completion frame is written if the shim is there to take it; root
\* input is reopened in any case.
WriteCompleteOrThrow ==
    /\ broker = "Complete"
    /\ IF linked THEN toShim' = Append(toShim, result[client]) /\ resumed' = resumed \cup {client}
                 ELSE UNCHANGED <<toShim, resumed>>
    /\ broker' = "Disconnect"
    /\ MeetsClient
    /\ UNCHANGED <<stopped, client, rootKnown, linked, toHost, shimVars, committed, tail, waiter, refused,
                   result>>
WriteComplete ==
    /\ broker = "Complete"
    /\ toShim' = IF linked THEN Append(toShim, result[client]) ELSE toShim
    /\ resumed' = resumed \cup {client}
    /\ broker' = "Disconnect"
    /\ MeetsClient
    /\ UNCHANGED <<stopped, client, rootKnown, linked, toHost, shimVars, committed, tail, waiter, refused,
                   result>>

\* RunAsync's finally, unless the stream says that it is not connected.
\* What the client has not read is lost.
DisconnectNever ==
    /\ broker = "Disconnect" /\ ~stopped
    /\ broker' = "Listen"
    /\ UNCHANGED <<stopped, broken, client, rootKnown, pipeVars, shimVars, hostVars>>
Disconnect ==
    /\ broker = "Disconnect" /\ ~stopped
    /\ broker' = "Listen"
    /\ IF broken THEN UNCHANGED <<client, linked, toHost, toShim>>
       ELSE client' = NoShim /\ linked' = FALSE /\ toHost' = <<>> /\ toShim' = <<>>
    /\ UNCHANGED <<stopped, broken, rootKnown, shimVars, hostVars>>

\* WaitForConnectionAsync refuses a broken stream.
WaitThrows ==
    /\ broker = "Listen" /\ broken /\ ~stopped
    /\ broker' = "Disconnect"
    /\ UNCHANGED <<stopped, broken, client, rootKnown, pipeVars, shimVars, hostVars>>

\* Dispose: the pipe goes away; a handler that runs is left to end.
Dispose ==
    /\ ~stopped
    /\ stopped' = TRUE
    /\ linked' = FALSE /\ toHost' = <<>> /\ toShim' = <<>>
    /\ UNCHANGED <<broker, broken, client, rootKnown, shimVars, hostVars>>

\* The loop sees the cancelled lifetime.
RunEnds ==
    /\ broker \in {"Listen", "Disconnect"} /\ stopped
    /\ broker' = "Stopped" /\ client' = NoShim
    /\ UNCHANGED <<stopped, broken, rootKnown, pipeVars, shimVars, hostVars>>

BrokerSteps ==
    \/ Accept \/ RequestThrows \/ ReadHello \/ ReadRequest
    \/ (\E action \in {"System", "Reject"} : Ineligible(action))
    \/ Eligible \/ ReadBarrier \/ WaiterExists \/ BarrierCommitted \/ BarrierTimesOut
    \/ WriteComplete \/ Disconnect \/ WaitThrows \/ RunEnds

Next ==
    \/ \E s \in Shims : Launch(s) \/ ShimSteps(s) \/ Kill(s) \/ Commit(s) \/ Scroll(s)
    \/ SetRootProcess \/ BrokerSteps
    \/ \E code \in {"0", "255"} : HandlerReturns(code)
    \/ HandlerThrows \/ Dispose

Spec == Init /\ [][Next]_vars

\* Both programs run on, and their deadlines come.  Nothing says that the
\* barrier line is committed, that the handler returns or that the root
\* process becomes known.
FairSpec ==
    /\ Spec
    /\ WF_vars(BrokerSteps)
    /\ \A s \in Shims : WF_vars(ShimSteps(s))

-----------------------------------------------------------------------------
\* Properties.

Frames == {"Hello", "Challenge", "Request", "System", "Reject", "Embedded", "Barrier", "0", "255"}

\* The broker is at one of the steps of its loop, it has a client at every
\* step of a request, and each shim is at a step of RunShim.
TypeOK ==
    /\ broker \in {"Listen", "Hello", "Request", "Identify", "Barrier", "Waiting", "Handle",
                   "Complete", "Disconnect", "Stopped"}
    /\ stopped \in BOOLEAN /\ broken \in BOOLEAN /\ rootKnown \in BOOLEAN
    /\ client \in Shims \cup {NoShim}
    /\ broker \notin {"Listen", "Stopped"} => client # NoShim
    /\ linked \in BOOLEAN /\ toHost \in Seq(Frames) /\ toShim \in Seq(Frames)
    /\ shim \in [Shims -> {"Idle", "Connecting", "AwaitChallenge", "AwaitResponse",
                           "AwaitComplete", "External", "Exited"}]
    /\ status \in [Shims -> {"None", "0", "255"}]
    /\ killed \subseteq Shims /\ printed \subseteq Shims
    /\ committed \subseteq Shims /\ tail \subseteq Shims
    /\ waiter \in Shims \cup {NoShim} /\ refused \subseteq Shims
    /\ result \in [Shims -> {"None", "Running", "0", "255", "Threw"}]
    /\ resumed \subseteq Shims

\* One typed command never becomes two ssh clients: a shim that has fallen
\* back to the system's client, whatever deadline or failure sent it there,
\* has no embedded connection made for it, then or later (main.cpp falls
\* back before the host's decision only; the broker calls its handler after
\* the shim's barrier frame only).
NoSecondClient == \A s \in Shims : shim[s] = "External" => result[s] = "None"

\* The embedded handler, which prompts and lets remote output into the
\* document, starts after the shim's barrier line is committed to it.
BarrierFirst == \A s \in Shims : result[s] # "None" => s \in committed

\* A command ends with status 0 only if its embedded session ended so: a
\* lost pipe, a rejection or a host that goes away is never a success.
ZeroIsEarned == \A s \in Shims : status[s] = "0" => result[s] = "0"

\* Root input is reopened after every handler that returned, also when the
\* shim has gone before its completion frame.
RootReopens == \A s \in Shims : (result[s] \in {"0", "255"}) ~> (s \in resumed)

\* The broker gives up each connection, and the next command finds the pipe,
\* with two exceptions: the handler still runs, or a read or a write has found
\* the client gone.  A stream that has found that out is not disconnected
\* (RunAsync asks IsConnected first) and never listens again.
PipeFreed ==
    (client # NoShim) ~> (client = NoShim \/ broker = "Handle" \/ broken)

\* A command ends, or is the system's client, unless its embedded session
\* runs on: no deadline, lost frame or closed pipe leaves it waiting.
ShimEnds ==
    \A s \in Shims :
        (shim[s] = "Connecting") ~>
            (shim[s] \in {"External", "Exited"} \/ (client = s /\ broker = "Handle"))

\* No deadline, kill, lost connection or failure leaves anybody waiting: a
\* command comes to its end, with the system's client if the broker does not
\* serve it, root input is open again after the handler, and the broker frees
\* a pipe whose stream is not broken.
NoneStranded == PipeFreed /\ RootReopens /\ ShimEnds

\* What the documents say and the code does not do; no run checks these.

\* What SshOverlayCoordinator.cs says of the broker: it accepts sequential
\* invocations, so that no request is refused because of an earlier one.
SequentialAccepted == refused = {}

\* The same, of the pipe: a connection that was lost is given up like any other.
LostPipeFreed == (client # NoShim) ~> (client = NoShim \/ broker = "Handle")

\* What the handoff specification says of the status: a clean end of the
\* remote session is exit status 0 of the shim that is there to take it.
CleanEndIsZero ==
    \A s \in Shims : shim[s] = "Exited" /\ result[s] = "0" /\ s \notin killed /\ ~stopped
                     => status[s] = "0"
=============================================================================
