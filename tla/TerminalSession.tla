--------------------------- MODULE TerminalSession ---------------------------
(***************************************************************************)
(* The session state machine of VT7.Host/TerminalSession.cs together with  *)
(* its user, the request handler of VT7.Host/SshOverlayCoordinator.cs.     *)
(* A session owns a root transport (0) and, one after another, the overlay *)
(* transports 1..MaxOverlays that typed ssh commands ask for.  Its async   *)
(* methods are processes: StartAsync, the handler with StartOverlayAsync   *)
(* and StopOverlayAsync, CloseCoreAsync, and MonitorRootAsync.  A step is  *)
(* the code between two awaits.                                            *)
(*                                                                         *)
(* A transport is what ITerminalTransport shows of WinPtyTransport and     *)
(* SshNetTransport; a queue is what SessionOutboundQueue, checked on its   *)
(* own, shows of itself: it accepts, its worker delivers, and CompleteAsync*)
(* ends when the worker has.                                               *)
(***************************************************************************)
EXTENDS Naturals, Sequences

CONSTANTS
    MaxOverlays,   \* typed ssh requests in the session's life
    MaxInputs,     \* operations the user enters in the session's life
    MayBlock,      \* transports whose writes can wait for a peer that never reads
    PeersFail      \* whether a peer or a connection can fail

ASSUME SessionAssumption ==
    /\ MaxOverlays \in Nat \ {0} /\ MaxInputs \in Nat
    /\ MayBlock \subseteq 0..MaxOverlays /\ PeersFail \in BOOLEAN

VARIABLES
    State,           \* TerminalSession.State
    transport,       \* per transport [status, start, result]
    overlay,         \* _overlay, 0 for null
    startingOverlay, \* _startingOverlay, 0 for null
    queues,          \* every SessionOutboundQueue made, in order
    outbound,        \* _outbound as an index into queues, 0 for null
    lifetime,        \* _lifetime.IsCancellationRequested
    pump,            \* the output pump: "Open" or "Disposed"
    completion,      \* _completion: "None", "Failure" or "Other"
    start,           \* StartAsync: "Idle", "Starting", "Returned", "Threw"
    handler,         \* HandleEmbeddedAsync's place
    requests,        \* requests so far; the last one's overlay
    prior,           \* the queue the handler is retiring
    closer,          \* CloseCoreAsync's place
    closeQueue,      \* its local outbound
    closeOverlay,    \* its local overlay
    monitor,         \* MonitorRootAsync: "Idle", "Waiting", "Closing", "Done"
    inputs,          \* operations entered so far
    disposed         \* _disposed

handlerVars == <<handler, requests, prior>>
closerVars == <<closer, closeQueue, closeOverlay>>
vars == <<State, transport, overlay, startingOverlay, queues, outbound, lifetime, pump,
          completion, start, handlerVars, closerVars, monitor, inputs, disposed>>

Transports == 0..MaxOverlays
Running == {"RunningRoot", "RunningOverlay"}
Over == {"Closing", "Closed", "Failed"}
Operations == {"Input", "Resize"}

Init ==
    /\ State = "Created"
    /\ transport = [t \in Transports |->
                      [status |-> IF t = 0 THEN "Created" ELSE "Unmade",
                       start |-> "None", result |-> "None"]]
    /\ overlay = 0 /\ startingOverlay = 0
    /\ queues = <<>> /\ outbound = 0
    /\ lifetime = FALSE /\ pump = "Open" /\ completion = "None"
    /\ start = "Idle"
    /\ handler = "Idle" /\ requests = 0 /\ prior = 0
    /\ closer = "Idle" /\ closeQueue = 0 /\ closeOverlay = 0
    /\ monitor = "Idle" /\ inputs = 0 /\ disposed = FALSE

-----------------------------------------------------------------------------
\* Outbound queues: what they are.

Queue(sink) == [sink |-> sink, accepting |-> TRUE, worker |-> "Working", pending |-> <<>>,
                faulted |-> FALSE]
Refusing(queue) == [queue EXCEPT !.accepting = FALSE]
Holding(queue, operation) == [queue EXCEPT !.pending = Append(@, operation)]
Relieved(queue) == [queue EXCEPT !.pending = Tail(@), !.worker = "Working"]
WithWorker(queue, worker) == [queue EXCEPT !.worker = worker]
Faulted(queue) == [queue EXCEPT !.worker = "Ended", !.accepting = FALSE, !.faulted = TRUE]

Retired(qs, q) == IF q = 0 THEN qs ELSE [qs EXCEPT ![q] = Refusing(@)]
WorkerEnded(q) == q # 0 => queues[q].worker = "Ended"

\* OverlayOutboundSink: a resize goes to the root and the overlay, anything
\* else to the overlay only.
Targets(q) ==
    LET sink == queues[q].sink
    IN  IF Head(queues[q].pending) = "Resize" THEN {0, sink} ELSE {sink}

\* The queue's worker waits for the peer of transport t.
Waiting(q, t) ==
    queues[q].worker = "Blocked" /\ t \in MayBlock /\ t \in Targets(q)

-----------------------------------------------------------------------------
\* Transports.

Marked(tr, status) == [tr EXCEPT !.status = status]
Begun(tr) == [tr EXCEPT !.status = "Starting", !.start = "Pending"]
Up(tr) == [tr EXCEPT !.status = "Running", !.start = "Ok"]
Settled(tr, kind) ==
    [tr EXCEPT !.status = "Ended",
               !.result = IF @ = "None" THEN kind ELSE @,
               !.start = IF @ = "Pending" THEN "Threw" ELSE @]

Ended(t) == transport[t].status = "Ended"
EndWith(t, kind) == [transport EXCEPT ![t] = Settled(@, kind)]

\* ITerminalTransport.CloseAsync marks a live transport as closing.
Shut(tr) == IF tr.status \in {"Created", "Starting", "Running"}
            THEN Marked(tr, "Closing") ELSE tr
Closing(t) == [transport EXCEPT ![t] = Shut(@)]

\* Cancelling _lifetime closes every transport that registered for it in its
\* StartAsync; one not started registers nothing.
Cancelled == [t \in Transports |-> IF transport[t].start = "None" THEN transport[t]
                                   ELSE Shut(transport[t])]

sessionVars == <<State, overlay, startingOverlay, outbound, lifetime, pump, completion,
                 start, handlerVars, closerVars, monitor, inputs, disposed>>

\* StartAsync publishes Running,
TransportRuns(t) ==
    /\ transport[t].status = "Starting"
    /\ transport' = [transport EXCEPT ![t] = Up(@)]
    /\ UNCHANGED <<sessionVars, queues>>

\* or fails; a startup cancelled by CloseAsync ends with the closing.
TransportStartFails(t) ==
    /\ transport[t].status = "Starting" /\ PeersFail
    /\ transport' = EndWith(t, "Failure")
    /\ UNCHANGED <<sessionVars, queues>>

\* The reader meets the end of its stream or an error.
TransportEnds(t, kind) ==
    /\ transport[t].status = "Running" /\ (kind = "Failure" => PeersFail)
    /\ transport' = EndWith(t, kind)
    /\ UNCHANGED <<sessionVars, queues>>

\* CloseAsync finishes: it takes the write gate, which a writer waiting for
\* the peer still holds, joins the workers and sets Completion.  An error, or
\* a start that notices the close before its token, makes it a failure.
TransportCloses(t) ==
    /\ transport[t].status = "Closing"
    /\ \A q \in DOMAIN queues : ~Waiting(q, t)
    /\ \/ transport' = EndWith(t, "Other")
       \/ (PeersFail \/ transport[t].start = "Pending") /\ transport' = EndWith(t, "Failure")
    /\ UNCHANGED <<sessionVars, queues>>

\* AcceptOutputAsync refuses a block: the exception ends the reader, which
\* has no close reason to excuse it.
Refuses == State \in {"Created", "Failed", "Closing", "Closed"}
OutputRefused(t) ==
    /\ transport[t].status = "Running" /\ Refuses
    /\ transport' = EndWith(t, "Failure")
    /\ UNCHANGED <<sessionVars, queues>>

-----------------------------------------------------------------------------
\* Outbound queues: what they do.

\* The view enqueues an operation on a queue it still holds.
Enter(q, operation) ==
    /\ inputs < MaxInputs
    /\ queues[q].accepting
    /\ queues' = [queues EXCEPT ![q] = Holding(@, operation)]
    /\ inputs' = inputs + 1
    /\ UNCHANGED <<State, overlay, startingOverlay, outbound, lifetime, pump, completion,
                   start, handlerVars, closerVars, monitor, transport, disposed>>

\* The worker's WriteAsync reaches transports that are all running, or ends
\* its wait for a peer before the transport is closed,
Deliver(q) ==
    /\ queues[q].worker # "Ended" /\ queues[q].pending # <<>>
    /\ \A t \in Targets(q) : transport[t].status = "Running" \/
                              (Waiting(q, t) /\ transport[t].status = "Closing")
    /\ queues' = [queues EXCEPT ![q] = Relieved(@)]
    /\ UNCHANGED <<sessionVars, transport>>

\* waits for the peer of one of them,
Block(q) ==
    /\ queues[q].worker = "Working" /\ queues[q].pending # <<>>
    /\ \E t \in Targets(q) : t \in MayBlock /\ transport[t].status = "Running"
    /\ queues' = [queues EXCEPT ![q] = WithWorker(@, "Blocked")]
    /\ UNCHANGED <<sessionVars, transport>>

\* or throws: a target is not running, or its connection fails under the
\* write, which ends an SSH transport and leaves a WinPTY one to its reader.
WriteThrows(q) ==
    /\ queues[q].worker # "Ended" /\ queues[q].pending # <<>>
    /\ \/ /\ \E t \in Targets(q) : transport[t].status # "Running"
          /\ queues[q].worker = "Blocked" => \E t \in Targets(q) : Waiting(q, t) /\ Ended(t)
          /\ UNCHANGED transport
       \/ /\ queues[q].worker = "Working" /\ PeersFail
          /\ \E t \in Targets(q) :
               /\ transport[t].status = "Running"
               /\ transport' \in {EndWith(t, "Failure")} \cup (IF t = 0 THEN {transport} ELSE {})
    /\ queues' = [queues EXCEPT ![q] = Faulted(@)]
    /\ UNCHANGED sessionVars

\* A queue told to complete ends when nothing is pending.
WorkerCompletes(q) ==
    /\ queues[q].worker = "Working" /\ queues[q].pending = <<>> /\ ~queues[q].accepting
    /\ queues' = [queues EXCEPT ![q] = WithWorker(@, "Ended")]
    /\ UNCHANGED <<sessionVars, transport>>

\* _outbound = new SessionOutboundQueue(NextGeneration(), sink)
Install(sink) ==
    /\ queues' = Append(queues, Queue(sink))
    /\ outbound' = Len(queues')

-----------------------------------------------------------------------------
\* StartAsync.

Start ==
    /\ start = "Idle" /\ State = "Created"
    /\ State' = "StartingRoot" /\ start' = "Starting"
    /\ transport' = [transport EXCEPT ![0] = Begun(@)]
    /\ UNCHANGED <<overlay, startingOverlay, queues, outbound, lifetime, pump, completion,
                   handlerVars, closerVars, monitor, inputs, disposed>>

\* _completion.TrySetResult
TrySet(kind) == IF completion = "None" THEN kind ELSE completion

StartReturns ==
    /\ start = "Starting" /\ transport[0].start = "Ok"
    /\ State = "StartingRoot" /\ ~lifetime
    /\ Install(0)
    /\ State' = "RunningRoot" /\ start' = "Returned" /\ monitor' = "Waiting"
    /\ UNCHANGED <<transport, overlay, startingOverlay, lifetime, pump, completion,
                   handlerVars, closerVars, inputs, disposed>>

StartThrows ==
    /\ start = "Starting"
    /\ \/ transport[0].start = "Threw"
       \/ transport[0].start = "Ok" /\ (State # "StartingRoot" \/ lifetime)
    /\ State' = IF State \in {"Closing", "Closed"} THEN State ELSE "Failed"
    /\ completion' = TrySet(IF lifetime THEN "Other" ELSE "Failure")
    /\ start' = "Threw"
    /\ UNCHANGED <<transport, overlay, startingOverlay, queues, outbound, lifetime, pump,
                   handlerVars, closerVars, monitor, inputs, disposed>>

-----------------------------------------------------------------------------
\* HandleEmbeddedAsync, with StartOverlayAsync and StopOverlayAsync, which it
\* calls without letting them resume the root.

Request ==
    /\ handler = "Idle" /\ requests < MaxOverlays
    /\ start = "Returned"
    /\ requests' = requests + 1 /\ handler' = "Prompt"
    /\ UNCHANGED <<State, transport, overlay, startingOverlay, queues, outbound, lifetime,
                   pump, completion, start, prior, closerVars, monitor, inputs, disposed>>

\* The user cancels the prompt.
Decline ==
    /\ handler = "Prompt"
    /\ handler' = "Returned"
    /\ UNCHANGED <<State, transport, overlay, startingOverlay, queues, outbound, lifetime,
                   pump, completion, start, requests, prior, closerVars, monitor, inputs, disposed>>

\* The handler makes the overlay's transport and calls StartOverlayAsync,
\* which throws when the session is not RunningRoot.
StartRefused ==
    /\ handler = "Prompt" /\ State # "RunningRoot"
    /\ transport' = [transport EXCEPT ![requests] = Marked(@, "Created")]
    /\ handler' = "Returned"
    /\ UNCHANGED <<State, overlay, startingOverlay, queues, outbound, lifetime,
                   pump, completion, start, requests, prior, closerVars, monitor, inputs, disposed>>

StartOverlay ==
    /\ handler = "Prompt" /\ State = "RunningRoot"
    /\ transport' = [transport EXCEPT ![requests] = Marked(@, "Created")]
    /\ State' = "StartingOverlay" /\ startingOverlay' = requests
    /\ prior' = outbound /\ outbound' = 0
    /\ queues' = Retired(queues, outbound)
    /\ handler' = "RetirePrior"
    /\ UNCHANGED <<overlay, lifetime, pump, completion, start, requests,
                   closerVars, monitor, inputs, disposed>>

\* The prior queue has ended; the overlay is started unless the queue
\* faulted, the session was cancelled, or the overlay closed meanwhile.
PriorRetiredUnawaited ==
    /\ handler = "RetirePrior" /\ handler' = "Starting"
    /\ transport[requests].status = "Created"
    /\ transport' = [transport EXCEPT ![requests] = Begun(@)]
    /\ UNCHANGED <<State, overlay, startingOverlay, queues, outbound, lifetime, pump,
                   completion, start, requests, prior, closerVars, monitor, inputs, disposed>>
PriorRetired ==
    /\ handler = "RetirePrior" /\ WorkerEnded(prior)
    /\ IF queues[prior].faulted \/ lifetime \/ transport[requests].status # "Created"
       THEN /\ handler' = "CatchClose" /\ UNCHANGED transport
       ELSE /\ handler' = "Starting"
            /\ transport' = [transport EXCEPT ![requests] = Begun(@)]
    /\ UNCHANGED <<State, overlay, startingOverlay, queues, outbound, lifetime, pump,
                   completion, start, requests, prior, closerVars, monitor, inputs, disposed>>

OverlayStarted ==
    /\ handler = "Starting" /\ transport[requests].start = "Ok"
    /\ State = "StartingOverlay" /\ ~lifetime
    /\ overlay' = requests /\ startingOverlay' = 0
    /\ Install(requests)
    /\ State' = "RunningOverlay" /\ handler' = "Running"
    /\ UNCHANGED <<transport, lifetime, pump, completion, start, requests, prior,
                   closerVars, monitor, inputs, disposed>>

OverlayNotStarted ==
    /\ handler = "Starting"
    /\ \/ transport[requests].start = "Threw"
       \/ transport[requests].start = "Ok" /\ (State # "StartingOverlay" \/ lifetime)
    /\ handler' = "CatchClose"
    /\ UNCHANGED <<State, transport, overlay, startingOverlay, queues, outbound, lifetime,
                   pump, completion, start, requests, prior, closerVars, monitor, inputs, disposed>>

\* The catch block closes the overlay,
CatchCloseForgets ==
    /\ handler = "CatchClose"
    /\ transport' = Closing(requests)
    /\ startingOverlay' = 0
    /\ handler' = "CatchJoin"
    /\ UNCHANGED <<State, overlay, queues, outbound, lifetime, pump, completion, start,
                   requests, prior, closerVars, monitor, inputs, disposed>>
CatchClose ==
    /\ handler = "CatchClose"
    /\ transport' = Closing(requests)
    /\ handler' = "CatchJoin"
    /\ UNCHANGED <<State, overlay, startingOverlay, queues, outbound, lifetime, pump,
                   completion, start, requests, prior, closerVars, monitor, inputs, disposed>>

\* and forgets it once its workers have settled.
CatchJoinedStays ==
    /\ handler = "CatchJoin" /\ Ended(requests)
    /\ overlay' = IF overlay = requests THEN 0 ELSE overlay
    /\ startingOverlay' = IF startingOverlay = requests THEN 0 ELSE startingOverlay
    /\ handler' = "Returned"
    /\ UNCHANGED <<State, transport, queues, outbound, lifetime, pump, completion, start,
                   requests, prior, closerVars, monitor, inputs, disposed>>
CatchJoined ==
    /\ handler = "CatchJoin" /\ Ended(requests)
    /\ overlay' = IF overlay = requests THEN 0 ELSE overlay
    /\ startingOverlay' = IF startingOverlay = requests THEN 0 ELSE startingOverlay
    /\ State' = IF ~lifetime /\ State = "StartingOverlay" THEN "StoppingOverlay" ELSE State
    /\ handler' = "Returned"
    /\ UNCHANGED <<transport, queues, outbound, lifetime, pump, completion, start, requests,
                   prior, closerVars, monitor, inputs, disposed>>

\* overlay.Completion: StopOverlayAsync, unless the session has moved on.
StopOverlayKeepsQueue ==
    /\ handler = "Running" /\ Ended(requests)
    /\ handler' = "Returned"
    /\ State' = IF State = "RunningOverlay" THEN "StoppingOverlay" ELSE State
    /\ UNCHANGED <<transport, overlay, startingOverlay, queues, outbound, lifetime, pump,
                   completion, start, requests, prior, closerVars, monitor, inputs, disposed>>
StopOverlay ==
    /\ handler = "Running" /\ Ended(requests)
    /\ IF State = "RunningOverlay"
       THEN /\ State' = "StoppingOverlay"
            /\ prior' = outbound /\ outbound' = 0
            /\ queues' = Retired(queues, outbound)
            /\ handler' = "StopRetire"
       ELSE /\ handler' = "Returned"
            /\ UNCHANGED <<State, prior, outbound, queues>>
    /\ UNCHANGED <<transport, overlay, startingOverlay, lifetime, pump, completion, start,
                   requests, closerVars, monitor, inputs, disposed>>

\* RetireOutboundAsync ignores a fault; the overlay has ended already.
OverlayStopped ==
    /\ handler = "StopRetire" /\ WorkerEnded(prior)
    /\ overlay' = 0
    /\ handler' = "Returned"
    /\ UNCHANGED <<State, transport, startingOverlay, queues, outbound, lifetime, pump,
                   completion, start, requests, prior, closerVars, monitor, inputs, disposed>>

\* ResumeRootAfterCompleteAsync and ResumeRoot: the request is over.
ResumeRootUnchecked ==
    /\ handler = "Returned"
    /\ handler' = "Idle"
    /\ State' = "RunningRoot" /\ Install(0)
    /\ UNCHANGED <<transport, overlay, startingOverlay, lifetime, pump, completion, start,
                   requests, prior, closerVars, monitor, inputs, disposed>>
ResumeRoot ==
    /\ handler = "Returned"
    /\ handler' = "Idle"
    /\ IF State = "StoppingOverlay" /\ ~lifetime
       THEN State' = "RunningRoot" /\ Install(0)
       ELSE UNCHANGED <<State, queues, outbound>>
    /\ UNCHANGED <<transport, overlay, startingOverlay, lifetime, pump, completion, start,
                   requests, prior, closerVars, monitor, inputs, disposed>>

\* DisconnectAsync closes the overlay the coordinator holds.
Disconnect ==
    /\ handler \in {"RetirePrior", "Starting", "Running", "CatchClose", "CatchJoin"}
    /\ transport' = Closing(requests)
    /\ UNCHANGED <<sessionVars, queues>>

-----------------------------------------------------------------------------
\* CloseAsync and CloseCoreAsync.

\* _overlay ?? _startingOverlay
OnlyRunningOverlay == overlay
OverlayToClose == IF overlay # 0 THEN overlay ELSE startingOverlay

\* The first part of CloseCoreAsync, up to its first await.
BeginClose ==
    /\ closer = "Idle"
    /\ IF State = "Created"
       THEN /\ State' = "Closed" /\ pump' = "Disposed" /\ completion' = TrySet("Other")
            /\ closer' = "Done"
            /\ UNCHANGED <<transport, queues, outbound, lifetime, closeQueue, closeOverlay>>
       ELSE /\ State' = "Closing"
            /\ closeQueue' = outbound /\ outbound' = 0
            /\ closeOverlay' = OverlayToClose
            /\ lifetime' = (lifetime \/ State \in {"StartingRoot", "StartingOverlay"})
            /\ transport' = IF lifetime' THEN Cancelled ELSE transport
            /\ queues' = Retired(queues, outbound)
            /\ closer' = "Retire"
            /\ UNCHANGED <<pump, completion>>

\* The window closes, or another profile replaces the session.
Close ==
    /\ BeginClose
    /\ UNCHANGED <<overlay, startingOverlay, start, handlerVars, monitor, inputs, disposed>>

CloseRetired ==
    /\ closer = "Retire" /\ WorkerEnded(closeQueue)
    /\ closer' = "Overlay"
    /\ transport' = IF closeOverlay = 0 THEN transport ELSE Closing(closeOverlay)
    /\ UNCHANGED <<State, overlay, startingOverlay, queues, outbound, lifetime, pump,
                   completion, start, handlerVars, closeQueue, closeOverlay, monitor, inputs, disposed>>

CloseOverlayJoinedOnly ==
    /\ closer = "Overlay" /\ (closeOverlay = 0 \/ Ended(closeOverlay))
    /\ closer' = "Root"
    /\ UNCHANGED <<State, transport, overlay, startingOverlay, queues, outbound, lifetime,
                   pump, completion, start, handlerVars, closeQueue, closeOverlay, monitor,
                   inputs, disposed>>
CloseOverlayJoined ==
    /\ closer = "Overlay" /\ (closeOverlay = 0 \/ Ended(closeOverlay))
    /\ IF closeOverlay = 0 THEN UNCHANGED <<overlay, startingOverlay>>
                           ELSE overlay' = 0 /\ startingOverlay' = 0
    /\ transport' = Closing(0)
    /\ closer' = "Root"
    /\ UNCHANGED <<State, queues, outbound, lifetime, pump, completion, start, handlerVars,
                   closeQueue, closeOverlay, monitor, inputs, disposed>>

CloseRootJoined ==
    /\ closer = "Root" /\ Ended(0)
    /\ closer' = "Pump"
    /\ UNCHANGED <<State, transport, overlay, startingOverlay, queues, outbound, lifetime,
                   pump, completion, start, handlerVars, closeQueue, closeOverlay, monitor,
                   inputs, disposed>>

\* The pump drains and ends, and the result is published,
CloseFinishes ==
    /\ closer = "Pump"
    /\ pump' = "Disposed"
    /\ State' = IF transport[0].result = "Failure" THEN "Failed" ELSE "Closed"
    /\ completion' = TrySet(IF transport[0].result = "Failure" THEN "Failure" ELSE "Other")
    /\ closer' = "Done"
    /\ UNCHANGED <<transport, overlay, startingOverlay, queues, outbound, lifetime, start,
                   handlerVars, closeQueue, closeOverlay, monitor, inputs, disposed>>

\* or closing throws: WinPTY's reader outlives its five seconds, or the
\* document refused the end of the stream.
CloseThrows ==
    /\ \/ closer = "Root" /\ transport[0].status = "Closing" /\ transport[0].start = "Ok"
       \/ closer = "Pump"
    /\ closer' = "Faulted"
    /\ UNCHANGED <<State, transport, overlay, startingOverlay, queues, outbound, lifetime,
                   pump, completion, start, handlerVars, closeQueue, closeOverlay, monitor,
                   inputs, disposed>>

\* MonitorRootAsync: the root's completion closes the session,
MonitorCloses ==
    /\ monitor = "Waiting" /\ Ended(0)
    /\ monitor' = "Closing"
    /\ IF closer = "Idle"
       THEN BeginClose
       ELSE UNCHANGED <<State, transport, queues, outbound, lifetime, pump, completion,
                        closerVars>>
    /\ UNCHANGED <<overlay, startingOverlay, start, handlerVars, inputs, disposed>>

\* and a closing that threw leaves it Failed.
MonitorEndsSilently ==
    /\ monitor = "Closing" /\ closer \in {"Done", "Faulted"}
    /\ monitor' = "Done"
    /\ State' = IF closer = "Faulted" THEN "Failed" ELSE State
    /\ UNCHANGED <<transport, overlay, startingOverlay, queues, outbound, lifetime, pump,
                   completion, start, handlerVars, closerVars, inputs, disposed>>
MonitorEnds ==
    /\ monitor = "Closing" /\ closer \in {"Done", "Faulted"}
    /\ monitor' = "Done"
    /\ IF closer = "Faulted"
       THEN State' = "Failed" /\ completion' = TrySet("Failure")
       ELSE UNCHANGED <<State, completion>>
    /\ UNCHANGED <<transport, overlay, startingOverlay, queues, outbound, lifetime, pump,
                   start, handlerVars, closerVars, inputs, disposed>>

\* The window disposes of the session when its closing has returned or
\* thrown; disposing of the root joins what is left of it.
Dispose ==
    /\ closer \in {"Done", "Faulted"} /\ ~disposed
    /\ disposed' = TRUE /\ lifetime' = TRUE /\ pump' = "Disposed"
    /\ transport' = EndWith(0, "Other")
    /\ UNCHANGED <<State, overlay, startingOverlay, queues, outbound, completion, start,
                   handlerVars, closerVars, monitor, inputs>>

-----------------------------------------------------------------------------
TransportStep(t) ==
    \/ TransportRuns(t) \/ TransportStartFails(t) \/ TransportCloses(t) \/ OutputRefused(t)
    \/ \E kind \in {"Other", "Failure"} : TransportEnds(t, kind)

Worker(q) == Deliver(q) \/ Block(q) \/ WriteThrows(q) \/ WorkerCompletes(q)

StartSteps == StartReturns \/ StartThrows
HandlerSteps ==
    \/ PriorRetired \/ OverlayStarted \/ OverlayNotStarted \/ CatchClose \/ CatchJoined
    \/ StopOverlay \/ OverlayStopped \/ ResumeRoot
CloserSteps ==
    CloseRetired \/ CloseOverlayJoined \/ CloseRootJoined \/ CloseFinishes \/ CloseThrows
MonitorSteps == MonitorCloses \/ MonitorEnds

Next ==
    \/ Start \/ StartSteps
    \/ Request \/ Decline \/ StartRefused \/ StartOverlay \/ HandlerSteps \/ Disconnect
    \/ Close \/ CloserSteps \/ MonitorSteps \/ Dispose
    \/ \E t \in Transports : TransportStep(t)
    \/ \E q \in DOMAIN queues :
         Worker(q) \/ \E operation \in Operations : Enter(q, operation)

Spec == Init /\ [][Next]_vars

\* The steps of a worker that no peer holds up.
Progress(q) ==
    /\ q \in DOMAIN queues
    /\ \/ queues[q].worker = "Working" /\ (Deliver(q) \/ WorkerCompletes(q))
       \/ WriteThrows(q)

\* Tasks run: an async method whose await is over continues, a close joins its
\* workers, and a worker drains its queue.  What the user and the peers do is
\* left to them, and with it whether a startup ends: its deadlines pause while
\* a person is asked about a host key, until the answer or a cancellation.
FairSpec ==
    /\ Spec
    /\ WF_vars(StartSteps) /\ WF_vars(HandlerSteps) /\ WF_vars(CloserSteps)
    /\ WF_vars(MonitorSteps)
    /\ \A t \in Transports : WF_vars(TransportCloses(t))
    /\ \A q \in 1..(1 + 2 * MaxOverlays) : WF_vars(Progress(q))

-----------------------------------------------------------------------------
\* Input goes where the state says: there is a queue to enter it on exactly
\* in RunningRoot, leading to the root, and in RunningOverlay, leading to the
\* overlay the session owns.
DestinationFollowsState ==
    /\ outbound # 0 <=> State \in Running
    /\ State = "RunningRoot" => queues[outbound].sink = 0
    /\ State = "RunningOverlay" => queues[outbound].sink = overlay /\ overlay # 0

\* Nothing is buffered across a change of destination: at most one queue
\* still has a worker, so a queue is made only when all earlier ones have
\* delivered or dropped what they held.
OneWriter ==
    \A q, r \in DOMAIN queues :
        queues[q].worker # "Ended" /\ queues[r].worker # "Ended" => q = r

\* Input has one destination, the one of the session's state, across every
\* handoff, failed start, disconnect and close.
InputFollowsState == DestinationFollowsState /\ OneWriter

\* An overlay that is starting, running or closing is one the session still
\* refers to, so that a concurrent close can join it.
OverlayOwned ==
    \A t \in Transports \ {0} :
        transport[t].status \in {"Starting", "Running", "Closing"} =>
            t \in {overlay, startingOverlay, closeOverlay}

\* A close that has returned leaves nothing behind: every transport that was
\* started has ended, the pump is disposed of and no queue takes input.  (The
\* worker of a queue that a request is still retiring may be left, with
\* nowhere to write to.)
CloseLeavesNothing ==
    closer = "Done" =>
        /\ \A t \in Transports : transport[t].status \in {"Unmade", "Created", "Ended"}
        /\ \A q \in DOMAIN queues : ~queues[q].accepting
        /\ pump = "Disposed" /\ outbound = 0

\* Whatever a request or the session has started, somebody closes: it has an
\* owner until it has ended, and it has ended when the close returns.
CloseReleasesAll == OverlayOwned /\ CloseLeavesNothing

\* A session that closes or has failed never runs again, whatever request was
\* being handled meanwhile.
NoRevival ==
    [][(State \in Over) => (State' \in Over)]_vars

\* Every write comes to an end.
WritesEnd == []<>(\A q \in DOMAIN queues : queues[q].worker # "Blocked")

\* A close that was begun returns or throws, if peers let writes end.
CloseEnds == WritesEnd => ((closer # "Idle") ~> (closer \in {"Done", "Faulted"}))

\* Every startup comes to an end: whoever is asked about a host key answers.
StartsEnd == []<>(\A t \in Transports : transport[t].status # "Starting")

\* Input reopens after every handoff, however it went: a session that is
\* starting or stopping an overlay gets back to a running state or closes, if
\* peers let writes end and people answer.
InputReopens ==
    WritesEnd /\ StartsEnd =>
        ((State \in {"StartingOverlay", "StoppingOverlay"}) ~> (State \in Running \cup Over))

\* The exit of the root's process or connection ends the session, if the
\* overlay's peer lets writes end.
RootExitEndsSession ==
    WritesEnd => ((start = "Returned" /\ Ended(0)) ~> (completion # "None"))

\* A session that has to end does, and stays so: closes return, the root's
\* exit publishes the completion, and no late handler revives the session.
SessionEnds == NoRevival /\ CloseEnds /\ RootExitEndsSession

-----------------------------------------------------------------------------
\* What the design documents say and the code does not do; no run checks these.

\* Closing a session is bounded: it returns or throws, whatever peers do.
CloseBounded == (closer # "Idle") ~> (closer \in {"Done", "Faulted"})

\* The transport made for a request is released, with its credentials, by
\* the time the request is over.
OverlayReleased ==
    handler = "Idle" =>
        \A t \in Transports \ {0} : transport[t].status \in {"Unmade", "Ended"}

\* Cancellation and transport failure stay distinct: where nothing fails, the
\* root is not reported as failed.
OutcomeDistinct == ~PeersFail => transport[0].result # "Failure"
=============================================================================
