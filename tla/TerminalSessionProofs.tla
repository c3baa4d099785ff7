----------------------- MODULE TerminalSessionProofs -----------------------
(***************************************************************************)
(* The theorems of TerminalSession, for any number of requests and of      *)
(* operations entered, and whichever transports can block:                 *)
(*   SessionInputFollowsState - input has one destination, the state's;    *)
(*   SessionCloseReleasesAll  - an overlay has an owner until it has ended,*)
(*     and a close that returned leaves nothing behind;                    *)
(*   SessionNeverRevives      - a session that is over stays so.           *)
(* They rest on the inductive invariant IInv.  It ties the three places    *)
(* that move independently, the handler, the closer and State, to each     *)
(* other, and each queue with a worker and each live overlay to the one of *)
(* them that is waiting for it.                                            *)
(***************************************************************************)
EXTENDS TerminalSession, TLAPS

Statuses == {"Unmade", "Created", "Starting", "Running", "Closing", "Ended"}
TransportRecord ==
    [status : Statuses, start : {"None", "Pending", "Ok", "Threw"},
     result : {"None", "Failure", "Other"}]
QueueRecord ==
    [sink : Transports, accepting : BOOLEAN, worker : {"Working", "Blocked", "Ended"},
     pending : Seq(Operations), faulted : BOOLEAN]

\* The places of the session's tasks and the values of its fields.
PlacesOK ==
    /\ State \in {"Created", "StartingRoot", "StartingOverlay", "StoppingOverlay"}
                   \cup Running \cup Over
    /\ lifetime \in BOOLEAN /\ disposed \in BOOLEAN
    /\ pump \in {"Open", "Disposed"} /\ completion \in {"None", "Failure", "Other"}
    /\ start \in {"Idle", "Starting", "Returned", "Threw"}
    /\ handler \in {"Idle", "Prompt", "RetirePrior", "Starting", "CatchClose", "CatchJoin",
                    "Running", "StopRetire", "Returned"}
    /\ closer \in {"Idle", "Retire", "Overlay", "Root", "Pump", "Done", "Faulted"}
    /\ monitor \in {"Idle", "Waiting", "Closing", "Done"}

RefsOK ==
    /\ overlay \in Transports /\ startingOverlay \in Transports /\ closeOverlay \in Transports
    /\ requests \in Transports
    /\ outbound \in 0..Len(queues) /\ prior \in 0..Len(queues) /\ closeQueue \in 0..Len(queues)
    /\ inputs \in Nat

TypeOK ==
    /\ PlacesOK /\ RefsOK
    /\ transport \in [Transports -> TransportRecord]
    /\ queues \in Seq(QueueRecord)

Busy == {"RetirePrior", "Starting", "CatchClose", "CatchJoin", "Running"}
Retiring == {"RetirePrior", "StopRetire"}
Live == {"Starting", "Running", "Closing"}

\* State against StartAsync and CloseCoreAsync.
PhaseInv ==
    /\ State = "Created" => start = "Idle"
    /\ State = "StartingRoot" => start = "Starting"
    /\ State \in Running \cup {"StartingOverlay", "StoppingOverlay"} => start = "Returned"
    /\ State = "Failed" /\ closer = "Idle" => start = "Threw"
    /\ State \in {"Closing", "Closed"} => closer # "Idle"
    /\ closer # "Idle" => State \in Over
    /\ start # "Returned" =>
         handler = "Idle" /\ queues = <<>> /\ overlay = 0 /\ startingOverlay = 0

\* State against the handler: while nobody closes, each knows where the other
\* is; a close that meets a busy handler has taken its overlay.
HandlerInv ==
    /\ State = "RunningRoot" =>
         handler \in {"Idle", "Prompt", "Returned"} /\ overlay = 0 /\ startingOverlay = 0
    /\ State = "StartingOverlay" =>
         handler \in Busy \ {"Running"} /\ overlay = 0 /\ startingOverlay = requests
    /\ State = "RunningOverlay" =>
         handler = "Running" /\ overlay = requests /\ startingOverlay = 0
    /\ State = "StoppingOverlay" =>
         /\ handler \in {"StopRetire", "Returned"} /\ startingOverlay = 0
         /\ overlay # 0 => Ended(overlay) /\ handler = "StopRetire"
    /\ handler \in Retiring /\ closer = "Idle" =>
         State \in {"StartingOverlay", "StoppingOverlay"}
    /\ handler \in Busy /\ closer = "Idle" =>
         State \in {"StartingOverlay", "RunningOverlay"}
    /\ handler \in Busy /\ closer # "Idle" =>
         closeOverlay = requests /\ (handler = "RetirePrior" => lifetime)
    /\ handler \in Busy \cup {"Prompt"} => requests # 0

\* A queue that accepts is the session's; one with a worker is the session's
\* or one that the handler or the closer is waiting for, never both.
QueueInv ==
    /\ outbound # 0 <=> State \in Running
    /\ State = "RunningRoot" => queues[outbound].sink = 0
    /\ State = "RunningOverlay" => queues[outbound].sink = requests
    /\ closer = "Idle" \/ handler \in Retiring => closeQueue = 0
    /\ \A q \in DOMAIN queues :
         /\ queues[q].accepting => q = outbound
         /\ queues[q].worker # "Ended" =>
              q = outbound \/ (q = prior /\ handler \in Retiring) \/ q = closeQueue

\* What the closer has passed has ended.
CloseInv ==
    /\ closer = "Idle" => closeOverlay = 0 /\ ~lifetime
    /\ closeOverlay # 0 => Ended(closeOverlay) \/ (handler \in Busy /\ closeOverlay = requests)
    /\ closer \in {"Root", "Pump", "Done", "Faulted"} =>
         closeOverlay = 0 \/ Ended(closeOverlay)
    /\ closer = "Pump" => Ended(0)
    /\ closer = "Done" => transport[0].status \in {"Created", "Ended"} /\ pump = "Disposed"

\* A live overlay is the one of the request being handled.
TransportInv ==
    /\ State = "Created" => transport[0].status = "Created"
    /\ \A t \in Transports :
        transport[t].status \in {"Unmade", "Created"} => transport[t].start = "None"
    /\ \A t \in Transports \ {0} :
        /\ transport[t].status \in Live => t = requests /\ handler \in Busy
        /\ t > requests => transport[t].status = "Unmade"
    /\ handler = "Prompt" => transport[requests].status = "Unmade"

IInv == TypeOK /\ PhaseInv /\ HandlerInv /\ QueueInv /\ CloseInv /\ TransportInv

-----------------------------------------------------------------------------
\* The records of transports and queues.

\* The root is a transport.
LEMMA RootIsTransport == 0 \in Transports
BY SessionAssumption DEF Transports

\* Marked sets the status of a transport and nothing else.
LEMMA MarkedFacts ==
    ASSUME NEW tr \in TransportRecord, NEW s \in Statuses
    PROVE  /\ Marked(tr, s) \in TransportRecord /\ Marked(tr, s).status = s
           /\ Marked(tr, s).start = tr.start
BY Zenon DEF Marked, TransportRecord

\* Begun is a transport whose StartAsync is pending.
LEMMA BegunFacts ==
    ASSUME NEW tr \in TransportRecord
    PROVE  Begun(tr) \in TransportRecord /\ Begun(tr).status = "Starting"
BY Zenon DEF Begun, TransportRecord, Statuses

\* Up is a transport whose StartAsync has returned.
LEMMA UpFacts ==
    ASSUME NEW tr \in TransportRecord
    PROVE  Up(tr) \in TransportRecord /\ Up(tr).status = "Running"
BY Zenon DEF Up, TransportRecord, Statuses

\* Settled is a transport that has ended.
LEMMA SettledFacts ==
    ASSUME NEW tr \in TransportRecord, NEW kind \in {"Failure", "Other"}
    PROVE  Settled(tr, kind) \in TransportRecord /\ Settled(tr, kind).status = "Ended"
BY Zenon DEF Settled, TransportRecord, Statuses

\* A queue keeps its sink, takes input no longer than before, and keeps a
\* worker no longer than before.
Wears(queue, after) ==
    /\ after \in QueueRecord /\ after.sink = queue.sink
    /\ after.accepting => queue.accepting
    /\ after.worker # "Ended" => queue.worker # "Ended"

\* A queue told to complete wears.
LEMMA RefusingWears ==
    ASSUME NEW queue \in QueueRecord
    PROVE  Wears(queue, Refusing(queue)) /\ ~Refusing(queue).accepting
BY Zenon DEF Refusing, QueueRecord, Wears

\* A queue that is entered an operation wears.
LEMMA HoldingWears ==
    ASSUME NEW queue \in QueueRecord, NEW operation \in Operations
    PROVE  Wears(queue, Holding(queue, operation))
<1>1. queue.pending \in Seq(Operations)
    BY Zenon DEF QueueRecord
<1>2. Append(queue.pending, operation) \in Seq(Operations)
    BY <1>1
<1> QED BY <1>2, Zenon DEF Holding, QueueRecord, Wears

\* A queue whose worker has delivered an operation wears.
LEMMA RelievedWears ==
    ASSUME NEW queue \in QueueRecord, queue.pending # <<>>, queue.worker # "Ended"
    PROVE  Wears(queue, Relieved(queue))
<1>1. queue.pending \in Seq(Operations)
    BY Zenon DEF QueueRecord
<1>2. Tail(queue.pending) \in Seq(Operations)
    BY <1>1
<1> QED BY <1>2, Zenon DEF Relieved, QueueRecord, Wears

\* A queue whose worker blocks or ends wears.
LEMMA WithWorkerWears ==
    ASSUME NEW queue \in QueueRecord, NEW w \in {"Blocked", "Ended"}, queue.worker # "Ended"
    PROVE  Wears(queue, WithWorker(queue, w))
BY Zenon DEF WithWorker, QueueRecord, Wears

\* A queue whose worker has thrown wears.
LEMMA FaultedWears ==
    ASSUME NEW queue \in QueueRecord
    PROVE  Wears(queue, Faulted(queue))
BY Zenon DEF Faulted, QueueRecord, Wears

-----------------------------------------------------------------------------
\* What the steps do to transports and queues.

\* No transport comes back to life: one that has ended or was never made
\* stays so, and only s may start or begin to close.
Tame(s) ==
    /\ transport' \in [Transports -> TransportRecord]
    /\ \A t \in Transports :
         /\ transport[t].status = "Ended" => transport'[t].status = "Ended"
         /\ t # 0 /\ transport[t].status = "Unmade" => transport'[t].status = "Unmade"
         /\ transport'[t].status \in {"Unmade", "Created"} => transport'[t] = transport[t]
         /\ transport[t].status \in {"Unmade", "Created"} =>
              transport'[t] = transport[t] \/ t = s
         /\ transport'[t].status \in Live => transport[t].status \in Live \/ t = s

\* No transport's number.
Nobody == MaxOverlays + 1

\* The session keeps its queues, and each of them wears.
QueuesWear ==
    /\ queues' \in Seq(QueueRecord) /\ Len(queues') = Len(queues)
    /\ \A q \in DOMAIN queues : Wears(queues[q], queues'[q])

\* A transport that is left alone is tame.
LEMMA UnchangedTame ==
    ASSUME transport \in [Transports -> TransportRecord], UNCHANGED transport
    PROVE  Tame(Nobody)
BY DEF Tame

\* A tame step leaves every transport with a status.
LEMMA TameStatuses ==
    ASSUME NEW s, Tame(s)
    PROVE  \A t \in Transports : transport'[t].status \in Statuses
BY DEF Tame, TransportRecord

\* A tame step keeps the transports in order if the one it touches is the
\* root, has ended or belongs to the request being handled.
LEMMA TameTransports ==
    ASSUME IInv, NEW s, Tame(s), requests' = requests,
           State' = "Created" => transport'[0].status = "Created",
           handler \in Busy => handler' \in Busy, handler' = "Prompt" => handler = "Prompt",
           s \in Transports \ {0} => Ended(s) \/ (s = requests /\ handler' \in Busy)
    PROVE  TransportInv'
<1>1. \A t \in Transports : transport'[t].status \in {"Unmade", "Created"} =>
         transport'[t].start = "None"
    BY Zenon DEF IInv, TransportInv, Tame
<1>2. ASSUME NEW t \in Transports \ {0}, transport'[t].status \in Live
      PROVE  t = requests /\ handler' \in Busy
  <2>1. CASE t = s
    <3>1. ~Ended(s)
        BY <1>2, <2>1 DEF Tame, Ended, Live
    <3> QED BY <2>1, <3>1, Zenon
  <2>2. CASE t # s
      BY <1>2, <2>2, Zenon DEF IInv, TransportInv, Tame
  <2> QED BY <2>1, <2>2
<1>3. ASSUME NEW t \in Transports \ {0}, t > requests
      PROVE  transport'[t].status = "Unmade"
    BY <1>3, Zenon DEF IInv, TransportInv, Tame
<1>4. handler' = "Prompt" => transport'[requests].status = "Unmade"
    BY Zenon DEF IInv, TypeOK, RefsOK, HandlerInv, TransportInv, Tame
<1> QED BY <1>1, <1>2, <1>3, <1>4, Zenon DEF TransportInv

\* CloseAsync marks a live transport as closing.
LEMMA ShutFacts ==
    ASSUME NEW tr \in TransportRecord
    PROVE  /\ Shut(tr) \in TransportRecord
           /\ \/ Shut(tr) = tr
              \/ Shut(tr).status = "Closing"
                 /\ tr.status \in {"Created", "Starting", "Running"}
BY MarkedFacts DEF Shut, Statuses

\* Closing one transport is tame.
LEMMA ClosingTame ==
    ASSUME transport \in [Transports -> TransportRecord], NEW s \in Transports,
           transport' = Closing(s)
    PROVE  Tame(s)
BY ShutFacts DEF Closing, Tame, Live

\* Cancelling the lifetime closes only transports that had been started.
LEMMA CancelledTame ==
    ASSUME TypeOK, TransportInv, transport' = Cancelled
    PROVE  Tame(Nobody)
<1>1. ASSUME NEW t \in Transports
      PROVE  /\ Shut(transport[t]) \in TransportRecord
             /\ \/ Shut(transport[t]) = transport[t]
                \/ /\ Shut(transport[t]).status = "Closing"
                   /\ transport[t].status \in {"Created", "Starting", "Running"}
    BY ShutFacts DEF TypeOK
<1>2. transport' \in [Transports -> TransportRecord]
    BY <1>1 DEF Cancelled, TypeOK
<1>3. ASSUME NEW t \in Transports
      PROVE  \/ transport'[t] = transport[t]
             \/ /\ transport'[t].status = "Closing"
                /\ transport[t].status \in {"Starting", "Running"}
    BY <1>1 DEF Cancelled, TransportInv
<1> QED BY <1>2, <1>3 DEF Tame, Live

\* Settling a transport that was made is tame.
LEMMA EndWithTame ==
    ASSUME transport \in [Transports -> TransportRecord], NEW t \in Transports, NEW s,
           s = t \/ transport[t].status \notin {"Unmade", "Created"},
           t # 0 => transport[t].status # "Unmade",
           NEW kind \in {"Failure", "Other"}, transport' = EndWith(t, kind)
    PROVE  Tame(s) /\ transport'[t].status = "Ended"
<1>1. transport[t] \in TransportRecord
    OBVIOUS
<1>2. /\ Settled(transport[t], kind) \in TransportRecord
      /\ Settled(transport[t], kind).status = "Ended"
    BY <1>1, SettledFacts
<1>3. transport' = [transport EXCEPT ![t] = Settled(transport[t], kind)]
    BY DEF EndWith
<1> DEFINE tr == Settled(transport[t], kind)
<1>4. tr \in TransportRecord /\ tr.status = "Ended"
      /\ transport' = [transport EXCEPT ![t] = tr]
    BY <1>2, <1>3
<1> HIDE DEF tr
<1>5. Tame(s)
    BY <1>4 DEF Tame, Live
<1> QED BY <1>4, <1>5

\* Queues left alone wear.
LEMMA UnchangedWear ==
    ASSUME queues \in Seq(QueueRecord), UNCHANGED queues
    PROVE  QueuesWear
BY DEF QueuesWear, Wears

\* So do queues one of which wears.
LEMMA UpdateWear ==
    ASSUME queues \in Seq(QueueRecord), NEW q \in DOMAIN queues, NEW queue,
           Wears(queues[q], queue), queues' = [queues EXCEPT ![q] = queue]
    PROVE  QueuesWear /\ queues'[q] = queue
<1>1. queue \in QueueRecord
    BY DEF Wears
<1>2. DOMAIN queues = 1..Len(queues) /\ Len(queues) \in Nat
    OBVIOUS
<1>3. queues' \in Seq(QueueRecord) /\ Len(queues') = Len(queues)
    BY <1>1, <1>2
<1>4. queues'[q] = queue
    BY <1>2
<1>5. ASSUME NEW r \in DOMAIN queues, r # q
      PROVE  queues'[r] = queues[r]
    BY <1>5
<1>6. ASSUME NEW r \in DOMAIN queues
      PROVE  Wears(queues[r], queues[r])
    BY <1>2 DEF Wears
<1> QED BY <1>3, <1>4, <1>5, <1>6 DEF QueuesWear

\* A queue that is told to complete takes nothing more.
LEMMA RetiredWear ==
    ASSUME queues \in Seq(QueueRecord), NEW q \in 0..Len(queues),
           queues' = Retired(queues, q)
    PROVE  QueuesWear /\ (q # 0 => ~queues'[q].accepting)
<1>1. CASE q = 0
    BY <1>1, UnchangedWear DEF Retired
<1>2. CASE q # 0
  <2>1. q \in DOMAIN queues /\ queues[q] \in QueueRecord
      BY <1>2
  <2>2. queues' = [queues EXCEPT ![q] = Refusing(queues[q])]
      BY <1>2 DEF Retired
  <2>3. Wears(queues[q], Refusing(queues[q])) /\ ~Refusing(queues[q]).accepting
      BY <2>1, RefusingWears
  <2> DEFINE queue == Refusing(queues[q])
  <2>4. Wears(queues[q],
      queue) /\ ~queue.accepting /\ queues' = [queues EXCEPT ![q] = queue]
      BY <2>2, <2>3
  <2> HIDE DEF queue
  <2>5. QueuesWear /\ queues'[q] = queue
      BY <2>1, <2>4, UpdateWear, Zenon
  <2> QED BY <2>4, <2>5
<1> QED BY <1>1, <1>2

\* Queues that wear are as many as before.
LEMMA WearDomain ==
    ASSUME queues \in Seq(QueueRecord), QueuesWear
    PROVE  /\ queues' \in Seq(QueueRecord) /\ Len(queues') = Len(queues)
           /\ DOMAIN queues' = DOMAIN queues
<1>1. queues' \in Seq(QueueRecord) /\ Len(queues') = Len(queues)
    BY DEF QueuesWear
<1>2. DOMAIN queues' = 1..Len(queues')
    BY <1>1
<1>3. DOMAIN queues = 1..Len(queues)
    OBVIOUS
<1> QED BY <1>1, <1>2, <1>3

\* An empty list of queues that wear stays empty.
LEMMA NoQueuesWear ==
    ASSUME queues = <<>>, QueuesWear
    PROVE  queues' = <<>>
BY DEF QueuesWear

\* Telling the session's queue to complete.
LEMMA OutboundRetired ==
    ASSUME TypeOK, queues' = Retired(queues, outbound)
    PROVE  /\ queues' \in Seq(QueueRecord) /\ Len(queues') = Len(queues)
           /\ DOMAIN queues' = DOMAIN queues
           /\ \A q \in DOMAIN queues : Wears(queues[q], queues'[q])
           /\ outbound # 0 => ~queues'[outbound].accepting
<1>1. PICK q \in 0..Len(queues) : q = outbound
    BY DEF TypeOK, RefsOK
<1>2. queues' = Retired(queues, q)
    BY <1>1
<1>3. QueuesWear /\ (q # 0 => ~queues'[q].accepting)
    BY <1>2, RetiredWear DEF TypeOK
<1> QED BY <1>1, <1>3, WearDomain DEF QueuesWear, TypeOK

\* A new queue is the last one, accepts, and has a worker.
LEMMA InstallFacts ==
    ASSUME queues \in Seq(QueueRecord), NEW sink \in Transports, Install(sink)
    PROVE  /\ queues' \in Seq(QueueRecord) /\ Len(queues) \in Nat
           /\ Len(queues') = Len(queues) + 1 /\ outbound' = Len(queues) + 1
           /\ DOMAIN queues = 1..Len(queues) /\ DOMAIN queues' = 1..(Len(queues) + 1)
           /\ \A q \in DOMAIN queues : queues'[q] = queues[q]
           /\ queues'[outbound'].sink = sink
<1>1. Queue(sink) \in QueueRecord /\ Queue(sink).sink = sink
    BY DEF Queue, QueueRecord
<1> DEFINE new == Queue(sink)
<1>2. queues' = Append(queues, new) /\ outbound' = Len(queues')
    BY DEF Install
<1>3. new \in QueueRecord /\ new.sink = sink
    BY <1>1
<1> HIDE DEF new
<1> QED BY <1>2, <1>3

-----------------------------------------------------------------------------
\* Closing, and the end and the start of an overlay.

\* CloseCoreAsync up to its first await keeps the invariant: it takes over the
\* session's queue, and the overlay from whoever has it.
LEMMA BeginCloseKeeps ==
    ASSUME IInv, BeginClose, monitor' \in {"Idle", "Waiting", "Closing", "Done"},
           UNCHANGED <<overlay, startingOverlay, start, handlerVars, inputs, disposed>>
    PROVE  IInv'
<1> USE SessionAssumption DEF IInv, handlerVars
<1>1. closer = "Idle" /\ closeQueue = 0 /\ closeOverlay = 0 /\ ~lifetime
    BY DEF BeginClose, QueueInv, CloseInv
<1>2. CASE State = "Created"
  <2>1. /\ State' = "Closed" /\ pump' = "Disposed" /\ completion' = TrySet("Other")
        /\ closer' = "Done"
        /\ UNCHANGED <<transport, queues, outbound, lifetime, closeQueue, closeOverlay>>
      BY <1>2 DEF BeginClose
  <2>2. start = "Idle" /\ handler = "Idle"
      BY <1>2 DEF PhaseInv
  <2>3. PlacesOK'
      BY <2>1 DEF TypeOK, PlacesOK, Over, TrySet
  <2>4. TypeOK'
      BY <2>1, <2>3 DEF TypeOK, RefsOK
  <2>5. PhaseInv' /\ HandlerInv'
      BY <1>2, <2>1, <2>2 DEF PhaseInv, HandlerInv, Over, Running, Busy, Retiring
  <2>6. QueueInv'
      BY <1>1, <1>2, <2>1 DEF QueueInv, Running
  <2>7. CloseInv' /\ TransportInv'
      BY <1>1, <1>2, <2>1 DEF CloseInv, TransportInv
  <2> QED BY <2>4, <2>5, <2>6, <2>7
<1>3. CASE State # "Created"
  <2>1. /\ State' = "Closing" /\ closeQueue' = outbound /\ outbound' = 0
        /\ closeOverlay' = OverlayToClose /\ closer' = "Retire"
        /\ lifetime' = (lifetime \/ State \in {"StartingRoot", "StartingOverlay"})
        /\ transport' = IF lifetime' THEN Cancelled ELSE transport
        /\ queues' = Retired(queues, outbound) /\ UNCHANGED <<pump, completion>>
      BY <1>3 DEF BeginClose
  <2>2. /\ queues' \in Seq(QueueRecord) /\ Len(queues') = Len(queues)
        /\ DOMAIN queues' = DOMAIN queues
        /\ \A q \in DOMAIN queues : Wears(queues[q], queues'[q])
        /\ outbound # 0 => ~queues'[outbound].accepting
      BY <2>1, OutboundRetired
  <2>3. Tame(Nobody)
    <3>1. CASE transport' = Cancelled
        BY <3>1, CancelledTame
    <3>2. CASE UNCHANGED transport
        BY <3>2, UnchangedTame DEF TypeOK
    <3> QED BY <2>1, <3>1, <3>2
  <2>4. handler \in Busy => closeOverlay' = requests /\ requests # 0
      BY <1>1, <2>1 DEF HandlerInv, OverlayToClose, Busy
  <2>5. handler \notin Busy => closeOverlay' = 0 \/ Ended(closeOverlay')
      BY <1>1, <1>3, <2>1 DEF TypeOK, PlacesOK, HandlerInv, PhaseInv, OverlayToClose,
         Over, Running, Busy, Ended
  <2>6. lifetime' \in BOOLEAN /\ (handler = "RetirePrior" => lifetime')
    <3>1. handler = "RetirePrior" => State = "StartingOverlay"
        BY <1>1 DEF HandlerInv, Busy
    <3> QED BY <2>1, <3>1, Zenon
  <2>7. PlacesOK'
      BY <2>1, <2>6 DEF TypeOK, PlacesOK, Over
  <2>8. closeOverlay' \in Transports
      BY <2>1 DEF TypeOK, RefsOK, OverlayToClose
  <2>9. TypeOK'
      BY <2>1, <2>2, <2>3, <2>7, <2>8 DEF TypeOK, RefsOK, Tame
  <2>10. PhaseInv'
    <3>1. queues = <<>> => queues' = <<>>
        BY <2>2
    <3> QED BY <2>1, <3>1 DEF PhaseInv, Over, Running
  <2>11. HandlerInv'
      BY <2>1, <2>4, <2>6 DEF HandlerInv, Busy, Retiring
  <2>12. QueueInv'
      BY <1>1, <2>1, <2>2 DEF QueueInv, HandlerInv, Wears, Running, Retiring
  <2>13. CloseInv'
      BY <2>1, <2>3, <2>4, <2>5, <2>8 DEF CloseInv, Tame, Ended
  <2>14. TransportInv'
    <3>1. Nobody \notin Transports /\ 0 \in Transports
        BY DEF Nobody, Transports
    <3> QED BY <2>1, <2>3, <3>1 DEF TransportInv, HandlerInv, Tame, TypeOK, RefsOK
  <2> QED BY <2>9, <2>10, <2>11, <2>12, <2>13, <2>14
<1> QED BY <1>2, <1>3

\* A step that leaves everything but the monitor's place alone keeps the
\* invariant.
LEMMA UnchangedKeeps ==
    ASSUME IInv, monitor' \in {"Idle", "Waiting", "Closing", "Done"},
           UNCHANGED <<State, transport, overlay, startingOverlay, queues, outbound,
                       lifetime, pump, completion, start, handler, requests, prior, closer,
                       closeQueue, closeOverlay, inputs, disposed>>
    PROVE  IInv'
<1> USE DEF IInv
<1>1. TypeOK' /\ PhaseInv'
    BY DEF TypeOK, PlacesOK, RefsOK, PhaseInv
<1>2. HandlerInv' /\ TransportInv'
    BY DEF HandlerInv, TransportInv, Ended
<1>3. QueueInv' /\ CloseInv'
    BY DEF QueueInv, CloseInv, Ended
<1> QED BY <1>1, <1>2, <1>3

\* The monitor closing the session, or finding it closing, keeps the invariant.
LEMMA MonitorClosesKeeps ==
    ASSUME IInv, MonitorCloses
    PROVE  IInv'
<1>1. CASE BeginClose
    BY <1>1, BeginCloseKeeps DEF MonitorCloses
<1>2. CASE UNCHANGED <<State, transport, queues, outbound, lifetime, pump, completion,
                       closerVars>>
    BY <1>2, UnchangedKeeps DEF MonitorCloses, handlerVars, closerVars
<1> QED BY <1>1, <1>2 DEF MonitorCloses

\* StopOverlayAsync keeps the invariant.
LEMMA StopOverlayKeeps ==
    ASSUME IInv, StopOverlay
    PROVE  IInv'
<1>a. /\ handler = "Running" /\ Ended(requests)
      /\ UNCHANGED <<transport, overlay, startingOverlay, lifetime, pump, completion, start,
                     requests, closerVars, monitor, inputs, disposed>>
    BY DEF StopOverlay
<1> USE SessionAssumption, <1>a DEF IInv, closerVars
<1>1. requests \in Transports \ {0}
    BY DEF TypeOK, RefsOK, HandlerInv, Busy
<1>2. TransportInv'
  <2>1. handler' \in {"StopRetire", "Returned"} /\ State' # "Created"
      BY DEF StopOverlay, PhaseInv
  <2> QED BY <1>1, <2>1 DEF TransportInv, Ended, Live
<1>3. CASE State = "RunningOverlay"
  <2>1. /\ State' = "StoppingOverlay" /\ prior' = outbound /\ outbound' = 0
        /\ queues' = Retired(queues, outbound) /\ handler' = "StopRetire"
      BY <1>3 DEF StopOverlay
  <2>2. closer = "Idle" /\ closeQueue = 0 /\ closeOverlay = 0 /\ start = "Returned"
        /\ overlay = requests /\ startingOverlay = 0
      BY <1>3 DEF PhaseInv, QueueInv, CloseInv, HandlerInv, Over, Running
  <2>3. /\ queues' \in Seq(QueueRecord) /\ Len(queues') = Len(queues)
        /\ DOMAIN queues' = DOMAIN queues
        /\ \A q \in DOMAIN queues : Wears(queues[q], queues'[q])
        /\ outbound # 0 => ~queues'[outbound].accepting
      BY <2>1, OutboundRetired
  <2>4. PlacesOK'
      BY <2>1 DEF TypeOK, PlacesOK
  <2>5. TypeOK'
      BY <2>1, <2>3, <2>4 DEF TypeOK, RefsOK
  <2>6. PhaseInv' /\ HandlerInv'
      BY <2>1, <2>2 DEF PhaseInv, HandlerInv, Ended, Over, Running, Busy, Retiring
  <2>7. QueueInv'
      BY <2>1, <2>2, <2>3 DEF QueueInv, Wears, Running, Retiring
  <2>8. CloseInv'
      BY <2>1, <2>2 DEF CloseInv
  <2> QED BY <1>2, <2>5, <2>6, <2>7, <2>8
<1>4. CASE State # "RunningOverlay"
  <2>1. handler' = "Returned" /\ UNCHANGED <<State, prior, outbound, queues>>
      BY <1>4 DEF StopOverlay
  <2>2. closer # "Idle"
      BY <1>4 DEF HandlerInv, Busy
  <2>3. TypeOK'
      BY <2>1 DEF TypeOK, PlacesOK, RefsOK
  <2>4. PhaseInv' /\ HandlerInv'
      BY <1>4, <2>1, <2>2 DEF PhaseInv, HandlerInv, Over, Busy, Retiring, Ended
  <2>5. QueueInv'
      BY <2>1 DEF QueueInv, Retiring
  <2>6. CloseInv'
      BY <2>1, <2>2 DEF CloseInv, Ended, Busy
  <2> QED BY <1>2, <2>3, <2>4, <2>5, <2>6
<1> QED BY <1>3, <1>4

\* ResumeRoot keeps the invariant: the overlay's queue has ended.
LEMMA ResumeRootKeeps ==
    ASSUME IInv, ResumeRoot
    PROVE  IInv'
<1>a. /\ handler = "Returned" /\ handler' = "Idle"
      /\ UNCHANGED <<transport, overlay, startingOverlay, lifetime, pump, completion, start,
                     requests, prior, closerVars, monitor, inputs, disposed>>
    BY DEF ResumeRoot
<1> USE SessionAssumption, <1>a DEF IInv, closerVars
<1>1. CASE UNCHANGED <<State, queues, outbound>> /\ State # "StoppingOverlay"
  <2>1. TypeOK'
      BY <1>1 DEF TypeOK, PlacesOK, RefsOK
  <2>2. PhaseInv' /\ HandlerInv'
      BY <1>1 DEF PhaseInv, HandlerInv, Busy, Retiring, Ended
  <2>3. QueueInv'
      BY <1>1 DEF QueueInv, Retiring
  <2>4. CloseInv' /\ TransportInv'
      BY <1>1 DEF CloseInv, TransportInv, Busy, Ended
  <2> QED BY <2>1, <2>2, <2>3, <2>4
<1>2. CASE State = "StoppingOverlay" /\ State' = "RunningRoot" /\ Install(0)
  <2>1. closer = "Idle" /\ closeQueue = 0 /\ closeOverlay = 0 /\ outbound = 0
        /\ start = "Returned" /\ startingOverlay = 0
      BY <1>2 DEF PhaseInv, QueueInv, CloseInv, HandlerInv, Over, Running
  <2>2. /\ queues' \in Seq(QueueRecord) /\ Len(queues) \in Nat
        /\ Len(queues') = Len(queues) + 1 /\ outbound' = Len(queues) + 1
        /\ DOMAIN queues = 1..Len(queues) /\ DOMAIN queues' = 1..(Len(queues) + 1)
        /\ \A q \in DOMAIN queues : queues'[q] = queues[q]
        /\ queues'[outbound'].sink = 0
      BY <1>2, InstallFacts DEF TypeOK, Transports
  <2>3. PlacesOK'
      BY <1>2, SMTT(30) DEF TypeOK, PlacesOK, Running
  <2>4. TypeOK'
      BY <2>1, <2>2, <2>3 DEF TypeOK, RefsOK
  <2>5. PhaseInv'
      BY <1>2, <2>1 DEF PhaseInv, Running, Over
  <2>6. HandlerInv'
      BY <1>2, <2>1 DEF HandlerInv, Busy, Retiring
  <2>7. QueueInv'
      BY <1>2, <2>1, <2>2, SMTT(30) DEF QueueInv, Running, Retiring
  <2>8. CloseInv' /\ TransportInv'
      BY <1>2, <2>1 DEF CloseInv, TransportInv, Ended, Busy
  <2> QED BY <2>4, <2>5, <2>6, <2>7, <2>8
<1>3. CASE UNCHANGED <<State, queues, outbound>> /\ State = "StoppingOverlay" /\ lifetime
    BY <1>3 DEF PhaseInv, CloseInv, Over
<1> QED BY <1>1, <1>2, <1>3 DEF ResumeRoot

\* The handler past the root's queue keeps the invariant: it starts an overlay
\* only if no close has taken it.
LEMMA PriorRetiredKeeps ==
    ASSUME IInv, PriorRetired
    PROVE  IInv'
<1>a. /\ handler = "RetirePrior" /\ handler' \in {"CatchClose", "Starting"}
      /\ WorkerEnded(prior)
      /\ UNCHANGED <<State, overlay, startingOverlay, queues, outbound, lifetime, pump,
             completion, start, requests, prior, closerVars, monitor, inputs, disposed>>
    BY DEF PriorRetired
<1> USE SessionAssumption, <1>a DEF IInv, closerVars
<1>1. requests \in Transports \ {0}
    BY DEF TypeOK, RefsOK, HandlerInv, Busy
<1>b. PICK s \in Transports : s = requests
    BY <1>1
<1>2. Tame(s)
  <2>1. CASE UNCHANGED transport
      BY <2>1 DEF Tame, TypeOK
  <2>2. CASE /\ transport[requests].status = "Created"
             /\ transport' = [transport EXCEPT ![requests] = Begun(transport[requests])]
    <3>1. transport[s] \in TransportRecord
        BY DEF TypeOK
    <3>2. Begun(transport[s]) \in TransportRecord /\ Begun(transport[s]).status = "Starting"
        BY <3>1, BegunFacts
    <3> QED BY <1>1, <1>b, <2>2, <3>1, <3>2 DEF Tame, Live, TypeOK
  <2> QED BY <2>1, <2>2 DEF PriorRetired
<1>3. PlacesOK'
    BY DEF TypeOK, PlacesOK
<1>4. TypeOK'
    BY <1>2, <1>3 DEF TypeOK, RefsOK, Tame
<1>5. PhaseInv'
    BY DEF PhaseInv
<1>6. HandlerInv'
    BY <1>2 DEF TypeOK, RefsOK, HandlerInv, Ended, Busy, Retiring, Tame
<1>7. QueueInv'
    BY DEF QueueInv, HandlerInv, Retiring, WorkerEnded
<1>8. CloseInv'
  <2>1. 0 \in Transports /\ \A t \in Transports : transport'[t].status \in Statuses
      BY <1>2, TameStatuses, SMTT(30) DEF Transports
  <2> QED BY <1>1, <1>2, <1>b, <2>1 DEF TypeOK, RefsOK, CloseInv, Ended, Busy, Live,
             Statuses, Tame
<1>9. TransportInv'
    BY <1>1, <1>2, <1>b DEF TypeOK, RefsOK, TransportInv, PhaseInv, Live, Busy,
       Transports, Tame
<1> QED BY <1>4, <1>5, <1>6, <1>7, <1>8, <1>9

\* StartOverlayAsync returning keeps the invariant: the queue it retired has
\* ended, and the new one leads to the overlay.
LEMMA OverlayStartedKeeps ==
    ASSUME IInv, OverlayStarted
    PROVE  IInv'
<1>a. /\ handler = "Starting" /\ State = "StartingOverlay"
      /\ overlay' = requests /\ startingOverlay' = 0 /\ Install(requests)
      /\ State' = "RunningOverlay" /\ handler' = "Running"
      /\ UNCHANGED <<transport, lifetime, pump, completion, start, requests, prior,
                     closerVars, monitor, inputs, disposed>>
    BY DEF OverlayStarted
<1> USE SessionAssumption, <1>a DEF IInv, closerVars
<1>1. closer = "Idle" /\ closeQueue = 0 /\ closeOverlay = 0 /\ outbound = 0
      /\ start = "Returned"
    BY DEF PhaseInv, QueueInv, CloseInv, Over, Running
<1>2. requests \in Transports \ {0}
    BY DEF TypeOK, RefsOK, HandlerInv, Busy
<1>3. PICK s \in Transports : s = requests
    BY <1>2
<1>4. Install(s)
    BY <1>3 DEF Install
<1>5. /\ queues' \in Seq(QueueRecord) /\ Len(queues) \in Nat
      /\ Len(queues') = Len(queues) + 1 /\ outbound' = Len(queues) + 1
      /\ DOMAIN queues = 1..Len(queues) /\ DOMAIN queues' = 1..(Len(queues) + 1)
      /\ \A q \in DOMAIN queues : queues'[q] = queues[q]
      /\ queues'[outbound'].sink = s
    BY <1>4, InstallFacts DEF TypeOK
<1>6. PlacesOK'
    BY DEF TypeOK, PlacesOK, Running
<1>7. TypeOK'
    BY <1>1, <1>2, <1>5, <1>6 DEF TypeOK, RefsOK
<1>8. PhaseInv'
    BY <1>1 DEF PhaseInv, Running, Over
<1>9. HandlerInv'
    BY <1>1, <1>2, Zenon DEF HandlerInv, Busy, Retiring
<1>10. QueueInv'
    BY <1>1, <1>2, <1>3, <1>5, SMTT(30) DEF QueueInv, Running, Retiring
<1>11. CloseInv' /\ TransportInv'
    BY <1>1 DEF CloseInv, TransportInv, Ended, Busy
<1> QED BY <1>7, <1>8, <1>9, <1>10, <1>11

\* The closer closes the overlay it took over.
LEMMA CloseRetiredKeeps ==
    ASSUME IInv, CloseRetired
    PROVE  IInv'
<1>a. PICK s \in Transports : s = closeOverlay
    BY DEF IInv, TypeOK, RefsOK
<1>b. /\ closer = "Retire" /\ WorkerEnded(closeQueue) /\ closer' = "Overlay"
      /\ transport' = IF closeOverlay = 0 THEN transport ELSE Closing(s)
      /\ UNCHANGED <<State, overlay, startingOverlay, queues, outbound, lifetime, pump,
             completion, start, handlerVars, closeQueue, closeOverlay, monitor, inputs,
             disposed>>
    BY <1>a, Zenon DEF CloseRetired
<1> USE SessionAssumption, <1>b DEF IInv, handlerVars
<1>1. Tame(IF s = 0 THEN Nobody ELSE s) /\ UNCHANGED <<queues, outbound, prior, closeQueue,
    closeOverlay>>
  <2>1. CASE closeOverlay = 0
      BY <2>1, UnchangedTame DEF TypeOK, Tame
  <2>2. CASE closeOverlay # 0
    <3>1. Tame(s)
        BY <2>2, ClosingTame DEF TypeOK
    <3> QED BY <1>a, <2>2, <3>1 DEF Tame
  <2> QED BY <2>1, <2>2
<1>0. \A t \in Transports : transport'[t].status \in Statuses
    BY <1>1, TameStatuses
<1>2. TypeOK'
  <2>1. PlacesOK'
      BY <1>1 DEF TypeOK, PlacesOK, Running, Over
  <2>2. RefsOK'
      BY <1>1, RootIsTransport, Zenon DEF TypeOK, RefsOK
  <2> QED BY <1>1, <2>1, <2>2, Zenon DEF TypeOK, Tame
<1>3. PhaseInv' /\ HandlerInv'
  <2>1. PhaseInv'
      BY <1>a, <1>1, Zenon DEF PhaseInv
  <2>2. HandlerInv'
      BY <1>a, <1>1, Zenon DEF TypeOK, RefsOK, HandlerInv, Ended, Tame
  <2> QED BY <2>1, <2>2
<1>4. QueueInv'
    BY <1>1, Zenon DEF QueueInv, PhaseInv, HandlerInv, Running, Over, Retiring,
       WorkerEnded
<1>5. CloseInv' /\ TransportInv'
  <2>1. CloseInv'
      BY <1>a, <1>0, <1>1, RootIsTransport, Zenon DEF TypeOK, RefsOK, PhaseInv, HandlerInv, CloseInv,
         Ended, Busy, Tame
  <2>2. TransportInv'
    <3>1. State \notin {"Created"} /\ handler' = handler /\ requests' = requests
        BY DEF PhaseInv, Over
    <3>2. CASE s = 0
      <4>1. Nobody \notin Transports
          BY DEF Nobody, Transports
      <4> QED BY <1>1, <3>1, <3>2, <4>1, TameTransports, Zenon
    <3>3. CASE s # 0
      <4>1. Ended(s) \/ (s = requests /\ handler \in Busy)
          BY <1>a, <3>3, Zenon DEF CloseInv
      <4> QED BY <1>1, <3>1, <3>3, <4>1, TameTransports, Zenon
    <3> QED BY <3>2, <3>3
  <2> QED BY <2>1, <2>2
<1> QED BY <1>2, <1>3, <1>4, <1>5

\* The closer passes the overlay once it has ended.
LEMMA CloseOverlayJoinedKeeps ==
    ASSUME IInv, CloseOverlayJoined
    PROVE  IInv'
<1> USE SessionAssumption DEF IInv, CloseOverlayJoined, handlerVars, closerVars
<1>1. Tame(0) /\ UNCHANGED <<queues, outbound, prior, closeQueue, closeOverlay>>
    BY ClosingTame DEF TypeOK, Transports
<1>0. \A t \in Transports : transport'[t].status \in Statuses
    BY <1>1, TameStatuses, Zenon
<1>2. TypeOK'
  <2>1. PlacesOK'
      BY <1>1 DEF TypeOK, PlacesOK, Running, Over
  <2>2. RefsOK'
      BY <1>1, RootIsTransport, Zenon DEF TypeOK, RefsOK
  <2> QED BY <1>1, <2>1, <2>2, Zenon DEF TypeOK, Tame
<1>3. PhaseInv' /\ HandlerInv'
    BY <1>1 DEF TypeOK, PlacesOK, RefsOK, Transports, PhaseInv, HandlerInv, CloseInv,
       Ended, Running, Over, Busy, Retiring, Tame
<1>4. QueueInv'
    BY <1>1, Zenon DEF QueueInv, PhaseInv, HandlerInv, Running, Over, Retiring,
       WorkerEnded
<1>5. CloseInv' /\ TransportInv'
  <2>1. CloseInv'
      BY <1>0, <1>1, RootIsTransport, Zenon DEF TypeOK, RefsOK, PhaseInv, HandlerInv, CloseInv,
         Ended, Busy, Tame
  <2>2. TransportInv'
      BY <1>1, TameTransports, Zenon DEF PhaseInv, CloseInv, Busy, Over
  <2> QED BY <2>1, <2>2
<1> QED BY <1>2, <1>3, <1>4, <1>5

\* The catch block closes the overlay being handled.
LEMMA CatchCloseKeeps ==
    ASSUME IInv, CatchClose
    PROVE  IInv'
<1>a. PICK s \in Transports : s = requests
    BY DEF IInv, TypeOK, RefsOK
<1>b. /\ handler = "CatchClose" /\ handler' = "CatchJoin"
      /\ transport' = Closing(s)
      /\ UNCHANGED <<State, overlay, startingOverlay, queues, outbound, lifetime, pump,
             completion, start, requests, prior, closerVars, monitor, inputs, disposed>>
    BY <1>a, Zenon DEF CatchClose
<1> USE SessionAssumption, <1>b DEF IInv, closerVars
<1>1. Tame(s) /\ UNCHANGED <<queues, outbound, prior, closeQueue, closeOverlay>>
    BY ClosingTame DEF TypeOK
<1>0. \A t \in Transports : transport'[t].status \in Statuses
    BY <1>1, TameStatuses
<1>2. TypeOK'
  <2>1. PlacesOK'
      BY <1>1 DEF TypeOK, PlacesOK, Running, Over
  <2>2. RefsOK'
      BY <1>1, RootIsTransport, Zenon DEF TypeOK, RefsOK
  <2> QED BY <1>1, <2>1, <2>2, Zenon DEF TypeOK, Tame
<1>3. PhaseInv' /\ HandlerInv'
    BY <1>a, <1>1, Zenon DEF TypeOK, PlacesOK, RefsOK, Transports, PhaseInv, HandlerInv,
       CloseInv, Ended, Running, Over, Busy, Retiring, Tame
<1>4. QueueInv'
    BY <1>1, Zenon DEF QueueInv, PhaseInv, HandlerInv, Running, Over, Retiring,
       WorkerEnded
<1>5. CloseInv' /\ TransportInv'
  <2>1. CloseInv'
      BY <1>a, <1>0, <1>1, RootIsTransport, Zenon DEF TypeOK, RefsOK, PhaseInv, HandlerInv, CloseInv,
         Ended, Busy, Tame
  <2>2. TransportInv'
      BY <1>a, <1>1, TameTransports, Zenon DEF PhaseInv, CloseInv, Busy, Over
  <2> QED BY <2>1, <2>2
<1> QED BY <1>2, <1>3, <1>4, <1>5

-----------------------------------------------------------------------------
\* A step on a session that is over.

\* A step leaves a session that is over so.
LEMMA StepNeverRevives == [Next]_vars => [(State \in Over) => (State' \in Over)]_vars
<1> SUFFICES ASSUME Next, State \in Over PROVE State' \in Over
    OBVIOUS
<1>1. CASE Start \/ StartSteps
    BY <1>1 DEF Start, StartSteps, StartReturns, StartThrows, Over
<1>2. CASE Request \/ Decline \/ StartRefused \/ StartOverlay \/ Disconnect
    BY <1>2, Zenon DEF Request, Decline, StartRefused, StartOverlay, Disconnect,
       sessionVars, Over
<1>3. CASE HandlerSteps
    BY <1>3, Zenon DEF HandlerSteps, PriorRetired, OverlayStarted, OverlayNotStarted,
       CatchClose, CatchJoined, StopOverlay, OverlayStopped, ResumeRoot, Over
<1>4. CASE Close \/ CloserSteps
    BY <1>4, Zenon DEF Close, BeginClose, CloserSteps, CloseRetired, CloseOverlayJoined,
       CloseRootJoined, CloseFinishes, CloseThrows, Over
<1>5. CASE MonitorSteps \/ Dispose
    BY <1>5 DEF MonitorSteps, MonitorCloses, MonitorEnds, BeginClose, Dispose, Over
<1>6. CASE \E t \in Transports : TransportStep(t)
    BY <1>6, Zenon DEF TransportStep, TransportRuns, TransportStartFails, TransportEnds,
       TransportCloses, OutputRefused, sessionVars
<1>7. CASE \E q \in DOMAIN queues :
             Worker(q) \/ \E operation \in Operations : Enter(q, operation)
    BY <1>7 DEF Worker, Deliver, Block, WriteThrows, WorkerCompletes, Enter, sessionVars
<1> QED BY <1>1, <1>2, <1>3, <1>4, <1>5, <1>6, <1>7 DEF Next

-----------------------------------------------------------------------------
\* What the invariant gives.

\* The invariant leaves at most one queue with a worker, the destination of
\* the state.
LEMMA InvInput == IInv => InputFollowsState
<1> SUFFICES ASSUME IInv PROVE InputFollowsState
    OBVIOUS
<1> USE DEF IInv
<1>1. ASSUME NEW q \in DOMAIN queues, NEW r \in DOMAIN queues,
             queues[q].worker # "Ended", queues[r].worker # "Ended"
      PROVE  q = r
  <2>1. outbound # 0 => closer = "Idle" /\ handler \notin Retiring
      BY Zenon DEF QueueInv, PhaseInv, HandlerInv, Running, Over, Retiring
  <2>2. handler \in Retiring \/ closer = "Idle" => closeQueue = 0
      BY DEF QueueInv
  <2>3. q # 0 /\ r # 0
      BY DEF TypeOK
  <2> QED BY <1>1, <2>1, <2>2, <2>3 DEF QueueInv
<1>3. DestinationFollowsState
    BY Zenon DEF DestinationFollowsState, QueueInv, HandlerInv, Busy, Running
<1> QED BY <1>1, <1>3 DEF InputFollowsState, OneWriter

\* The invariant gives every live overlay an owner and lets a close that has
\* returned leave nothing.
LEMMA InvClose == IInv => CloseReleasesAll
<1> SUFFICES ASSUME IInv PROVE CloseReleasesAll
    OBVIOUS
<1> USE DEF IInv
<1>1. OverlayOwned
    BY DEF OverlayOwned, TransportInv, HandlerInv, Live, Busy
<1>2. ASSUME closer = "Done" PROVE outbound = 0 /\ pump = "Disposed"
    BY <1>2 DEF CloseInv, QueueInv, PhaseInv, Over, Running
<1>3. ASSUME closer = "Done", NEW q \in DOMAIN queues PROVE ~queues[q].accepting
  <2>1. q # 0
      BY DEF TypeOK
  <2> QED BY <1>2, <1>3, <2>1 DEF QueueInv
<1>4. ASSUME closer = "Done", NEW t \in Transports
      PROVE  transport[t].status \in {"Unmade", "Created", "Ended"}
  <2>1. transport[t].status \in Statuses
      BY DEF TypeOK, TransportRecord
  <2>2. CASE t = 0
      BY <1>4, <2>2 DEF CloseInv
  <2>3. CASE t # 0
      BY <1>4, <2>1, <2>3 DEF CloseInv, TransportInv, HandlerInv, Ended, Live, Statuses,
         Busy
  <2> QED BY <2>2, <2>3
<1> QED BY <1>1, <1>2, <1>3, <1>4 DEF CloseReleasesAll, CloseLeavesNothing

-----------------------------------------------------------------------------
\* Starting and disposing.

\* StartAsync returning keeps the invariant: the first queue is the only one.
LEMMA StartReturnsKeeps ==
    ASSUME IInv, StartReturns
    PROVE  IInv'
<1>a. /\ start = "Starting" /\ State = "StartingRoot" /\ Install(0)
      /\ State' = "RunningRoot" /\ start' = "Returned" /\ monitor' = "Waiting"
      /\ UNCHANGED <<transport, overlay, startingOverlay, lifetime, pump, completion,
                     handlerVars, closerVars, inputs, disposed>>
    BY DEF StartReturns
<1> USE SessionAssumption, <1>a DEF IInv, handlerVars, closerVars
<1>1. closer = "Idle" /\ queues = <<>> /\ handler = "Idle" /\ overlay = 0 /\ startingOverlay = 0
    BY DEF PhaseInv, Over
<1>2. /\ queues' \in Seq(QueueRecord) /\ Len(queues') = 1 /\ outbound' = 1
      /\ DOMAIN queues' = {1} /\ queues'[1].sink = 0
    BY <1>1, InstallFacts DEF TypeOK, Transports
<1>3. closeQueue = 0 /\ prior = 0
    BY <1>1 DEF TypeOK, RefsOK
<1>4. PlacesOK'
    BY DEF TypeOK, PlacesOK, Running
<1>5. TypeOK'
    BY <1>2, <1>3, <1>4 DEF TypeOK, RefsOK
<1>6. PhaseInv'
    BY <1>1 DEF PhaseInv, Running, Over
<1>7. HandlerInv'
    BY <1>1, Zenon DEF HandlerInv, Busy, Retiring
<1>8. QueueInv'
  <2>1. /\ outbound' # 0 /\ queues'[outbound'].sink = 0
        /\ \A q \in DOMAIN queues' : q = outbound'
      BY <1>2
  <2> QED BY <1>1, <1>3, <2>1, Zenon DEF QueueInv, Running
<1>9. CloseInv' /\ TransportInv'
    BY <1>1 DEF CloseInv, TransportInv, Ended
<1> QED BY <1>5, <1>6, <1>7, <1>8, <1>9

\* StartAsync starts the root.
LEMMA StartKeeps ==
    ASSUME IInv, Start
    PROVE  IInv'
<1> USE SessionAssumption DEF IInv, Start, handlerVars, closerVars
<1>1. Tame(0) /\ UNCHANGED <<queues, outbound, prior, closeQueue, closeOverlay>>
  <2>1. transport \in [Transports -> TransportRecord] /\ 0 \in Transports
      BY DEF TypeOK, RefsOK, Transports
  <2>2. Begun(transport[0]) \in TransportRecord /\ Begun(transport[0]).status = "Starting"
      BY <2>1, BegunFacts
  <2>3. transport' = [transport EXCEPT ![0] = Begun(transport[0])]
      BY Zenon
  <2> QED BY <2>1, <2>2, <2>3 DEF Tame, Live, TransportInv
<1>0. \A t \in Transports : transport'[t].status \in Statuses
    BY <1>1, TameStatuses, Zenon
<1>2. TypeOK'
  <2>1. PlacesOK'
      BY <1>1 DEF TypeOK, PlacesOK, Running, Over
  <2>2. RefsOK'
      BY <1>1, RootIsTransport, Zenon DEF TypeOK, RefsOK
  <2> QED BY <1>1, <2>1, <2>2, Zenon DEF TypeOK, Tame
<1>3. PhaseInv' /\ HandlerInv'
    BY <1>1, Zenon DEF TypeOK, PlacesOK, RefsOK, Transports, PhaseInv, HandlerInv,
       CloseInv, Ended, Running, Over, Busy, Retiring, Tame
<1>4. QueueInv'
    BY <1>1, Zenon DEF QueueInv, PhaseInv, HandlerInv, Running, Over, Retiring,
       WorkerEnded
<1>5. CloseInv' /\ TransportInv'
  <2>1. CloseInv'
      BY <1>0, <1>1, RootIsTransport, Zenon DEF TypeOK, RefsOK, PhaseInv, HandlerInv, CloseInv,
         Ended, Busy, Tame, Over
  <2>2. TransportInv'
      BY <1>1, TameTransports, Zenon DEF PhaseInv, CloseInv, Busy, Over
  <2> QED BY <2>1, <2>2
<1> QED BY <1>2, <1>3, <1>4, <1>5

\* StartOverlayAsync up to its await keeps the invariant: the session has no
\* destination while the handler retires the root's queue.
LEMMA StartOverlayKeeps ==
    ASSUME IInv, StartOverlay
    PROVE  IInv'
<1> USE SessionAssumption DEF IInv, StartOverlay, closerVars
<1>1. /\ requests \in Transports \ {0} /\ transport[requests] \in TransportRecord
      /\ transport[requests].status = "Unmade" /\ transport[requests].start = "None"
    BY DEF TypeOK, RefsOK, HandlerInv, TransportInv
<1>2. /\ transport' \in [Transports -> TransportRecord]
      /\ transport'[requests].status = "Created" /\ transport'[requests].start = "None"
      /\ \A t \in Transports : t # requests => transport'[t] = transport[t]
    BY <1>1, MarkedFacts DEF TypeOK, Statuses
<1>3. closer = "Idle" /\ closeQueue = 0 /\ closeOverlay = 0 /\ start = "Returned"
      /\ overlay = 0 /\ startingOverlay = 0 /\ outbound # 0
    BY DEF PhaseInv, QueueInv, CloseInv, HandlerInv, Over, Running
<1>4. /\ queues' \in Seq(QueueRecord) /\ Len(queues') = Len(queues)
      /\ DOMAIN queues' = DOMAIN queues
      /\ \A q \in DOMAIN queues : Wears(queues[q], queues'[q])
      /\ outbound # 0 => ~queues'[outbound].accepting
    BY OutboundRetired, Zenon
<1>5. TypeOK'
    BY <1>2, <1>4, SMTT(30) DEF TypeOK, PlacesOK, RefsOK, Transports
<1>6. PhaseInv' /\ HandlerInv' /\ CloseInv'
    BY <1>1, <1>3, Zenon DEF PhaseInv, HandlerInv, CloseInv, Running, Over, Busy, Retiring
<1>7. QueueInv'
    BY <1>3, <1>4, Zenon DEF QueueInv, Wears, Running, Retiring
<1>8. TransportInv'
    BY <1>1, <1>2, <1>3 DEF TypeOK, RefsOK, TransportInv, PhaseInv, Live, Busy, Transports
<1> QED BY <1>5, <1>6, <1>7, <1>8

\* StartOverlayAsync refused: the transport made for the request is left
\* unstarted.
LEMMA StartRefusedKeeps ==
    ASSUME IInv, StartRefused
    PROVE  IInv'
<1> USE SessionAssumption DEF IInv, StartRefused, closerVars
<1>1. /\ requests \in Transports \ {0} /\ transport[requests] \in TransportRecord
      /\ transport[requests].status = "Unmade" /\ transport[requests].start = "None"
    BY DEF TypeOK, RefsOK, HandlerInv, TransportInv
<1>2. /\ transport' \in [Transports -> TransportRecord]
      /\ transport'[requests].status = "Created" /\ transport'[requests].start = "None"
      /\ \A t \in Transports : t # requests => transport'[t] = transport[t]
    BY <1>1, MarkedFacts DEF TypeOK, Statuses
<1>3. PlacesOK'
    BY DEF TypeOK, PlacesOK
<1>4. TypeOK'
    BY <1>2, <1>3 DEF TypeOK, RefsOK
<1>5. PhaseInv'
    BY Zenon DEF PhaseInv
<1>6. HandlerInv'
    BY <1>1, <1>2, Zenon DEF TypeOK, RefsOK, HandlerInv, Ended, Busy, Retiring
<1>7. QueueInv'
    BY Zenon DEF QueueInv, HandlerInv, Retiring
<1>8. CloseInv'
    BY <1>1, <1>2, SMTT(30) DEF TypeOK, RefsOK, CloseInv, Ended, Busy, Transports
<1>9. TransportInv'
    BY <1>1, <1>2 DEF TypeOK, RefsOK, TransportInv, PhaseInv, Live, Busy, Transports
<1> QED BY <1>4, <1>5, <1>6, <1>7, <1>8, <1>9, Zenon

\* Disposing of the root ends it.
LEMMA DisposeKeeps ==
    ASSUME IInv, Dispose
    PROVE  IInv'
<1> USE SessionAssumption DEF IInv, Dispose, handlerVars, closerVars
<1>1. Tame(0) /\ UNCHANGED <<queues, outbound, prior, closeQueue, closeOverlay>>
      /\ transport'[0].status = "Ended"
    BY EndWithTame DEF TypeOK, Transports
<1>0. \A t \in Transports : transport'[t].status \in Statuses
    BY <1>1, TameStatuses, Zenon
<1>2. TypeOK'
  <2>1. PlacesOK'
      BY <1>1 DEF TypeOK, PlacesOK, Running, Over
  <2>2. RefsOK'
      BY <1>1, RootIsTransport, Zenon DEF TypeOK, RefsOK
  <2> QED BY <1>1, <2>1, <2>2, Zenon DEF TypeOK, Tame
<1>3. PhaseInv' /\ HandlerInv'
  <2>1. PhaseInv'
      BY <1>1, Zenon DEF PhaseInv
  <2>2. HandlerInv'
      BY <1>1, Zenon DEF TypeOK, RefsOK, HandlerInv, Ended, Tame
  <2> QED BY <2>1, <2>2
<1>4. QueueInv'
    BY <1>1, Zenon DEF QueueInv, PhaseInv, HandlerInv, Running, Over, Retiring,
       WorkerEnded
<1>5. CloseInv' /\ TransportInv'
  <2>1. CloseInv'
      BY <1>0, <1>1, RootIsTransport, Zenon DEF TypeOK, RefsOK, PhaseInv, HandlerInv, CloseInv,
         Ended, Busy, Tame
  <2>2. TransportInv'
      BY <1>1, TameTransports, Zenon DEF PhaseInv, CloseInv, Busy, Over
  <2> QED BY <2>1, <2>2
<1> QED BY <1>2, <1>3, <1>4, <1>5, Zenon

-----------------------------------------------------------------------------
\* The steps that only move a place.

\* StartAsync ending in its catch block keeps the invariant.
LEMMA StartThrowsKeeps ==
    ASSUME IInv, StartThrows
    PROVE  IInv'
<1> USE SessionAssumption DEF IInv, StartThrows, handlerVars, closerVars
<1>1. TypeOK'
  <2>1. PlacesOK'
      BY DEF TypeOK, PlacesOK, Running, Over, TrySet
  <2>2. RefsOK'
      BY RootIsTransport, Zenon DEF TypeOK, RefsOK
  <2> QED BY <2>1, <2>2, Zenon DEF TypeOK
<1>2. PhaseInv' /\ HandlerInv'
    BY Zenon DEF TypeOK, PlacesOK, RefsOK, Transports, PhaseInv, HandlerInv, CloseInv,
       Ended, Running, Over, Busy, Retiring
<1>3. QueueInv'
    BY Zenon DEF QueueInv, PhaseInv, HandlerInv, Running, Over, Retiring, WorkerEnded
<1>4. CloseInv' /\ TransportInv'
  <2>1. CloseInv'
      BY Zenon DEF CloseInv, PhaseInv, HandlerInv, Ended, Busy
  <2>2. TransportInv'
      BY Zenon DEF TransportInv, PhaseInv, HandlerInv, Ended, Live, Busy
  <2> QED BY <2>1, <2>2
<1> QED BY <1>1, <1>2, <1>3, <1>4

\* A request keeps the invariant.
LEMMA RequestKeeps ==
    ASSUME IInv, Request
    PROVE  IInv'
<1> USE SessionAssumption DEF IInv, Request, handlerVars, closerVars
<1>1. TypeOK'
  <2>1. PlacesOK'
      BY DEF TypeOK, PlacesOK, Running, Over
  <2>2. RefsOK'
      BY DEF TypeOK, RefsOK, Transports
  <2> QED BY <2>1, <2>2, Zenon DEF TypeOK
<1>2. PhaseInv' /\ HandlerInv'
  <2>1. PhaseInv'
      BY Zenon DEF PhaseInv, CloseInv, HandlerInv, Running, Over, Busy, Retiring
  <2>2. requests' # 0
      BY DEF TypeOK, RefsOK, Transports
  <2>3. HandlerInv'
      BY <2>2, Zenon DEF HandlerInv, PhaseInv, CloseInv, Ended, Busy, Retiring, Over
  <2> QED BY <2>1, <2>3
<1>3. QueueInv'
    BY Zenon DEF QueueInv, PhaseInv, HandlerInv, Running, Over, Retiring, WorkerEnded
<1>4. CloseInv' /\ TransportInv'
  <2>1. CloseInv'
      BY Zenon DEF CloseInv, PhaseInv, HandlerInv, Ended, Busy
  <2>2. TransportInv'
    <3>1. requests' = requests + 1 /\ requests' \in Transports \ {0} /\ requests' > requests
        BY DEF TypeOK, RefsOK, Transports
    <3>2. \A t \in Transports : t > requests + 1 => t > requests
        BY DEF TypeOK, RefsOK, Transports
    <3>3. handler \notin Busy /\ State # "Created" /\ handler' = "Prompt"
        BY DEF PhaseInv, HandlerInv, Busy
    <3> QED BY <3>1, <3>2, <3>3, Zenon DEF TransportInv
  <2> QED BY <2>1, <2>2
<1> QED BY <1>1, <1>2, <1>3, <1>4, Zenon

\* A declined prompt keeps the invariant.
LEMMA DeclineKeeps ==
    ASSUME IInv, Decline
    PROVE  IInv'
<1> USE SessionAssumption DEF IInv, Decline, handlerVars, closerVars
<1>1. TypeOK'
  <2>1. PlacesOK'
      BY DEF TypeOK, PlacesOK, Running, Over
  <2>2. RefsOK'
      BY RootIsTransport, Zenon DEF TypeOK, RefsOK
  <2> QED BY <2>1, <2>2, Zenon DEF TypeOK
<1>2. PhaseInv' /\ HandlerInv'
  <2>1. PhaseInv'
      BY Zenon DEF PhaseInv, CloseInv, HandlerInv, Running, Over, Busy, Retiring
  <2>2. HandlerInv'
      BY Zenon DEF HandlerInv, PhaseInv, CloseInv, Ended, Busy, Retiring, Over
  <2> QED BY <2>1, <2>2
<1>3. QueueInv'
    BY Zenon DEF QueueInv, PhaseInv, HandlerInv, Running, Over, Retiring, WorkerEnded
<1>4. CloseInv' /\ TransportInv'
  <2>1. CloseInv'
      BY Zenon DEF CloseInv, PhaseInv, HandlerInv, Ended, Busy
  <2>2. TransportInv'
      BY Zenon DEF TransportInv, PhaseInv, HandlerInv, Ended, Live, Busy
  <2> QED BY <2>1, <2>2
<1> QED BY <1>1, <1>2, <1>3, <1>4

\* A failed start of the overlay keeps the invariant.
LEMMA OverlayNotStartedKeeps ==
    ASSUME IInv, OverlayNotStarted
    PROVE  IInv'
<1> USE SessionAssumption DEF IInv, OverlayNotStarted, handlerVars, closerVars
<1>1. TypeOK'
  <2>1. PlacesOK'
      BY DEF TypeOK, PlacesOK, Running, Over
  <2>2. RefsOK'
      BY RootIsTransport, Zenon DEF TypeOK, RefsOK
  <2> QED BY <2>1, <2>2, Zenon DEF TypeOK
<1>2. PhaseInv' /\ HandlerInv'
    BY Zenon DEF TypeOK, PlacesOK, RefsOK, Transports, PhaseInv, HandlerInv, CloseInv,
       Ended, Running, Over, Busy, Retiring
<1>3. QueueInv'
    BY Zenon DEF QueueInv, PhaseInv, HandlerInv, Running, Over, Retiring, WorkerEnded
<1>4. CloseInv' /\ TransportInv'
    BY Zenon DEF TypeOK, PlacesOK, RefsOK, Transports, PhaseInv, CloseInv, HandlerInv,
       TransportInv, Ended, Live, Busy
<1> QED BY <1>1, <1>2, <1>3, <1>4, Zenon

\* The end of the catch block keeps the invariant: the overlay it forgets has ended.
LEMMA CatchJoinedKeeps ==
    ASSUME IInv, CatchJoined
    PROVE  IInv'
<1> USE SessionAssumption DEF IInv, CatchJoined, handlerVars, closerVars
<1>1. TypeOK'
  <2>1. PlacesOK'
      BY DEF TypeOK, PlacesOK, Running, Over
  <2>2. RefsOK'
      BY RootIsTransport, Zenon DEF TypeOK, RefsOK
  <2> QED BY <2>1, <2>2, Zenon DEF TypeOK
<1>2. PhaseInv' /\ HandlerInv'
    BY Zenon DEF TypeOK, PlacesOK, RefsOK, Transports, PhaseInv, HandlerInv, CloseInv,
       Ended, Running, Over, Busy, Retiring
<1>3. QueueInv'
    BY Zenon DEF QueueInv, PhaseInv, HandlerInv, Running, Over, Retiring, WorkerEnded
<1>4. CloseInv' /\ TransportInv'
  <2>1. CloseInv'
      BY Zenon DEF CloseInv, PhaseInv, HandlerInv, Ended, Busy
  <2>2. TransportInv'
      BY Zenon DEF TransportInv, PhaseInv, HandlerInv, Ended, Live, Busy
  <2> QED BY <2>1, <2>2
<1> QED BY <1>1, <1>2, <1>3, <1>4, Zenon

\* The end of StopOverlayAsync keeps the invariant.
LEMMA OverlayStoppedKeeps ==
    ASSUME IInv, OverlayStopped
    PROVE  IInv'
<1> USE SessionAssumption DEF IInv, OverlayStopped, handlerVars, closerVars
<1>1. TypeOK'
  <2>1. PlacesOK'
      BY DEF TypeOK, PlacesOK, Running, Over
  <2>2. RefsOK'
      BY RootIsTransport, Zenon DEF TypeOK, RefsOK
  <2> QED BY <2>1, <2>2, Zenon DEF TypeOK
<1>2. PhaseInv' /\ HandlerInv'
    BY Zenon DEF TypeOK, PlacesOK, RefsOK, Transports, PhaseInv, HandlerInv, CloseInv,
       Ended, Running, Over, Busy, Retiring
<1>3. QueueInv'
    BY Zenon DEF QueueInv, PhaseInv, HandlerInv, Running, Over, Retiring, WorkerEnded
<1>4. CloseInv' /\ TransportInv'
  <2>1. CloseInv'
      BY Zenon DEF CloseInv, PhaseInv, HandlerInv, Ended, Busy
  <2>2. TransportInv'
      BY Zenon DEF TransportInv, PhaseInv, HandlerInv, Ended, Live, Busy
  <2> QED BY <2>1, <2>2
<1> QED BY <1>1, <1>2, <1>3, <1>4, Zenon

\* The root's end lets the closer pass.
LEMMA CloseRootJoinedKeeps ==
    ASSUME IInv, CloseRootJoined
    PROVE  IInv'
<1> USE SessionAssumption DEF IInv, CloseRootJoined, handlerVars, closerVars
<1>1. TypeOK'
  <2>1. PlacesOK'
      BY DEF TypeOK, PlacesOK, Running, Over
  <2>2. RefsOK'
      BY RootIsTransport, Zenon DEF TypeOK, RefsOK
  <2> QED BY <2>1, <2>2, Zenon DEF TypeOK
<1>2. PhaseInv' /\ HandlerInv'
  <2>1. PhaseInv'
      BY Zenon DEF PhaseInv, CloseInv, HandlerInv, Running, Over, Busy, Retiring
  <2>2. HandlerInv'
      BY Zenon DEF HandlerInv, PhaseInv, CloseInv, Ended, Busy, Retiring, Over
  <2> QED BY <2>1, <2>2
<1>3. QueueInv'
    BY Zenon DEF QueueInv, PhaseInv, HandlerInv, Running, Over, Retiring, WorkerEnded
<1>4. CloseInv' /\ TransportInv'
    BY Zenon DEF TypeOK, PlacesOK, RefsOK, Transports, PhaseInv, CloseInv, HandlerInv,
       TransportInv, Ended, Live, Busy
<1> QED BY <1>1, <1>2, <1>3, <1>4, Zenon

\* The end of CloseCoreAsync keeps the invariant: everything it passed has ended.
LEMMA CloseFinishesKeeps ==
    ASSUME IInv, CloseFinishes
    PROVE  IInv'
<1> USE SessionAssumption DEF IInv, CloseFinishes, handlerVars, closerVars
<1>1. TypeOK'
  <2>1. PlacesOK'
      BY DEF TypeOK, PlacesOK, Running, Over, TrySet
  <2>2. RefsOK'
      BY RootIsTransport, Zenon DEF TypeOK, RefsOK
  <2> QED BY <2>1, <2>2, Zenon DEF TypeOK
<1>2. PhaseInv' /\ HandlerInv'
  <2>1. PhaseInv'
      BY Zenon DEF PhaseInv, CloseInv, HandlerInv, Running, Over, Busy, Retiring
  <2>2. HandlerInv'
      BY Zenon DEF HandlerInv, PhaseInv, CloseInv, Ended, Busy, Retiring, Over
  <2> QED BY <2>1, <2>2
<1>3. QueueInv'
    BY Zenon DEF QueueInv, PhaseInv, HandlerInv, Running, Over, Retiring, WorkerEnded
<1>4. CloseInv' /\ TransportInv'
    BY Zenon DEF TypeOK, PlacesOK, RefsOK, Transports, PhaseInv, CloseInv, HandlerInv,
       TransportInv, Ended, Live, Busy
<1> QED BY <1>1, <1>2, <1>3, <1>4, Zenon

\* A close that throws keeps the invariant.
LEMMA CloseThrowsKeeps ==
    ASSUME IInv, CloseThrows
    PROVE  IInv'
<1> USE SessionAssumption DEF IInv, CloseThrows, handlerVars, closerVars
<1>1. TypeOK'
  <2>1. PlacesOK'
      BY DEF TypeOK, PlacesOK, Running, Over
  <2>2. RefsOK'
      BY RootIsTransport, Zenon DEF TypeOK, RefsOK
  <2> QED BY <2>1, <2>2, Zenon DEF TypeOK
<1>2. PhaseInv' /\ HandlerInv'
  <2>1. PhaseInv'
      BY Zenon DEF PhaseInv, CloseInv, HandlerInv, Running, Over, Busy, Retiring
  <2>2. HandlerInv'
      BY Zenon DEF HandlerInv, PhaseInv, CloseInv, Ended, Busy, Retiring, Over
  <2> QED BY <2>1, <2>2
<1>3. QueueInv'
    BY Zenon DEF QueueInv, PhaseInv, HandlerInv, Running, Over, Retiring, WorkerEnded
<1>4. CloseInv' /\ TransportInv'
    BY Zenon DEF TypeOK, PlacesOK, RefsOK, Transports, PhaseInv, CloseInv, HandlerInv,
       TransportInv, Ended, Live, Busy
<1> QED BY <1>1, <1>2, <1>3, <1>4, Zenon

\* The monitor's end keeps the invariant.
LEMMA MonitorEndsKeeps ==
    ASSUME IInv, MonitorEnds
    PROVE  IInv'
<1> USE SessionAssumption DEF IInv, MonitorEnds, handlerVars, closerVars
<1>1. TypeOK'
  <2>1. PlacesOK'
      BY DEF TypeOK, PlacesOK, Running, Over, TrySet
  <2>2. RefsOK'
      BY RootIsTransport, Zenon DEF TypeOK, RefsOK
  <2> QED BY <2>1, <2>2, Zenon DEF TypeOK
<1>2. PhaseInv' /\ HandlerInv'
  <2>1. PhaseInv'
      BY Zenon DEF PhaseInv, CloseInv, HandlerInv, Running, Over, Busy, Retiring
  <2>2. HandlerInv'
      BY Zenon DEF HandlerInv, PhaseInv, CloseInv, Ended, Busy, Retiring, Over
  <2> QED BY <2>1, <2>2
<1>3. QueueInv'
    BY Zenon DEF QueueInv, PhaseInv, HandlerInv, Running, Over, Retiring, WorkerEnded
<1>4. CloseInv' /\ TransportInv'
    BY Zenon DEF TypeOK, PlacesOK, RefsOK, Transports, PhaseInv, CloseInv, HandlerInv,
       TransportInv, Ended, Live, Busy
<1> QED BY <1>1, <1>2, <1>3, <1>4, Zenon

-----------------------------------------------------------------------------
\* What the transports and the workers of the queues do by themselves.

\* What the transports and the workers of the queues do by themselves keeps
\* the invariant.
LEMMA QuietStep ==
    ASSUME IInv, NEW s, Tame(s), s = Nobody \/ (s = requests /\ handler \in Busy),
           QueuesWear, inputs' \in Nat,
           UNCHANGED <<State, overlay, startingOverlay, outbound, lifetime, pump,
                       completion, start, handlerVars, closerVars, monitor, disposed>>
    PROVE  IInv'
<1> USE DEF IInv, handlerVars, closerVars
<1>0. queues \in Seq(QueueRecord) /\ Len(queues) \in Nat /\ DOMAIN queues = 1..Len(queues)
    BY DEF TypeOK
<1>1. queues' \in Seq(QueueRecord) /\ Len(queues') = Len(queues)
      /\ DOMAIN queues' = DOMAIN queues
    BY <1>0, WearDomain
<1>2. PlacesOK'
    BY SMTT(30) DEF TypeOK, PlacesOK
<1>3. RefsOK'
    BY <1>1, Zenon DEF TypeOK, RefsOK
<1>4. TypeOK'
    BY <1>1, <1>2, <1>3, Zenon DEF TypeOK, Tame
<1>5. PhaseInv'
    BY NoQueuesWear, Zenon DEF PhaseInv
<1>6. HandlerInv'
    BY Zenon DEF HandlerInv, Tame, Ended, TypeOK, RefsOK
<1>7. QueueInv'
  <2>1. State \in Running => outbound \in DOMAIN queues
    <3>1. State \in Running => outbound # 0
        BY Zenon DEF QueueInv
    <3>2. outbound \in 0..Len(queues)
        BY Zenon DEF TypeOK, RefsOK
    <3> QED BY <1>0, <3>1, <3>2
  <2>2. \A q \in DOMAIN queues : Wears(queues[q], queues'[q])
      BY Zenon DEF QueuesWear
  <2> QED BY <1>1, <2>1, <2>2, Zenon DEF QueueInv, Wears, Running
<1>8. CloseInv'
  <2>1. 0 \in Transports /\ 0 # s /\ transport'[0].status \in Statuses
    <3>1. 0 # s
        BY SessionAssumption DEF HandlerInv, Nobody
    <3>2. transport'[0].status \in Statuses
        BY RootIsTransport DEF Tame, TransportRecord
    <3> QED BY RootIsTransport, <3>1, <3>2
  <2> QED BY <2>1, Zenon DEF CloseInv, Tame, Ended, TypeOK, RefsOK, Live, Statuses
<1>9. TransportInv'
  <2>1. handler = "Prompt" => requests # 0
      BY DEF HandlerInv
  <2>2. Nobody \notin Transports
      BY SessionAssumption DEF Nobody, Transports
  <2>3. 0 \in Transports /\ (State = "Created" => handler = "Idle")
      BY SessionAssumption DEF Transports, PhaseInv
  <2> QED BY <2>1, <2>2, <2>3, SMTT(30) DEF TransportInv, Tame, TypeOK, RefsOK, Busy
<1> QED BY <1>4, <1>5, <1>6, <1>7, <1>8, <1>9

\* A transport's own steps keep the invariant.
LEMMA TransportStepKeeps ==
    ASSUME IInv, NEW t \in Transports, TransportStep(t)
    PROVE  IInv'
<1>1. transport \in [Transports -> TransportRecord] /\ queues \in Seq(QueueRecord)
      /\ inputs \in Nat
    BY DEF IInv, TypeOK, RefsOK
<1>2. UNCHANGED <<sessionVars, queues>>
    BY Zenon DEF TransportStep, TransportRuns, TransportStartFails, TransportEnds,
       TransportCloses, OutputRefused
<1>3. QueuesWear
    BY <1>1, <1>2, UnchangedWear
<1>4. Tame(Nobody)
  <2>1. CASE TransportRuns(t)
    <3>1. Up(transport[t]) \in TransportRecord /\ Up(transport[t]).status = "Running"
        BY <1>1, UpFacts
    <3>2. transport' = [transport EXCEPT ![t] = Up(transport[t])]
          /\ transport[t].status = "Starting"
        BY <2>1, Zenon DEF TransportRuns
    <3> QED BY <1>1, <3>1, <3>2 DEF Tame, Live
  <2>2. ASSUME NEW kind \in {"Failure", "Other"}, transport' = EndWith(t, kind),
               transport[t].status \in {"Starting", "Running", "Closing"}
        PROVE  Tame(Nobody)
      BY <1>1, <2>2, EndWithTame
  <2>3. CASE TransportStartFails(t)
      BY <2>2, <2>3, Zenon DEF TransportStartFails
  <2>4. CASE TransportCloses(t)
      BY <2>2, <2>4 DEF TransportCloses
  <2>5. CASE OutputRefused(t)
      BY <2>2, <2>5 DEF OutputRefused
  <2>6. CASE \E kind \in {"Other", "Failure"} : TransportEnds(t, kind)
      BY <2>2, <2>6 DEF TransportEnds
  <2> QED BY <2>1, <2>3, <2>4, <2>5, <2>6 DEF TransportStep
<1> QED BY <1>1, <1>2, <1>3, <1>4, QuietStep DEF sessionVars

\* So do those of a queue and of its user.
LEMMA WorkerKeeps ==
    ASSUME IInv, NEW q \in DOMAIN queues,
           Worker(q) \/ \E operation \in Operations : Enter(q, operation)
    PROVE  IInv'
<1>1. transport \in [Transports -> TransportRecord] /\ queues \in Seq(QueueRecord)
      /\ inputs \in Nat
    BY DEF IInv, TypeOK, RefsOK
<1>2. queues[q] \in QueueRecord
    BY <1>1
<1>3. ASSUME NEW queue, Wears(queues[q], queue), queues' = [queues EXCEPT ![q] = queue]
      PROVE  QueuesWear
    BY <1>1, <1>3, UpdateWear, Zenon
<1>4. CASE \E operation \in Operations : Enter(q, operation)
  <2>1. PICK operation \in Operations : Enter(q, operation)
      BY <1>4
  <2>2. queues' = [queues EXCEPT ![q] = Holding(queues[q], operation)]
      BY <2>1, Zenon DEF Enter
  <2>3. QueuesWear
      BY <1>2, <1>3, <2>2, HoldingWears, Zenon
  <2>4. Tame(Nobody)
      BY <1>1, <2>1, UnchangedTame DEF Enter
  <2> QED BY <1>1, <2>1, <2>3, <2>4, QuietStep DEF Enter
<1>5. CASE Deliver(q) \/ Block(q) \/ WorkerCompletes(q)
  <2>1. UNCHANGED <<sessionVars, transport>>
      BY <1>5, Zenon DEF Deliver, Block, WorkerCompletes
  <2>2. ASSUME Deliver(q) PROVE QueuesWear
    <3>1. queues' = [queues EXCEPT ![q] = Relieved(queues[q])]
        BY <2>2, Zenon DEF Deliver
    <3>2. Wears(queues[q], Relieved(queues[q]))
        BY <1>2, <2>2, RelievedWears, Zenon DEF Deliver
    <3> QED BY <1>3, <3>1, <3>2, Zenon
  <2>3. ASSUME Block(q) PROVE QueuesWear
    <3>1. queues' = [queues EXCEPT ![q] = WithWorker(queues[q], "Blocked")]
          /\ queues[q].worker # "Ended"
        BY <2>3 DEF Block
    <3>2. Wears(queues[q], WithWorker(queues[q], "Blocked"))
        BY <1>2, <3>1, WithWorkerWears
    <3> QED BY <1>3, <3>1, <3>2, Zenon
  <2>4. ASSUME WorkerCompletes(q) PROVE QueuesWear
    <3>1. queues' = [queues EXCEPT ![q] = WithWorker(queues[q], "Ended")]
          /\ queues[q].worker # "Ended"
        BY <2>4 DEF WorkerCompletes
    <3>2. Wears(queues[q], WithWorker(queues[q], "Ended"))
        BY <1>2, <3>1, WithWorkerWears
    <3> QED BY <1>3, <3>1, <3>2, Zenon
  <2>5. QueuesWear
      BY <1>5, <2>2, <2>3, <2>4
  <2>6. Tame(Nobody)
      BY <1>1, <2>1, UnchangedTame
  <2> QED BY <1>1, <2>1, <2>5, <2>6, QuietStep DEF sessionVars
<1>6. CASE WriteThrows(q)
  <2>1. queues' = [queues EXCEPT ![q] = Faulted(queues[q])] /\ UNCHANGED sessionVars
      BY <1>6, Zenon DEF WriteThrows
  <2>2. QueuesWear
      BY <1>2, <1>3, <2>1, FaultedWears, Zenon
  <2>3. Tame(Nobody)
    <3>1. CASE UNCHANGED transport
        BY <1>1, <3>1, UnchangedTame, Zenon
    <3>2. ASSUME NEW t \in Targets(q), transport[t].status = "Running",
                 transport' = EndWith(t, "Failure")
          PROVE  Tame(Nobody)
      <4>1. t \in Transports
        BY <1>2, SessionAssumption DEF Targets, QueueRecord, Transports
      <4> QED BY <1>1, <3>2, <4>1, EndWithTame
    <3> QED BY <1>6, <3>1, <3>2 DEF WriteThrows
  <2> QED BY <1>1, <2>1, <2>2, <2>3, QuietStep DEF sessionVars
<1> QED BY <1>4, <1>5, <1>6 DEF Worker

\* DisconnectAsync keeps the invariant: it closes the overlay being handled.
LEMMA DisconnectKeeps ==
    ASSUME IInv, Disconnect
    PROVE  IInv'
<1>1. PICK s \in Transports : s = requests
    BY DEF IInv, TypeOK, RefsOK
<1>2. transport' = Closing(s) /\ UNCHANGED <<sessionVars, queues>>
    BY <1>1, Zenon DEF Disconnect
<1>3. handler \in Busy
    BY DEF Disconnect, Busy
<1>4. transport \in [Transports -> TransportRecord] /\ queues \in Seq(QueueRecord)
      /\ inputs \in Nat
    BY DEF IInv, TypeOK, RefsOK
<1>5. Tame(s) /\ QueuesWear
    BY <1>2, <1>4, ClosingTame, UnchangedWear
<1> QED BY <1>1, <1>2, <1>3, <1>4, <1>5, QuietStep DEF sessionVars

-----------------------------------------------------------------------------
\* The invariant holds, and with it what it gives.

\* The invariant holds initially.
LEMMA InitIInv == Init => IInv
<1> SUFFICES ASSUME Init PROVE IInv
    OBVIOUS
<1> USE SessionAssumption
<1>1. transport \in [Transports -> TransportRecord]
    BY DEF Init, TransportRecord, Statuses
<1>2. queues \in Seq(QueueRecord) /\ Len(queues) = 0 /\ DOMAIN queues = {}
    BY DEF Init
<1>3. PlacesOK /\ 0 \in Transports
    BY DEF Init, PlacesOK, Transports
<1>4. TypeOK
    BY <1>1, <1>2, <1>3, SMTT(30) DEF Init, TypeOK, RefsOK
<1>5. PhaseInv /\ HandlerInv
    BY DEF Init, PhaseInv, HandlerInv, Running, Over, Retiring, Busy
<1>6. QueueInv
    BY <1>2 DEF Init, QueueInv, Running
<1>7. CloseInv
    BY Zenon DEF Init, CloseInv
<1>8. TransportInv
    BY <1>3 DEF Init, TransportInv, Live
<1> QED BY <1>4, <1>5, <1>6, <1>7, <1>8 DEF IInv

\* Every step of the session keeps the invariant.
LEMMA StepKeeps == IInv /\ [Next]_vars => IInv'
<1> SUFFICES ASSUME IInv, [Next]_vars PROVE IInv'
    BY Zenon
<1>1. CASE UNCHANGED vars
    BY <1>1, UnchangedKeeps DEF vars, handlerVars, closerVars, IInv, TypeOK, PlacesOK
<1>2. CASE Start \/ StartSteps
    BY <1>2, StartKeeps, StartReturnsKeeps, StartThrowsKeeps DEF StartSteps
<1>3. CASE Request \/ Decline \/ StartRefused \/ StartOverlay \/ Disconnect
    BY <1>3, RequestKeeps, DeclineKeeps, StartRefusedKeeps, StartOverlayKeeps,
       DisconnectKeeps
<1>4. CASE HandlerSteps
    BY <1>4, PriorRetiredKeeps, OverlayStartedKeeps, OverlayNotStartedKeeps,
       CatchCloseKeeps, CatchJoinedKeeps, StopOverlayKeeps, OverlayStoppedKeeps,
       ResumeRootKeeps, Zenon DEF HandlerSteps
<1>5. CASE Close
    BY <1>5, BeginCloseKeeps DEF Close, IInv, TypeOK, PlacesOK
<1>6. CASE CloserSteps
    BY <1>6, CloseRetiredKeeps, CloseOverlayJoinedKeeps, CloseRootJoinedKeeps,
       CloseFinishesKeeps, CloseThrowsKeeps DEF CloserSteps
<1>7. CASE MonitorSteps \/ Dispose
    BY <1>7, MonitorClosesKeeps, MonitorEndsKeeps, DisposeKeeps DEF MonitorSteps
<1>8. CASE \E t \in Transports : TransportStep(t)
    BY <1>8, TransportStepKeeps
<1>9. CASE \E q \in DOMAIN queues :
             Worker(q) \/ \E operation \in Operations : Enter(q, operation)
    BY <1>9, WorkerKeeps
<1> QED BY <1>1, <1>2, <1>3, <1>4, <1>5, <1>6, <1>7, <1>8, <1>9 DEF Next

\* The invariant holds of every behaviour of the session.
LEMMA SessionInvariant == Spec => []IInv
BY InitIInv, StepKeeps, PTL DEF Spec

\* TerminalSession.cs: the queue input goes to is the one of the state, and a
\* queue is made only when every earlier one has drained, for any number of
\* requests, handoffs, failures and closes.
THEOREM SessionInputFollowsState == Spec => []InputFollowsState
BY SessionInvariant, InvInput, PTL

\* TerminalSession.cs: an overlay has an owner until it has ended, and
\* CloseAsync returns only when every started transport has, with the pump
\* disposed of and no queue left open.
THEOREM SessionCloseReleasesAll == Spec => []CloseReleasesAll
BY SessionInvariant, InvClose, PTL

\* TerminalSession.cs: no handler, start or monitor that comes late takes a
\* session out of Closing, Closed or Failed.
THEOREM SessionNeverRevives == Spec => NoRevival
BY StepNeverRevives, PTL DEF Spec, NoRevival

-----------------------------------------------------------------------------
\* The session and the contract of its transports.

\* A transport, as ITerminalTransport shows it.
Contract(t) == INSTANCE TerminalTransport WITH
    status <- transport[t].status, start <- transport[t].start, outcome <- transport[t].result

\* The transport is left alone, takes a step of the contract, is made, or ends
\* of its own accord, which is Close and End at once.
Abides(t) ==
    \/ transport'[t] = transport[t]
    \/ Contract(t)!Next
    \/ transport[t].status = "Unmade" /\ Contract(t)!Init'
    \/ /\ transport[t].status \in {"Created", "Running"}
       /\ transport'[t].status = "Ended" /\ transport'[t].result \in {"Failure", "Other"}
       /\ transport'[t].start = IF transport[t].start = "Pending" THEN "Threw"
                                ELSE transport[t].start

\* Every step of the session keeps the contract with every transport.
ContractKept == [][\A t \in Transports : Abides(t)]_vars

\* A transport has a result when it has ended, and its start is then over.
ResultInv ==
    /\ \A t \in Transports : transport[t].result # "None" <=> Ended(t)
    /\ \A t \in Transports : Ended(t) => transport[t].start # "Pending"
    /\ transport[0].status # "Unmade"

\* The fields of a transport that is begun, up, marked or settled.
LEMMA FieldFacts ==
    ASSUME NEW tr \in TransportRecord
    PROVE  /\ Begun(tr).status = "Starting" /\ Begun(tr).start = "Pending"
           /\ Begun(tr).result = tr.result
           /\ Up(tr).status = "Running" /\ Up(tr).start = "Ok" /\ Up(tr).result = tr.result
           /\ \A s : /\ Marked(tr, s).status = s /\ Marked(tr, s).start = tr.start
                     /\ Marked(tr, s).result = tr.result
           /\ \A k : /\ Settled(tr, k).status = "Ended"
                     /\ Settled(tr, k).start = IF tr.start = "Pending" THEN "Threw" ELSE tr.start
                     /\ Settled(tr, k).result = IF tr.result = "None" THEN k ELSE tr.result
<1>1. /\ Begun(tr).status = "Starting" /\ Begun(tr).start = "Pending"
      /\ Begun(tr).result = tr.result
    BY Zenon DEF TransportRecord, Begun
<1>2. Up(tr).status = "Running" /\ Up(tr).start = "Ok" /\ Up(tr).result = tr.result
    BY Zenon DEF TransportRecord, Up
<1>3. ASSUME NEW s
      PROVE  /\ Marked(tr, s).status = s /\ Marked(tr, s).start = tr.start
             /\ Marked(tr, s).result = tr.result
    BY Zenon DEF TransportRecord, Marked
<1>4. ASSUME NEW k
      PROVE  /\ Settled(tr, k).status = "Ended"
             /\ Settled(tr, k).start = IF tr.start = "Pending" THEN "Threw" ELSE tr.start
             /\ Settled(tr, k).result = IF tr.result = "None" THEN k ELSE tr.result
    BY Zenon DEF TransportRecord, Settled
<1> QED BY <1>1, <1>2, <1>3, <1>4, Zenon

\* A step on one transport leaves the others alone.
LEMMA OthersAbide ==
    ASSUME transport \in [Transports -> TransportRecord], NEW t \in Transports, NEW tr,
           transport' = [transport EXCEPT ![t] = tr], transport'[t] = tr => Abides(t)
    PROVE  \A u \in Transports : Abides(u)
<1>1. transport'[t] = tr /\ \A u \in Transports \ {t} : transport'[u] = transport[u]
    BY Zenon
<1>2. \A u \in Transports \ {t} : Abides(u)
    BY <1>1, Zenon DEF Abides
<1> QED BY <1>1, <1>2, Zenon

\* Starting, running, making, closing and settling a transport abide.
LEMMA OneAbides ==
    ASSUME transport \in [Transports -> TransportRecord], NEW t \in Transports, NEW tr,
           transport' = [transport EXCEPT ![t] = tr],
           \/ transport[t].status = "Created" /\ tr = Begun(transport[t])
           \/ transport[t].status = "Starting" /\ tr = Up(transport[t])
           \/ /\ transport[t].status = "Unmade" /\ tr = Marked(transport[t], "Created")
              /\ transport[t].start = "None" /\ transport[t].result = "None"
           \/ tr = Shut(transport[t])
    PROVE  \A u \in Transports : Abides(u)
<1> SUFFICES ASSUME transport'[t] = tr PROVE Abides(t)
    BY OthersAbide, Zenon
<1>1. PICK a \in TransportRecord : a = transport[t]
    BY Zenon
<1>2. \A s : /\ Marked(a, s).status = s /\ Marked(a, s).start = a.start
             /\ Marked(a, s).result = a.result
    BY FieldFacts, Zenon
<1>3. CASE a.status = "Created" /\ tr = Begun(a)
  <2>1. Contract(t)!StartAsync
      BY <1>1, <1>3, FieldFacts, Zenon DEF Contract!StartAsync
  <2> QED BY <2>1, Zenon DEF Abides, Contract!Next
<1>4. CASE a.status = "Starting" /\ tr = Up(a)
  <2>1. Contract(t)!Run
      BY <1>1, <1>4, FieldFacts, Zenon DEF Contract!Run
  <2> QED BY <2>1, Zenon DEF Abides, Contract!Next
<1>5. CASE a.status = "Unmade" /\ tr = Marked(a, "Created") /\ a.start = "None" /\ a.result = "None"
  <2>1. /\ transport'[t].status = "Created" /\ transport'[t].start = "None"
        /\ transport'[t].result = "None"
      BY <1>2, <1>5
  <2>2. Contract(t)!Init'
      BY <2>1 DEF Contract!Init
  <2> QED BY <1>1, <1>5, <2>2, Zenon DEF Abides
<1>6. CASE tr = Shut(a)
  <2>1. CASE a.status \in {"Created", "Starting", "Running"}
    <3>1. /\ transport'[t].status = "Closing" /\ transport'[t].start = a.start
          /\ transport'[t].result = a.result
      <4>1. tr = Marked(a, "Closing")
          BY <1>6, <2>1, Zenon DEF Shut
      <4> QED BY <4>1, <1>2
    <3>2. Contract(t)!Close
        BY <1>1, <2>1, <3>1, Zenon DEF Contract!Close
    <3> QED BY <3>2, Zenon DEF Abides, Contract!Next
  <2>2. CASE a.status \notin {"Created", "Starting", "Running"}
      BY <1>1, <1>6, <2>2, Zenon DEF Abides, Shut
  <2> QED BY <2>1, <2>2, Zenon
<1> QED BY <1>1, <1>3, <1>4, <1>5, <1>6, Zenon

\* Settling one that was made does, too.
LEMMA SettledAbides ==
    ASSUME transport \in [Transports -> TransportRecord], ResultInv, NEW t \in Transports,
           transport[t].status # "Unmade", NEW kind \in {"Failure", "Other"},
           transport' = EndWith(t, kind)
    PROVE  \A u \in Transports : Abides(u)
<1>1. PICK a \in TransportRecord : a = transport[t]
    BY Zenon
<1>2. transport' = [transport EXCEPT ![t] = Settled(a, kind)]
    BY <1>1, Zenon DEF EndWith
<1> SUFFICES ASSUME transport'[t] = Settled(a, kind) PROVE Abides(t)
    BY <1>2, OthersAbide, Zenon
<1>3. /\ transport'[t].status = "Ended"
      /\ transport'[t].start = IF a.start = "Pending" THEN "Threw" ELSE a.start
      /\ transport'[t].result = IF a.result = "None" THEN kind ELSE a.result
  <2>1. \A k : /\ Settled(a, k).status = "Ended"
               /\ Settled(a, k).start = IF a.start = "Pending" THEN "Threw" ELSE a.start
               /\ Settled(a, k).result = IF a.result = "None" THEN k ELSE a.result
      BY FieldFacts, Zenon
  <2> QED BY <2>1
<1>4. a.status \in Statuses /\ (a.result # "None" <=> a.status = "Ended")
    BY <1>1, Zenon DEF TransportRecord, ResultInv, Ended
<1>5. CASE a.status \in {"Starting", "Closing"}
  <2>1. transport'[t].result \in {"Failure", "Other"}
      BY <1>3, <1>4, <1>5, Zenon
  <2>2. Contract(t)!End
      BY <1>1, <1>3, <1>5, <2>1, Zenon DEF Contract!End
  <2> QED BY <2>2, Zenon DEF Abides, Contract!Next
<1>6. CASE a.status \in {"Created", "Running"}
  <2>1. transport'[t].result \in {"Failure", "Other"}
      BY <1>3, <1>4, <1>6, Zenon
  <2> QED BY <1>1, <1>3, <1>6, <2>1, Zenon DEF Abides
<1>7. CASE a.status = "Ended"
  <2>1. a.start # "Pending"
      BY <1>1, <1>7, Zenon DEF ResultInv, Ended
  <2>2. Settled(a, kind) = a
      BY <1>4, <1>7, <2>1, Zenon DEF Settled, TransportRecord
  <2> QED BY <1>1, <2>2, Zenon DEF Abides
<1> QED BY <1>1, <1>4, <1>5, <1>6, <1>7, Zenon DEF Statuses

\* Cancelling _lifetime abides: each transport is shut or left alone.
LEMMA CancelledAbides ==
    ASSUME transport \in [Transports -> TransportRecord], transport' = Cancelled
    PROVE  \A u \in Transports : Abides(u)
<1> SUFFICES ASSUME NEW u \in Transports PROVE Abides(u)
    BY Zenon
<1>1. PICK a \in TransportRecord : a = transport[u]
    BY Zenon
<1>2. transport'[u] = IF a.start = "None" THEN a ELSE Shut(a)
    BY <1>1, Zenon DEF Cancelled
<1>3. CASE a.start # "None" /\ a.status \in {"Created", "Starting", "Running"}
  <2>1. transport'[u] = Marked(a, "Closing")
      BY <1>2, <1>3, Zenon DEF Shut
  <2>2. \A s : /\ Marked(a, s).status = s /\ Marked(a, s).start = a.start
               /\ Marked(a, s).result = a.result
      BY FieldFacts, Zenon
  <2>3. /\ transport'[u].status = "Closing" /\ transport'[u].start = a.start
        /\ transport'[u].result = a.result
      BY <2>1, <2>2
  <2>4. Contract(u)!Close
      BY <1>1, <1>3, <2>3, Zenon DEF Contract!Close
  <2> QED BY <2>4, Zenon DEF Abides, Contract!Next
<1>4. CASE ~(a.start # "None" /\ a.status \in {"Created", "Starting", "Running"})
    BY <1>1, <1>2, <1>4, Zenon DEF Abides, Shut
<1> QED BY <1>3, <1>4, Zenon

\* Transports that abide keep their results in step with their ends.
LEMMA ResultKept ==
    ASSUME transport \in [Transports -> TransportRecord], ResultInv,
           \A t \in Transports : Abides(t)
    PROVE  ResultInv'
<1>1. ASSUME NEW t \in Transports
      PROVE  /\ transport'[t].result # "None" <=> transport'[t].status = "Ended"
             /\ transport'[t].status = "Ended" => transport'[t].start # "Pending"
             /\ transport[t].status # "Unmade" => transport'[t].status # "Unmade"
  <2>1. /\ transport[t].result # "None" <=> transport[t].status = "Ended"
        /\ transport[t].status = "Ended" => transport[t].start # "Pending"
      BY Zenon DEF ResultInv, Ended
  <2>2. CASE transport'[t] = transport[t]
      BY <2>1, <2>2, Zenon
  <2>3. CASE Contract(t)!StartAsync \/ Contract(t)!Run \/ Contract(t)!Close
      BY <2>1, <2>3 DEF Contract!StartAsync, Contract!Run, Contract!Close
  <2>4. CASE Contract(t)!End
      BY <2>1, <2>4 DEF Contract!End
  <2>5. CASE transport[t].status = "Unmade" /\ Contract(t)!Init'
      BY <2>5 DEF Contract!Init
  <2>6. CASE /\ transport[t].status \in {"Created", "Running"}
             /\ transport'[t].status = "Ended" /\ transport'[t].result \in {"Failure", "Other"}
             /\ transport'[t].start = IF transport[t].start = "Pending" THEN "Threw"
                                      ELSE transport[t].start
      BY <2>6
  <2> QED BY <2>2, <2>3, <2>4, <2>5, <2>6, Zenon DEF Abides, Contract!Next
<1>2. transport'[0].status # "Unmade"
    BY <1>1, RootIsTransport, Zenon DEF ResultInv
<1> QED BY <1>1, <1>2, Zenon DEF ResultInv, Ended

\* The first part of CloseCoreAsync abides.
LEMMA BeginCloseAbides ==
    ASSUME IInv, BeginClose
    PROVE  \A t \in Transports : Abides(t)
<1>1. transport' = transport \/ transport' = Cancelled
    BY Zenon DEF BeginClose
<1>2. transport \in [Transports -> TransportRecord]
    BY Zenon DEF IInv, TypeOK
<1> QED BY <1>1, <1>2, CancelledAbides, Zenon DEF Abides

\* Every step of the session abides.
LEMMA StepAbides == IInv /\ ResultInv /\ [Next]_vars => \A t \in Transports : Abides(t)
<1> SUFFICES ASSUME IInv, ResultInv, [Next]_vars
             PROVE  \A t \in Transports : Abides(t)
    BY Zenon
<1>1. /\ transport \in [Transports -> TransportRecord]
      /\ requests \in Transports /\ closeOverlay \in Transports /\ 0 \in Transports
    BY RootIsTransport, Zenon DEF IInv, TypeOK, RefsOK
<1>2. ASSUME transport' = transport PROVE \A t \in Transports : Abides(t)
    BY <1>2, Zenon DEF Abides
<1>3. ASSUME NEW t \in Transports, transport' = Closing(t)
      PROVE  \A u \in Transports : Abides(u)
    BY <1>1, <1>3, OneAbides, Zenon DEF Closing
<1>4. CASE UNCHANGED vars
    BY <1>2, <1>4, Zenon DEF vars
<1>5. CASE Start
  <2>1. transport[0].status = "Created"
      BY <1>5, Zenon DEF Start, IInv, TransportInv
  <2> QED BY <1>1, <1>5, <2>1, OneAbides, Zenon DEF Start
<1>6. CASE StartSteps \/ Request \/ Decline
    BY <1>2, <1>6, Zenon DEF StartSteps, StartReturns, StartThrows, Request, Decline
<1>7. CASE StartRefused \/ StartOverlay
  <2>1. /\ transport[requests].status = "Unmade"
        /\ transport' = [transport EXCEPT ![requests] = Marked(transport[requests], "Created")]
      BY <1>7, Zenon DEF StartRefused, StartOverlay, IInv, TransportInv
  <2>2. transport[requests].start = "None"
      BY <1>1, <2>1, Zenon DEF IInv, TransportInv
  <2>3. transport[requests].result = "None"
      BY <1>1, <2>1, Zenon DEF ResultInv, Ended
  <2> QED BY <1>1, <2>1, <2>2, <2>3, OneAbides, Zenon
<1>8. CASE PriorRetired
  <2>1. CASE transport' = transport
      BY <1>2, <2>1, Zenon
  <2>2. CASE /\ transport[requests].status = "Created"
             /\ transport' = [transport EXCEPT ![requests] = Begun(transport[requests])]
      BY <1>1, <2>2, OneAbides, Zenon
  <2> QED BY <1>8, <2>1, <2>2, Zenon DEF PriorRetired
<1>9. CASE CatchClose \/ Disconnect
    BY <1>1, <1>3, <1>9, Zenon DEF CatchClose, Disconnect
<1>10. CASE \/ OverlayStarted \/ OverlayNotStarted \/ CatchJoined \/ StopOverlay
            \/ OverlayStopped \/ ResumeRoot
    BY <1>2, <1>10, Zenon DEF OverlayStarted, OverlayNotStarted, CatchJoined, StopOverlay,
       OverlayStopped, ResumeRoot
<1>11. CASE Close
    BY <1>11, BeginCloseAbides, Zenon DEF Close
<1>12. CASE CloseRetired \/ CloseOverlayJoined
    BY <1>1, <1>2, <1>3, <1>12, Zenon DEF CloseRetired, CloseOverlayJoined
<1>13. CASE CloseRootJoined \/ CloseFinishes \/ CloseThrows \/ MonitorEnds
    BY <1>2, <1>13, Zenon DEF CloseRootJoined, CloseFinishes, CloseThrows, MonitorEnds
<1>14. CASE MonitorCloses
    BY <1>2, <1>14, BeginCloseAbides, Zenon DEF MonitorCloses
<1>15. CASE Dispose
  <2>1. transport' = EndWith(0, "Other") /\ transport[0].status # "Unmade"
      BY <1>15, Zenon DEF Dispose, ResultInv
  <2> QED BY <1>1, <2>1, SettledAbides, Zenon
<1>16. ASSUME NEW t \in Transports, TransportStep(t)
       PROVE  \A u \in Transports : Abides(u)
  <2>1. CASE TransportRuns(t)
      BY <1>1, <2>1, OneAbides, Zenon DEF TransportRuns
  <2>2. CASE \/ TransportStartFails(t) \/ TransportCloses(t) \/ OutputRefused(t)
             \/ \E kind \in {"Other", "Failure"} : TransportEnds(t, kind)
    <3>1. transport[t].status # "Unmade"
        BY <2>2, Zenon DEF TransportStartFails, TransportCloses, OutputRefused, TransportEnds
    <3>2. \E kind \in {"Failure", "Other"} : transport' = EndWith(t, kind)
        BY <2>2, Zenon DEF TransportStartFails, TransportCloses, OutputRefused, TransportEnds
    <3> QED BY <1>1, <3>1, <3>2, SettledAbides, Zenon
  <2> QED BY <1>16, <2>1, <2>2, Zenon DEF TransportStep
<1>17. ASSUME NEW q \in DOMAIN queues, WriteThrows(q)
       PROVE  \A u \in Transports : Abides(u)
  <2>1. CASE transport' = transport
      BY <1>2, <2>1, Zenon
  <2>2. CASE transport' # transport
    <3>1. PICK t \in Targets(q) : /\ transport[t].status = "Running"
                                  /\ transport' = EndWith(t, "Failure")
        BY <1>17, <2>2, Zenon DEF WriteThrows
    <3>2. queues[q].sink \in Transports
      <4>1. queues \in Seq(QueueRecord)
          BY Zenon DEF IInv, TypeOK
      <4>2. queues[q] \in QueueRecord
          BY <4>1
      <4> QED BY <4>2, Zenon DEF QueueRecord
    <3>3. t \in Transports
        BY <1>1, <3>2, Zenon DEF Targets
    <3> QED BY <1>1, <3>1, <3>3, SettledAbides, Zenon
  <2> QED BY <2>1, <2>2, Zenon
<1>18. ASSUME NEW q \in DOMAIN queues,
              \/ Deliver(q) \/ Block(q) \/ WorkerCompletes(q)
              \/ \E operation \in Operations : Enter(q, operation)
       PROVE  \A u \in Transports : Abides(u)
    BY <1>2, <1>18, Zenon DEF Deliver, Block, WorkerCompletes, Enter
<1>19. CASE HandlerSteps \/ CloserSteps \/ MonitorSteps
    BY <1>8, <1>9, <1>10, <1>12, <1>13, <1>14, <1>19, Zenon
    DEF HandlerSteps, CloserSteps, MonitorSteps
<1>20. CASE \E q \in DOMAIN queues :
              Worker(q) \/ \E operation \in Operations : Enter(q, operation)
    BY <1>17, <1>18, <1>20, Zenon DEF Worker
<1> QED BY <1>4, <1>5, <1>6, <1>7, <1>9, <1>11, <1>15, <1>16, <1>19, <1>20, Zenon DEF Next

\* The transports a session starts out with have no result.
LEMMA InitResult == Init => ResultInv
<1> SUFFICES ASSUME Init PROVE ResultInv
    BY Zenon
<1>1. \A t \in Transports : /\ transport[t].status = IF t = 0 THEN "Created" ELSE "Unmade"
                            /\ transport[t].start = "None" /\ transport[t].result = "None"
    BY Zenon DEF Init
<1> QED BY <1>1, RootIsTransport DEF ResultInv, Ended

\* TerminalSession.cs: whatever requests, disconnects, closes and failures do,
\* the session moves every transport by the steps of ITerminalTransport's
\* contract alone: it starts one once, never after closing it, and none comes
\* back or changes its result.
THEOREM SessionKeepsContract == Spec => ContractKept
<1>1. IInv /\ ResultInv /\ [Next]_vars => (ResultInv)'
  <2> SUFFICES ASSUME IInv, ResultInv, [Next]_vars PROVE ResultInv'
      BY Zenon
  <2>1. transport \in [Transports -> TransportRecord]
      BY Zenon DEF IInv, TypeOK
  <2> QED BY <2>1, StepAbides, ResultKept, Zenon
<1>2. IInv /\ ResultInv /\ [Next]_vars => [\A t \in Transports : Abides(t)]_vars
    BY StepAbides, Zenon
<1> QED BY <1>1, <1>2, InitResult, SessionInvariant, PTL DEF Spec, ContractKept
============================================================================
