--------------------------- MODULE TransportsProofs ---------------------------
(***************************************************************************)
(* For any writers and closers: either transport is what a session takes   *)
(* it for, a close settles it, nothing is freed under its user, and the    *)
(* result is honest.  Each transport has an invariant in four parts: what  *)
(* the lock publishes (Life), who is in the write gate (Gate), what a join *)
(* has waited for (Join) and which ends are natural (Ends).                *)
(***************************************************************************)
EXTENDS Transports, TLAPS

\* A reason for a close is one of the four, not the absence of one.
LEMMA Reasons ==
    /\ CloseReasons \subseteq Ssh!TerminalCloseReason
    /\ CloseReasons \subseteq WinPty!TerminalCloseReason
  BY TransportsAssumption DEF Ssh!SshAssumption, WinPty!WinPtyAssumption

-----------------------------------------------------------------------------
\* The SSH transport.

SshKinds == {"None", "Cancelled", "ConnectionFailure", "CleanEof", "ForcedTermination"}
SshPlaces ==
    {"Idle", "Waiting", "FlushWaiting", "Holding", "Writing", "Flushing", "Leaving",
     "Finishing"}
Ending == {"Closing", "Closed", "Failed"}
Early == {"Opening", "Connecting", "Opened"}

\* Nobody has finished the transport, or is about to.
Untouched == result = "None" /\ \A a \in Ssh!Finishers : ending[a] = "None"

\* What makes the lock of StartCoreAsync safe: while no close has come, a
\* start has the transport to itself, because readers and writers come after
\* it; and whoever is in FinishAsync is the only one, and publishes a result
\* only after a final state.
SshLife ==
    /\ ending \in [Ssh!Finishers -> SshKinds]
    /\ writer \in [Writers -> SshPlaces]
    /\ State \in {"Created", "Starting", "Running"} \cup Ending
    /\ State = "Created" => start = "None" /\ closeReason = "None" /\ Untouched
    /\ start \in Early /\ closeReason = "None" => State = "Starting" /\ Untouched
    /\ cleanup # "None" =>
           finishGate \in Ssh!Finishers /\ ending[finishGate] # "None" /\ result = "None"
    /\ cleanup = "Result" => State \in Ending
    /\ reader # "None" => start = "Ok"
    /\ \A w \in Writers : writer[w] # "Idle" => start = "Ok"
    /\ close # "None" => closeReason # "None"

\* Before the start.
LEMMA SshLifeInit == kind = "Ssh" /\ Ssh!Init => SshLife /\ Contract!Init
BY DEF Ssh!Init, SshLife, Untouched, Early, Ending, SshKinds, SshPlaces, Contract!Init,
   Ssh!Status, Ssh!StartTask, Ssh!Outcome

\* FinishAsync leaves the threads where they are.
LEMMA FinishingFrame ==
    ASSUME Ssh!Finishing
    PROVE  /\ UNCHANGED <<closeReason, start, reader, writer, writeGate, close, dispose,
                          remote, shellClosed>>
           /\ lifetime' = lifetime \/ lifetime'
<1>1. CASE \E a \in Ssh!Finishers : Ssh!FinishEnters(a)
  BY <1>1 DEF Ssh!FinishEnters, Ssh!peerVars
<1>2. CASE Ssh!FinishReleases
  BY <1>2, Zenon DEF Ssh!FinishReleases, Ssh!peerVars
<1>3. CASE Ssh!FinishSetsState \/ Ssh!FinishSetsResult
  BY <1>3 DEF Ssh!FinishSetsState, Ssh!FinishSetsResult, Ssh!peerVars
<1> QED BY <1>1, <1>2, <1>3 DEF Ssh!Finishing

\* A writer leaves everything but its place, the gate and its call of FinishAsync.
LEMMA SshWriterFrame ==
    ASSUME NEW w \in Writers, \/ Ssh!BeginWrite(w) \/ Ssh!BeginFlush(w)
                              \/ Ssh!PeerReads(w) \/ Ssh!WriterRuns(w)
    PROVE  UNCHANGED <<State, result, closeReason, lifetime, callerToken, owned, finishGate,
                       cleanup, start, reader, close, dispose, remote, shellClosed>>
<1>1. UNCHANGED Ssh!writeVars
  BY Zenon DEF Ssh!BeginWrite, Ssh!BeginFlush, Ssh!WriterRuns, Ssh!WriteCancelled,
     Ssh!WriteEnters, Ssh!WriteBegins, Ssh!WriteThrows, Ssh!WriteLeaves, Ssh!PeerReads,
     Ssh!WriteGivenUp, Ssh!Written
<1> QED BY <1>1 DEF Ssh!writeVars, Ssh!finishVars, Ssh!peerVars

\* The published state only moves forward, by a step of the contract.
LEMMA SshLifeStep ==
    ASSUME kind = "Ssh", kind' = "Ssh", Ssh!SshAssumption, SshLife, [Ssh!Next]_(Ssh!vars)
    PROVE  SshLife' /\ [Contract!Next]_(Contract!vars)
<1> USE DEF Ending, Early, SshKinds, SshPlaces
<1> DEFINE Same == UNCHANGED <<State, result>>
           Goal == SshLife' /\ [Contract!Next]_(Contract!vars)
<1>1. CASE Ssh!StartAsync
  <2>1. SshLife'
    BY <1>1 DEF Ssh!StartAsync, Ssh!startVars, Ssh!finishVars, SshLife, Untouched
  <2>2. Contract!StartAsync
    BY <1>1 DEF Ssh!StartAsync, Ssh!startVars, SshLife, Untouched, Contract!StartAsync,
       Ssh!Status, Ssh!StartTask, Ssh!Outcome
  <2> QED BY <2>1, <2>2 DEF Contract!Next
<1>2. CASE Ssh!Starter
  <2>1. start \notin {"None", "Ok"} /\ State # "Created" /\ reader = "None"
    BY <1>2 DEF Ssh!Starter, Ssh!Connect, Ssh!DisposeConnectionAttempt,
       Ssh!CreateShellStream, Ssh!Runs, Ssh!LaunchReader, Ssh!Withdraws, Ssh!StartFails,
       Ssh!StartCatches, Ssh!StartThrows, SshLife
  <2>2. UNCHANGED <<result, closeReason, writer, cleanup, finishGate, close>>
    BY <1>2 DEF Ssh!Starter, Ssh!Connect, Ssh!DisposeConnectionAttempt,
       Ssh!CreateShellStream, Ssh!Runs, Ssh!LaunchReader, Ssh!Withdraws, Ssh!StartFails,
       Ssh!StartCatches, Ssh!StartThrows, Ssh!startVars, Ssh!finishVars
  <2>3. CASE Ssh!Runs
    <3>1. State = "Starting" /\ Untouched
      BY <2>3 DEF Ssh!Runs, SshLife
    <3>2. SshLife'
      BY <2>1, <2>2, <2>3, <3>1 DEF Ssh!Runs, SshLife, Untouched
    <3>3. Contract!Run
      BY <2>2, <2>3, <3>1 DEF Ssh!Runs, Untouched, Contract!Run, Ssh!Status,
         Ssh!StartTask, Ssh!Outcome
    <3> QED BY <3>2, <3>3 DEF Contract!Next
  <2>4. CASE Ssh!StartCatches
    <3>1. SshLife'
      BY <2>1, <2>2, <2>4 DEF Ssh!StartCatches, Ssh!CallsFinish, SshLife, Untouched,
         Ssh!Finishers
    <3>2. UNCHANGED Contract!vars
      BY <2>2, <2>4 DEF Ssh!StartCatches, Contract!vars, Ssh!Status, Ssh!StartTask,
         Ssh!Outcome
    <3> QED BY <3>1, <3>2
  <2>5. CASE \/ Ssh!Connect \/ Ssh!DisposeConnectionAttempt \/ Ssh!CreateShellStream
             \/ Ssh!LaunchReader
             \/ Ssh!Withdraws \/ Ssh!StartFails \/ Ssh!StartThrows
    <3>1. UNCHANGED <<State, ending>>
      BY <2>5 DEF Ssh!Connect, Ssh!DisposeConnectionAttempt, Ssh!CreateShellStream,
         Ssh!LaunchReader, Ssh!Withdraws, Ssh!StartFails, Ssh!StartThrows
    <3>2. start' # "None" /\ (start' \in Early => start \in Early)
      BY <2>5 DEF Ssh!Connect, Ssh!DisposeConnectionAttempt, Ssh!CreateShellStream,
         Ssh!LaunchReader, Ssh!Withdraws, Ssh!StartFails, Ssh!StartThrows
    <3>3. \/ start = "Launching" /\ start' = "Ok"
          \/ /\ reader' = reader /\ start \notin {"Launching", "Ok"}
             /\ start' \notin {"Launching", "Ok"}
      BY <2>5 DEF Ssh!Connect, Ssh!DisposeConnectionAttempt, Ssh!CreateShellStream,
         Ssh!LaunchReader, Ssh!Withdraws, Ssh!StartFails, Ssh!StartThrows
    <3>4. SshLife'
      BY <2>1, <2>2, <3>1, <3>2, <3>3 DEF SshLife, Untouched
    <3>5. Ssh!StartTask' = Ssh!StartTask
      BY <2>1, <2>2, <3>2, <3>3 DEF Ssh!StartTask
    <3>6. Ssh!Status' = Ssh!Status /\ Ssh!Outcome' = Ssh!Outcome
      BY <2>2, <3>1 DEF Ssh!Status, Ssh!Outcome
    <3>7. UNCHANGED Contract!vars
      BY <3>5, <3>6 DEF Contract!vars
    <3> QED BY <3>4, <3>7
  <2> QED BY <1>2, <2>3, <2>4, <2>5 DEF Ssh!Starter
<1>3. CASE Ssh!Finishing
  <2>1. UNCHANGED <<closeReason, start, reader, writer, close>>
    BY <1>3, FinishingFrame
  <2>2. CASE \E a \in Ssh!Finishers : Ssh!FinishEnters(a)
    <3>1. PICK a \in Ssh!Finishers : Ssh!FinishEnters(a)
      BY <2>2
    <3>2. cleanup = "None" /\ ~Untouched
      BY <3>1 DEF Ssh!FinishEnters, SshLife, Ssh!SshAssumption, Ssh!Finishers, Ssh!NoOne,
         Untouched
    <3>3. SshLife'
      BY <2>1, <3>1, <3>2 DEF Ssh!FinishEnters, Ssh!CallsFinish, Ssh!finishVars, SshLife,
         Untouched
    <3>4. [Contract!Next]_(Contract!vars)
      BY <2>1, <3>1 DEF Ssh!FinishEnters, Contract!Next, Contract!Close, Contract!vars,
         Ssh!Status, Ssh!StartTask, Ssh!Outcome
    <3> QED BY <3>3, <3>4
  <2>3. CASE Ssh!FinishReleases
    <3>1. SshLife'
      BY <2>1, <2>3 DEF Ssh!FinishReleases, SshLife, Untouched
    <3>2. UNCHANGED Contract!vars
      BY <2>1, <2>3 DEF Ssh!FinishReleases, Contract!vars, Ssh!Status, Ssh!StartTask,
         Ssh!Outcome
    <3> QED BY <3>1, <3>2
  <2>4. CASE Ssh!FinishSetsState
    <3>1. ~Untouched
      BY <2>4 DEF Ssh!FinishSetsState, SshLife, Untouched
    <3>2. SshLife'
      BY <2>1, <2>4, <3>1 DEF Ssh!FinishSetsState, SshLife, Untouched
    <3>3. [Contract!Next]_(Contract!vars)
      BY <2>1, <2>4 DEF Ssh!FinishSetsState, SshLife, Contract!Next, Contract!Close,
         Contract!vars, Ssh!Status, Ssh!StartTask, Ssh!Outcome
    <3> QED BY <3>2, <3>3
  <2>5. CASE Ssh!FinishSetsResult
    <3>1. /\ finishGate \in Ssh!Finishers /\ ending[finishGate] # "None" /\ result = "None"
          /\ State \in Ending /\ ~Untouched
      BY <2>5 DEF Ssh!FinishSetsResult, SshLife, Untouched
    <3>2. result' # "None" /\ State' = State
      BY <2>5, <3>1 DEF Ssh!FinishSetsResult, Ssh!PublishedKind
    <3>3. SshLife'
      BY <2>1, <2>5, <3>1, <3>2 DEF Ssh!FinishSetsResult, Ssh!CallsFinish, SshLife,
         Untouched
    <3>4. Contract!End
      BY <2>1, <3>1, <3>2 DEF Contract!End, Ssh!Status, Ssh!StartTask, Ssh!Outcome
    <3> QED BY <3>3, <3>4 DEF Contract!Next
  <2> QED BY <1>3, <2>2, <2>3, <2>4, <2>5 DEF Ssh!Finishing
<1>4. ASSUME Same, UNCHANGED start
      PROVE  UNCHANGED Contract!vars
  BY <1>4 DEF Contract!vars, Ssh!Status, Ssh!StartTask, Ssh!Outcome
<1>5. CASE Ssh!Reader
  <2>1. Same /\ UNCHANGED <<closeReason, start, writer, cleanup, finishGate, close>>
    BY <1>5 DEF Ssh!Reader, Ssh!ReadData, Ssh!ReadEnds, Ssh!ReaderSettles,
       Ssh!ReaderThrows, Ssh!ReaderReturns, Ssh!readVars, Ssh!finishVars
  <2>2. reader # "None"
    BY <1>5 DEF Ssh!Reader, Ssh!ReadData, Ssh!ReadEnds, Ssh!ReaderSettles,
       Ssh!ReaderThrows, Ssh!ReaderReturns
  <2>3. ending' = ending \/ \E k \in SshKinds \ {"None"} : Ssh!CallsFinish("Reader", k)
    <3>1. ASSUME NEW k \in SshKinds \ {"None"}, Ssh!ReaderFinishes(k)
          PROVE  ending' = ending \/ Ssh!CallsFinish("Reader", k)
      BY <3>1 DEF Ssh!ReaderFinishes
    <3>2. CASE Ssh!ReaderSettles \/ Ssh!ReaderThrows
      <4>1. \E k \in SshKinds \ {"None"} : Ssh!ReaderFinishes(k)
        BY <3>2 DEF Ssh!ReaderSettles, Ssh!ReaderThrows
      <4> QED BY <3>1, <4>1
    <3>3. CASE Ssh!ReadData \/ Ssh!ReadEnds \/ Ssh!ReaderReturns
      BY <3>3 DEF Ssh!ReadData, Ssh!ReadEnds, Ssh!ReaderReturns
    <3> QED BY <1>5, <3>2, <3>3 DEF Ssh!Reader
  <2>4. SshLife'
    <3>1. CASE ending' = ending
      BY <2>1, <2>2, <3>1 DEF SshLife, Untouched
    <3>2. ASSUME NEW k \in SshKinds \ {"None"}, Ssh!CallsFinish("Reader", k)
          PROVE  SshLife'
      BY <2>1, <2>2, <3>2 DEF SshLife, Untouched, Ssh!CallsFinish, Ssh!Finishers
    <3> QED BY <2>3, <3>1, <3>2
  <2> QED BY <1>4, <2>1, <2>4
<1>6. CASE \E w \in Writers : \/ Ssh!BeginWrite(w) \/ Ssh!BeginFlush(w)
                              \/ Ssh!PeerReads(w) \/ Ssh!WriterRuns(w)
  <2>1. PICK w \in Writers : \/ Ssh!BeginWrite(w) \/ Ssh!BeginFlush(w)
                             \/ Ssh!PeerReads(w) \/ Ssh!WriterRuns(w)
    BY <1>6, Zenon
  <2>2. Same /\ UNCHANGED <<closeReason, start, reader, cleanup, finishGate, close>>
    BY <2>1 DEF Ssh!BeginWrite, Ssh!BeginFlush, Ssh!WriterRuns, Ssh!WriteCancelled,
       Ssh!WriteEnters, Ssh!WriteBegins, Ssh!WriteThrows, Ssh!WriteLeaves, Ssh!PeerReads,
       Ssh!WriteGivenUp, Ssh!Written, Ssh!writeVars, Ssh!finishVars
  <2>3. start = "Ok"
    BY <2>1 DEF Ssh!BeginWrite, Ssh!BeginFlush, Ssh!WriterRuns, Ssh!WriteCancelled,
       Ssh!WriteEnters, Ssh!WriteBegins, Ssh!WriteThrows, Ssh!WriteLeaves, Ssh!PeerReads,
       Ssh!WriteGivenUp, Ssh!Written, SshLife
  <2>4. \E place \in SshPlaces : Ssh!WriterMoves(w, place)
    BY <2>1 DEF Ssh!BeginWrite, Ssh!BeginFlush, Ssh!WriterRuns, Ssh!WriteCancelled,
       Ssh!WriteEnters, Ssh!WriteBegins, Ssh!WriteThrows, Ssh!WriteLeaves, Ssh!PeerReads,
       Ssh!WriteGivenUp, Ssh!Written
  <2>5. ending' = ending \/ Ssh!CallsFinish(w, "ConnectionFailure")
    BY <2>1 DEF Ssh!BeginWrite, Ssh!BeginFlush, Ssh!WriterRuns, Ssh!WriteCancelled,
       Ssh!WriteEnters, Ssh!WriteBegins, Ssh!WriteThrows, Ssh!WriteLeaves, Ssh!PeerReads,
       Ssh!WriteGivenUp, Ssh!Written
  <2>6. writer' \in [Writers -> SshPlaces]
    BY <2>4 DEF SshLife, Ssh!WriterMoves
  <2>7. /\ ending' \in [Ssh!Finishers -> SshKinds]
        /\ \A a \in Ssh!Finishers : ending[a] # "None" => ending'[a] # "None"
    BY <2>5 DEF SshLife, Ssh!CallsFinish
  <2>8. SshLife'
    BY <2>2, <2>3, <2>6, <2>7 DEF SshLife
  <2> QED BY <1>4, <2>2, <2>8
<1>7. ASSUME NEW reason \in Ssh!TerminalCloseReason, Ssh!CloseOnce(reason),
             UNCHANGED <<result, start, reader, writer, cleanup, finishGate, ending>>
      PROVE  Goal
  <2>1. SshLife'
    BY <1>7 DEF Ssh!CloseOnce, Ssh!TerminalCloseReason, SshLife, Untouched
  <2>2. [Contract!Next]_(Contract!vars)
    BY <1>7 DEF Ssh!CloseOnce, SshLife, Contract!Next, Contract!Close, Contract!vars,
       Ssh!Status, Ssh!StartTask, Ssh!Outcome
  <2> QED BY <2>1, <2>2
<1>8. CASE (\E reason \in CloseReasons : Ssh!CloseAsync(reason)) \/ Ssh!Dispose
  BY <1>7, <1>8, Reasons DEF Ssh!CloseAsync, Ssh!Dispose, Ssh!TerminalCloseReason,
     Ssh!closeVars, Ssh!finishVars
<1>9. ASSUME Same,
             UNCHANGED <<closeReason, start, reader, writer, cleanup, finishGate, ending>>,
             close' = close \/ close # "None"
      PROVE  Goal
  BY <1>4, <1>9 DEF SshLife, Untouched
<1>10. CASE Ssh!CallerCancels
  <2>1. CASE lifetime
    BY <1>9, <1>10, <2>1 DEF Ssh!CallerCancels, Ssh!closeVars, Ssh!finishVars
  <2>2. CASE ~lifetime
    BY <1>7, <1>10, <2>2 DEF Ssh!CallerCancels, Ssh!TerminalCloseReason, Ssh!closeVars,
       Ssh!finishVars
  <2> QED BY <2>1, <2>2
<1>11. CASE Ssh!CloseWaits
  <2>1. PICK k \in SshKinds \ {"None"} : Ssh!CallsFinish("Close", k)
    BY <1>11 DEF Ssh!CloseWaits
  <2>2. Same /\ UNCHANGED <<closeReason, start, reader, writer, cleanup, finishGate>>
    BY <1>11 DEF Ssh!CloseWaits, Ssh!closeVars, Ssh!finishVars
  <2>3. close # "None"
    BY <1>11 DEF Ssh!CloseWaits
  <2>4. SshLife'
    BY <2>1, <2>2, <2>3, Zenon DEF SshLife, Untouched, Ssh!CallsFinish, Ssh!Finishers
  <2> QED BY <1>4, <2>2, <2>4
<1>12. CASE \/ Ssh!CloseCancels \/ Ssh!CloseJoinsStart \/ Ssh!CloseStream \/ Ssh!CloseDone
            \/ Ssh!DisposeJoined \/ Ssh!RemoteEnds \/ Ssh!OnShellClosed
            \/ UNCHANGED Ssh!vars
  BY <1>9, <1>12, Zenon DEF Ssh!CloseCancels, Ssh!CloseJoinsStart, Ssh!CloseStream,
     Ssh!CloseDone, Ssh!DisposeJoined, Ssh!RemoteEnds, Ssh!OnShellClosed, Ssh!closeVars,
     Ssh!finishVars, Ssh!peerVars, Ssh!vars
<1> QED
  BY <1>1, <1>2, <1>3, <1>5, <1>6, <1>8, <1>10, <1>11, <1>12 DEF Ssh!Next, Ssh!Closer

-----------------------------------------------------------------------------
\* What the SSH threads wait for each other with.

SshInGate == {"Holding", "Writing", "Flushing", "Leaving", "Finishing"}

\* A writer inside the gate holds it, and once the close has been there none
\* comes in but the worker, to flush.
SshGate ==
    /\ \A w \in Writers : writer[w] \in SshInGate => writeGate = w
    /\ close \notin {"None", "Cancel"} => lifetime
    /\ \A w \in Writers : writer[w] \in {"FlushWaiting", "Flushing"} => w = Worker
    /\ close \notin Ssh!BeforeGate => \A w \in Writers : Passive(w, writer[w])

\* The close goes on when the start has ended and returns when there is a
\* result, by which everything is released; Dispose waits for the reader.
SshJoin ==
    /\ close \notin {"None", "Cancel", "JoinStart"} => Ssh!StartEnded
    /\ cleanup \in {"State", "Result"} \/ result # "None" => lifetime /\ owned = {}
    /\ close \in {"JoinReader", "JoinWriter", "Done"} => result # "None"
    /\ close = "Finishing" /\ ending["Close"] = "None" => result # "None"
    /\ cleanup = "None" => finishGate = "NoOne"
    /\ dispose \in {"Deferred", "Done"} => close = "Done"
    /\ dispose = "Done" => Ssh!ReaderEnded

\* Whoever waits for FinishAsync is at the place that says so.
SshCalls ==
    /\ ending["Start"] # "None" => start = "Finishing"
    /\ ending["Reader"] # "None" => reader = "Finishing"
    /\ ending["Close"] # "None" => close = "Finishing"
    /\ \A w \in Writers : ending[w] # "None" => writer[w] = "Finishing"

\* Until a close has come, a start finds the token as it was when it began.
Before == Early \cup {"Withdrawn", "Caught"}
SshFresh ==
    closeReason = "None" /\ (State = "Created" \/ start \in Before) => Untouched /\ ~lifetime

\* Nobody brings a result to FinishAsync without a cause for it.
SshEnds ==
    /\ closeReason # "None" => close # "None"
    /\ shellClosed => remote = "Closed"
    /\ SshExplains(result)
    /\ \A a \in Ssh!Finishers : SshExplains(ending[a])

\* A step keeps the gate with its writers.
LEMMA SshGateStep ==
    ASSUME Ssh!SshAssumption, SshLife, SshGate, [Ssh!Next]_(Ssh!vars)
    PROVE  SshGate'
<1> USE DEF SshGate, SshInGate
<1>1. writer \in [Writers -> SshPlaces]
  BY DEF SshLife
<1>2. ASSUME UNCHANGED <<writer, writeGate, close>>, lifetime' = lifetime \/ lifetime'
      PROVE  SshGate'
  BY <1>2, Zenon
<1>3. CASE Ssh!StartAsync \/ Ssh!Starter
  BY <1>2, <1>3 DEF Ssh!StartAsync, Ssh!Starter, Ssh!Connect,
     Ssh!DisposeConnectionAttempt, Ssh!CreateShellStream, Ssh!Runs, Ssh!LaunchReader,
     Ssh!Withdraws, Ssh!StartFails, Ssh!StartCatches, Ssh!StartThrows, Ssh!startVars
<1>4. CASE Ssh!Finishing
  BY <1>2, <1>4, FinishingFrame
<1>5. CASE Ssh!Reader
  BY <1>2, <1>5 DEF Ssh!Reader, Ssh!ReadData, Ssh!ReadEnds, Ssh!ReaderSettles,
     Ssh!ReaderThrows, Ssh!ReaderReturns, Ssh!readVars
<1>6. ASSUME NEW w \in Writers, NEW place \in SshPlaces, Ssh!WriterMoves(w, place),
             UNCHANGED <<close, lifetime, writeGate>>,
             place \in SshInGate => writer[w] \in SshInGate,
             place \in {"FlushWaiting", "Flushing"} => w = Worker,
             Passive(w, writer[w]) => Passive(w, place)
      PROVE  SshGate'
  <2>1. /\ writer'[w] = place /\ \A v \in Writers : v # w => writer'[v] = writer[v]
    BY <1>1, <1>6 DEF Ssh!WriterMoves
  <2>2. close' \notin Ssh!BeforeGate => \A v \in Writers : Passive(v, writer'[v])
    BY <1>6, <2>1, Zenon
  <2> QED BY <1>6, <2>1, <2>2
<1>7. CASE \E w \in Writers : \/ Ssh!BeginWrite(w) \/ Ssh!BeginFlush(w) \/ Ssh!PeerReads(w)
                              \/ Ssh!WriteCancelled(w) \/ Ssh!WriteBegins(w)
                              \/ Ssh!WriteThrows(w)
  <2>1. PICK w \in Writers : \/ Ssh!BeginWrite(w) \/ Ssh!BeginFlush(w) \/ Ssh!PeerReads(w)
                             \/ Ssh!WriteCancelled(w) \/ Ssh!WriteBegins(w)
                             \/ Ssh!WriteThrows(w)
    BY <1>7
  <2>2. UNCHANGED <<close, lifetime, writeGate>>
    BY <2>1 DEF Ssh!BeginWrite, Ssh!BeginFlush, Ssh!PeerReads, Ssh!Written,
       Ssh!WriteGivenUp, Ssh!WriteCancelled, Ssh!WriteBegins, Ssh!WriteThrows,
       Ssh!writeVars
  <2>3. \E place \in SshPlaces :
            /\ Ssh!WriterMoves(w, place)
            /\ place \in SshInGate => writer[w] \in SshInGate
            /\ place \in {"FlushWaiting", "Flushing"} => w = Worker
            /\ Passive(w, writer[w]) => Passive(w, place)
    BY <2>1 DEF Passive, Ssh!BeginWrite, Ssh!BeginFlush, Ssh!PeerReads, Ssh!Written,
       Ssh!WriteGivenUp, Ssh!WriteCancelled, Ssh!WriteBegins, Ssh!WriteThrows, SshPlaces
  <2> QED BY <1>6, <2>2, <2>3
<1>8. ASSUME NEW w \in Writers, Ssh!WriteEnters(w) PROVE SshGate'
  <2>1. /\ UNCHANGED <<close, lifetime>> /\ writeGate' = w /\ writeGate = "NoOne"
        /\ writer[w] = "Waiting" => ~lifetime \/ close \in Ssh!BeforeGate
        /\ writer[w] \in {"Waiting", "FlushWaiting"}
    BY <1>8 DEF Ssh!WriteEnters, Ssh!GateFree, Ssh!NoOne, Ssh!writeVars
  <2>2. \A v \in Writers : v # w => writer'[v] = writer[v]
    BY <1>1, <1>8 DEF Ssh!WriteEnters, Ssh!WriterMoves
  <2>3. writer'[w] = IF writer[w] = "Waiting" THEN "Holding" ELSE "Flushing"
    BY <1>1, <1>8 DEF Ssh!WriteEnters, Ssh!WriterMoves
  <2>4. \A v \in Writers : writer[v] \notin SshInGate
    BY <2>1 DEF Ssh!SshAssumption, Ssh!NoOne
  <2>5. close \notin Ssh!BeforeGate => lifetime
    BY DEF Ssh!BeforeGate
  <2>6. close \notin Ssh!BeforeGate => Passive(w, writer'[w])
    BY <2>1, <2>3, <2>5 DEF Passive
  <2>7. close' \notin Ssh!BeforeGate => \A v \in Writers : Passive(v, writer'[v])
    BY <2>1, <2>2, <2>6, Zenon
  <2> QED BY <2>1, <2>2, <2>3, <2>4, <2>7
<1>9. ASSUME NEW w \in Writers, Ssh!WriteLeaves(w) PROVE SshGate'
  <2>1. /\ UNCHANGED <<close, lifetime>> /\ writeGate' = "NoOne"
        /\ writer[w] \in SshInGate /\ writer'[w] = "Idle"
        /\ \A v \in Writers : v # w => writer'[v] = writer[v]
    BY <1>1, <1>9 DEF Ssh!WriteLeaves, Ssh!WriterMoves, Ssh!writeVars, Ssh!NoOne
  <2>2. \A v \in Writers : v # w => writer[v] \notin SshInGate
    BY <2>1
  <2>3. Passive(w, writer'[w])
    BY <2>1 DEF Passive
  <2>4. close' \notin Ssh!BeforeGate => \A v \in Writers : Passive(v, writer'[v])
    BY <2>1, <2>3, Zenon
  <2>5. \A v \in Writers : writer'[v] \notin SshInGate
    BY <2>1, <2>2
  <2>6. \A v \in Writers : writer'[v] \in {"FlushWaiting", "Flushing"} => v = Worker
    BY <2>1
  <2> QED BY <2>1, <2>4, <2>5, <2>6, Zenon
<1>10. ASSUME UNCHANGED <<writer, writeGate, lifetime>>,
              close' \in {"None", "Cancel"} \/ lifetime,
              \/ close' \in Ssh!BeforeGate \/ close \notin Ssh!BeforeGate
              \/ writeGate = "NoOne"
       PROVE  SshGate'
  <2>1. writeGate = "NoOne" => \A w \in Writers : writer[w] \notin SshInGate
    BY DEF Ssh!SshAssumption, Ssh!NoOne
  <2>2. writeGate = "NoOne" => \A w \in Writers : Passive(w, writer[w])
    BY <1>1, <2>1 DEF SshPlaces, Passive
  <2> QED BY <1>10, <2>2
<1>11. CASE \/ \E reason \in CloseReasons : Ssh!CloseAsync(reason)
            \/ Ssh!CallerCancels \/ Ssh!Dispose
  <2>1. /\ UNCHANGED <<writer, writeGate, lifetime>>
        /\ close' = close \/ close' = "Cancel"
    BY <1>11 DEF Ssh!CloseAsync, Ssh!CallerCancels, Ssh!Dispose, Ssh!CloseOnce,
       Ssh!closeVars
  <2> QED BY <1>10, <2>1 DEF Ssh!BeforeGate
<1>12. CASE Ssh!CloseCancels
  BY <1>12 DEF Ssh!CloseCancels, Ssh!closeVars, Ssh!BeforeGate
<1>13. CASE Ssh!CloseJoinsStart \/ Ssh!CloseStream \/ Ssh!CloseWaits \/ Ssh!CloseDone
  <2>1. UNCHANGED <<writer, writeGate, lifetime>> /\ close \notin {"None", "Cancel"}
    BY <1>13 DEF Ssh!CloseJoinsStart, Ssh!CloseStream, Ssh!CloseWaits, Ssh!CloseDone,
       Ssh!closeVars
  <2>2. \/ close' \in Ssh!BeforeGate \/ close \notin Ssh!BeforeGate
        \/ writeGate = "NoOne"
    BY <1>13 DEF Ssh!CloseJoinsStart, Ssh!CloseStream, Ssh!CloseWaits, Ssh!CloseDone,
       Ssh!GateFree, Ssh!NoOne, Ssh!BeforeGate
  <2> QED BY <1>10, <2>1, <2>2
<1>14. CASE Ssh!DisposeJoined \/ Ssh!RemoteEnds \/ Ssh!OnShellClosed \/ UNCHANGED Ssh!vars
  BY <1>2, <1>14, Zenon DEF Ssh!DisposeJoined, Ssh!RemoteEnds, Ssh!OnShellClosed,
     Ssh!closeVars, Ssh!vars
<1> QED
  BY <1>3, <1>4, <1>5, <1>7, <1>8, <1>9, <1>11, <1>12, <1>13, <1>14 DEF Ssh!Next,
     Ssh!WriterRuns, Ssh!Closer

\* A step keeps what the close and Dispose rely on.
LEMMA SshJoinStep ==
    ASSUME Ssh!SshAssumption, SshLife, SshGate, SshJoin, [Ssh!Next]_(Ssh!vars)
    PROVE  SshJoin'
<1> USE DEF SshJoin, Ssh!StartEnded, Ssh!ReaderEnded
<1>1. CASE Ssh!StartAsync
  BY <1>1 DEF Ssh!StartAsync, Ssh!startVars, Ssh!finishVars, SshLife
<1>2. CASE Ssh!Starter
  <2>1. /\ UNCHANGED <<result, lifetime, finishGate, cleanup, close, dispose>>
        /\ start \notin {"None", "Ok", "Threw"}
    BY <1>2 DEF Ssh!Starter, Ssh!Connect, Ssh!DisposeConnectionAttempt,
       Ssh!CreateShellStream, Ssh!Runs, Ssh!LaunchReader, Ssh!Withdraws, Ssh!StartFails,
       Ssh!StartCatches, Ssh!StartThrows, Ssh!startVars, Ssh!finishVars
  <2>2. owned' = owned \/ ~lifetime
    BY <1>2 DEF Ssh!Starter, Ssh!Connect, Ssh!DisposeConnectionAttempt,
       Ssh!CreateShellStream, Ssh!Runs, Ssh!LaunchReader, Ssh!Withdraws, Ssh!StartFails,
       Ssh!StartCatches, Ssh!StartThrows, Ssh!Token
  <2>3. close \in {"None", "Cancel", "JoinStart"} /\ dispose \notin {"Deferred", "Done"}
    BY <2>1
  <2> QED BY <2>1, <2>2, <2>3
<1>3. CASE Ssh!Finishing
  <2>1. UNCHANGED <<closeReason, start, reader, close, dispose>>
    BY <1>3, FinishingFrame
  <2>2. ASSUME NEW a \in Ssh!Finishers, Ssh!FinishEnters(a) PROVE SshJoin'
    <3>1. UNCHANGED <<result, lifetime, owned>> /\ finishGate = "NoOne"
      BY <2>2 DEF Ssh!FinishEnters, Ssh!NoOne
    <3>2. CASE result # "None"
      BY <2>1, <2>2, <3>1, <3>2 DEF Ssh!FinishEnters, Ssh!finishVars
    <3>3. CASE result = "None"
      BY <2>1, <2>2, <3>1, <3>3 DEF Ssh!FinishEnters
    <3> QED BY <3>2, <3>3
  <2>3. CASE Ssh!FinishReleases \/ Ssh!FinishSetsState
    <3>1. CASE Ssh!FinishReleases
      <4>1. /\ lifetime' /\ owned' = {} /\ cleanup = "Release" /\ cleanup' = "State"
            /\ UNCHANGED <<result, finishGate, ending>>
        BY <3>1, Zenon DEF Ssh!FinishReleases
      <4> QED BY <2>1, <4>1
    <3>2. CASE Ssh!FinishSetsState
      BY <2>1, <3>2 DEF Ssh!FinishSetsState
    <3> QED BY <2>3, <3>1, <3>2
  <2>4. CASE Ssh!FinishSetsResult
    <3>1. finishGate \in Ssh!Finishers /\ ending[finishGate] # "None" /\ result = "None"
      BY <2>4 DEF Ssh!FinishSetsResult, SshLife
    <3>2. /\ result' # "None" /\ lifetime' = lifetime /\ owned' = owned
          /\ lifetime /\ owned = {}
      BY <2>4, <3>1 DEF Ssh!FinishSetsResult, Ssh!PublishedKind
    <3> QED BY <2>1, <2>4, <3>2 DEF Ssh!FinishSetsResult, Ssh!NoOne
  <2> QED BY <1>3, <2>2, <2>3, <2>4 DEF Ssh!Finishing
<1>4. CASE Ssh!Reader
  <2>1. UNCHANGED <<result, lifetime, owned, finishGate, cleanup, start, close, dispose>>
    BY <1>4 DEF Ssh!Reader, Ssh!ReadData, Ssh!ReadEnds, Ssh!ReaderSettles,
       Ssh!ReaderThrows, Ssh!ReaderReturns, Ssh!readVars, Ssh!finishVars
  <2>2. ~Ssh!ReaderEnded
    BY <1>4 DEF Ssh!Reader, Ssh!ReadData, Ssh!ReadEnds, Ssh!ReaderSettles,
       Ssh!ReaderThrows, Ssh!ReaderReturns
  <2>3. ending'["Close"] = ending["Close"]
    <3>1. ending \in [Ssh!Finishers -> SshKinds] /\ "Close" \in Ssh!Finishers
      BY DEF SshLife, Ssh!Finishers
    <3>2. ending' = ending \/ \E k : ending' = [ending EXCEPT !["Reader"] = k]
      BY <1>4 DEF Ssh!Reader, Ssh!ReadData, Ssh!ReadEnds, Ssh!ReaderSettles,
         Ssh!ReaderThrows, Ssh!ReaderReturns, Ssh!ReaderFinishes, Ssh!CallsFinish
    <3> QED BY <3>1, <3>2
  <2> QED BY <2>1, <2>2, <2>3
<1>5. CASE \E w \in Writers : \/ Ssh!BeginWrite(w) \/ Ssh!BeginFlush(w) \/ Ssh!PeerReads(w)
                              \/ Ssh!WriterRuns(w)
  <2>1. PICK w \in Writers : \/ Ssh!BeginWrite(w) \/ Ssh!BeginFlush(w) \/ Ssh!PeerReads(w)
                             \/ Ssh!WriterRuns(w)
    BY <1>5, Zenon
  <2>2. UNCHANGED <<result, lifetime, owned, finishGate, cleanup, start, reader, close,
                    dispose>>
    BY <2>1 DEF Ssh!BeginWrite, Ssh!BeginFlush, Ssh!PeerReads, Ssh!WriterRuns,
       Ssh!Written, Ssh!WriteGivenUp, Ssh!WriteCancelled, Ssh!WriteEnters,
       Ssh!WriteBegins, Ssh!WriteThrows, Ssh!WriteLeaves, Ssh!writeVars, Ssh!finishVars
  <2>3. ending' = ending \/ \E k : ending' = [ending EXCEPT ![w] = k]
    BY <2>1 DEF Ssh!BeginWrite, Ssh!BeginFlush, Ssh!PeerReads, Ssh!WriterRuns,
       Ssh!Written, Ssh!WriteGivenUp, Ssh!WriteCancelled, Ssh!WriteEnters,
       Ssh!WriteBegins, Ssh!WriteThrows, Ssh!WriteLeaves, Ssh!CallsFinish
  <2>4. ending'["Close"] = ending["Close"]
    BY <2>3 DEF SshLife, Ssh!Finishers, Ssh!SshAssumption
  <2> QED BY <2>2, <2>4
<1>6. CASE \/ \E reason \in CloseReasons : Ssh!CloseAsync(reason)
           \/ Ssh!CallerCancels \/ Ssh!Dispose
  <2>1. UNCHANGED <<result, lifetime, owned, finishGate, cleanup, ending, start, reader>>
    BY <1>6 DEF Ssh!CloseAsync, Ssh!CallerCancels, Ssh!Dispose, Ssh!closeVars,
       Ssh!finishVars
  <2>2. close' = close \/ (close = "None" /\ close' = "Cancel")
    <3>1. close' = close \/ \E reason : Ssh!CloseOnce(reason)
      BY <1>6 DEF Ssh!CloseAsync, Ssh!CallerCancels, Ssh!Dispose
    <3>2. ASSUME NEW reason, Ssh!CloseOnce(reason)
          PROVE  close' = close \/ (close = "None" /\ close' = "Cancel")
      BY <3>2 DEF Ssh!CloseOnce
    <3> QED BY <3>1, <3>2
  <2>3. dispose' = dispose \/ dispose' = "Closing"
    BY <1>6 DEF Ssh!CloseAsync, Ssh!CallerCancels, Ssh!Dispose
  <2> QED BY <2>1, <2>2, <2>3
<1>7. CASE Ssh!Closer
  <2>1. /\ UNCHANGED <<result, finishGate, cleanup, start, reader, dispose>>
        /\ lifetime' = lifetime \/ lifetime'
        /\ owned' = owned \/ owned' = owned \ {"Stream"}
        /\ close \notin {"None", "Done"}
    BY <1>7 DEF Ssh!Closer, Ssh!CloseCancels, Ssh!CloseJoinsStart, Ssh!CloseStream,
       Ssh!CloseWaits, Ssh!CloseDone, Ssh!closeVars, Ssh!finishVars
  <2>2. CASE Ssh!CloseCancels \/ Ssh!CloseJoinsStart \/ Ssh!CloseStream \/ Ssh!CloseDone
    <3>1. /\ ending' = ending
          /\ close' \notin {"None", "Cancel", "JoinStart"} => Ssh!StartEnded
      BY <2>2 DEF Ssh!CloseCancels, Ssh!CloseJoinsStart, Ssh!CloseStream, Ssh!CloseDone
    <3>2. close' \in {"JoinReader", "JoinWriter", "Done"} => result # "None"
      BY <2>2 DEF Ssh!CloseCancels, Ssh!CloseJoinsStart, Ssh!CloseStream, Ssh!CloseDone,
         Ssh!Finished
    <3>3. close' # "Finishing"
      BY <2>2 DEF Ssh!CloseCancels, Ssh!CloseJoinsStart, Ssh!CloseStream, Ssh!CloseDone
    <3> QED BY <2>1, <3>1, <3>2, <3>3
  <2>3. CASE Ssh!CloseWaits
    <3>1. ending'["Close"] # "None"
      BY <2>3 DEF Ssh!CloseWaits, Ssh!CallsFinish, SshLife, Ssh!Finishers
    <3> QED BY <2>1, <2>3, <3>1 DEF Ssh!CloseWaits
  <2> QED BY <1>7, <2>2, <2>3 DEF Ssh!Closer
<1>8. CASE Ssh!DisposeJoined
  BY <1>8 DEF Ssh!DisposeJoined, Ssh!closeVars, Ssh!finishVars
<1>9. CASE Ssh!RemoteEnds \/ Ssh!OnShellClosed \/ UNCHANGED Ssh!vars
  BY <1>9 DEF Ssh!RemoteEnds, Ssh!OnShellClosed, Ssh!vars, Ssh!finishVars
<1> QED
  BY <1>1, <1>2, <1>3, <1>4, <1>5, <1>6, <1>7, <1>8, <1>9 DEF Ssh!Next

\* A step keeps whoever waits for FinishAsync at its place.
LEMMA SshCallsStep ==
    ASSUME Ssh!SshAssumption, SshLife, SshCalls, [Ssh!Next]_(Ssh!vars)
    PROVE  SshCalls'
<1>1. /\ ending \in [Ssh!Finishers -> SshKinds] /\ writer \in [Writers -> SshPlaces]
      /\ {"Start", "Reader", "Close"} \cup Writers = Ssh!Finishers
      /\ Writers \cap {"Start", "Reader", "Close"} = {}
  BY DEF SshLife, Ssh!Finishers, Ssh!SshAssumption
<1>2. ASSUME UNCHANGED <<start, reader, writer, close>>,
             \A a \in Ssh!Finishers : ending'[a] = ending[a] \/ ending'[a] = "None"
      PROVE  SshCalls'
  BY <1>1, <1>2, Zenon DEF SshCalls
<1>3. CASE Ssh!StartAsync
  BY <1>3 DEF Ssh!StartAsync, Ssh!startVars, SshLife, SshCalls
<1>4. CASE Ssh!Starter
  <2>1. UNCHANGED <<writer, close>> /\ reader # "Finishing" /\ ending["Reader"] = "None"
    <3>1. UNCHANGED <<writer, close>> /\ start # "Ok"
      BY <1>4 DEF Ssh!Starter, Ssh!Connect, Ssh!DisposeConnectionAttempt,
         Ssh!CreateShellStream, Ssh!Runs, Ssh!LaunchReader, Ssh!Withdraws, Ssh!StartFails,
         Ssh!StartCatches, Ssh!StartThrows, Ssh!startVars
    <3> QED BY <3>1 DEF SshLife, SshCalls
  <2>2. CASE Ssh!StartCatches
    <3>1. /\ start' = "Finishing"
          /\ \A a \in Ssh!Finishers : a # "Start" => ending'[a] = ending[a]
      BY <1>1, <2>2 DEF Ssh!StartCatches, Ssh!CallsFinish
    <3> QED BY <1>1, <2>1, <3>1, Zenon DEF SshCalls
  <2>3. CASE ending' = ending /\ ending["Start"] = "None"
    BY <2>1, <2>3, Zenon DEF SshCalls
  <2>4. \/ Ssh!StartCatches
        \/ ending' = ending /\ (start # "Finishing" \/ ending["Start"] = "None")
    BY <1>4 DEF Ssh!Starter, Ssh!Connect, Ssh!DisposeConnectionAttempt,
       Ssh!CreateShellStream, Ssh!Runs, Ssh!LaunchReader, Ssh!Withdraws, Ssh!StartFails,
       Ssh!StartThrows, Ssh!Finished
  <2> QED BY <2>2, <2>3, <2>4 DEF SshCalls
<1>5. CASE Ssh!Finishing
  <2>1. UNCHANGED <<start, reader, writer, close>>
    BY <1>5, FinishingFrame
  <2>2. ending' = ending \/ \E a : Ssh!CallsFinish(a, "None")
    <3>1. CASE \E a \in Ssh!Finishers : Ssh!FinishEnters(a)
      BY <3>1 DEF Ssh!FinishEnters
    <3>2. CASE Ssh!FinishReleases \/ Ssh!FinishSetsState
      BY <3>2, Zenon DEF Ssh!FinishReleases, Ssh!FinishSetsState
    <3>3. CASE Ssh!FinishSetsResult
      BY <3>3 DEF Ssh!FinishSetsResult
    <3> QED BY <1>5, <3>1, <3>2, <3>3 DEF Ssh!Finishing
  <2>3. \A a \in Ssh!Finishers : ending'[a] = ending[a] \/ ending'[a] = "None"
    BY <1>1, <2>2 DEF Ssh!CallsFinish
  <2> QED BY <1>2, <2>1, <2>3
<1>6. CASE Ssh!Reader
  <2>1. UNCHANGED <<start, writer, close>>
    BY <1>6 DEF Ssh!Reader, Ssh!ReadData, Ssh!ReadEnds, Ssh!ReaderSettles,
       Ssh!ReaderThrows, Ssh!ReaderReturns, Ssh!readVars
  <2>2. \/ ending' = ending /\ ending["Reader"] = "None"
        \/ reader' = "Finishing" /\ \E k : Ssh!CallsFinish("Reader", k)
    <3>1. reader # "Finishing" => ending["Reader"] = "None"
      BY DEF SshCalls
    <3>2. CASE Ssh!ReadData \/ Ssh!ReadEnds \/ Ssh!ReaderReturns
      BY <3>1, <3>2 DEF Ssh!ReadData, Ssh!ReadEnds, Ssh!ReaderReturns, Ssh!Finished
    <3>3. ASSUME NEW k, Ssh!ReaderFinishes(k), reader # "Finishing"
          PROVE  \/ ending' = ending /\ ending["Reader"] = "None"
                 \/ reader' = "Finishing" /\ Ssh!CallsFinish("Reader", k)
      BY <3>1, <3>3 DEF Ssh!ReaderFinishes
    <3>4. CASE Ssh!ReaderSettles
      BY <3>3, <3>4, Zenon DEF Ssh!ReaderSettles
    <3>5. CASE Ssh!ReaderThrows
      <4>1. reader # "Finishing" /\ Ssh!ReaderFinishes("ConnectionFailure")
        BY <3>5 DEF Ssh!ReaderThrows
      <4> QED BY <3>3, <4>1, Zenon
    <3> QED BY <1>6, <3>2, <3>4, <3>5 DEF Ssh!Reader
  <2>3. CASE ending' = ending /\ ending["Reader"] = "None"
    BY <2>1, <2>3, Zenon DEF SshCalls
  <2>4. ASSUME reader' = "Finishing", NEW k, Ssh!CallsFinish("Reader", k) PROVE SshCalls'
    <3>1. \A a \in Ssh!Finishers : a # "Reader" => ending'[a] = ending[a]
      BY <1>1, <2>4 DEF Ssh!CallsFinish
    <3> QED BY <1>1, <2>1, <2>4, <3>1, Zenon DEF SshCalls
  <2> QED BY <2>2, <2>3, <2>4
<1>7. ASSUME NEW w \in Writers, \/ Ssh!BeginWrite(w) \/ Ssh!BeginFlush(w)
                                \/ Ssh!PeerReads(w) \/ Ssh!WriterRuns(w)
      PROVE  SshCalls'
  <2>1. UNCHANGED <<start, reader, close>>
    BY <1>7, SshWriterFrame, Zenon
  <2>2. \E place : Ssh!WriterMoves(w, place) /\
            \/ ending' = ending /\ (writer[w] # "Finishing" \/ ending[w] = "None")
            \/ place = "Finishing" /\ \E k : Ssh!CallsFinish(w, k)
    <3>1. CASE Ssh!WriteThrows(w)
      BY <3>1, Zenon DEF Ssh!WriteThrows
    <3>2. CASE Ssh!WriteLeaves(w)
      BY <3>2 DEF Ssh!WriteLeaves, Ssh!Finished
    <3>3. CASE Ssh!WriteEnters(w) \/ Ssh!WriteBegins(w) \/ Ssh!Written(w)
      BY <3>3 DEF Ssh!WriteEnters, Ssh!WriteBegins, Ssh!Written
    <3>4. CASE \/ Ssh!BeginWrite(w) \/ Ssh!BeginFlush(w) \/ Ssh!WriteCancelled(w)
               \/ Ssh!WriteGivenUp(w)
      BY <3>4 DEF Ssh!BeginWrite, Ssh!BeginFlush, Ssh!WriteCancelled, Ssh!WriteGivenUp
    <3> QED BY <1>7, <3>1, <3>2, <3>3, <3>4, Zenon DEF Ssh!WriterRuns, Ssh!PeerReads
  <2>3. \A v \in Writers : v # w => writer'[v] = writer[v]
    BY <1>1, <2>2 DEF Ssh!WriterMoves
  <2>4. \A a \in Ssh!Finishers : a # w => ending'[a] = ending[a]
    BY <1>1, <2>2 DEF Ssh!CallsFinish
  <2>5. ending'[w] # "None" => writer'[w] = "Finishing"
    BY <1>1, <2>2 DEF Ssh!WriterMoves, SshCalls
  <2> QED BY <1>1, <2>1, <2>3, <2>4, <2>5, Zenon DEF SshCalls
<1>8. CASE \/ \E reason \in CloseReasons : Ssh!CloseAsync(reason)
           \/ Ssh!CallerCancels \/ Ssh!Dispose
  <2>1. UNCHANGED <<start, reader, writer, ending>>
    BY <1>8 DEF Ssh!CloseAsync, Ssh!CallerCancels, Ssh!Dispose, Ssh!closeVars
  <2>2. close' = close \/ close = "None"
    BY <1>8 DEF Ssh!CloseAsync, Ssh!CallerCancels, Ssh!Dispose, Ssh!CloseOnce
  <2> QED BY <2>1, <2>2 DEF SshCalls
<1>9. CASE Ssh!Closer
  <2>1. UNCHANGED <<start, reader, writer>>
    BY <1>9 DEF Ssh!Closer, Ssh!CloseCancels, Ssh!CloseJoinsStart, Ssh!CloseStream,
       Ssh!CloseWaits, Ssh!CloseDone, Ssh!closeVars
  <2>2. CASE Ssh!CloseWaits
    <3>1. close' = "Finishing" /\ \A a \in Ssh!Finishers : a # "Close" => ending'[a] = ending[a]
      BY <1>1, <2>2 DEF Ssh!CloseWaits, Ssh!CallsFinish
    <3> QED BY <1>1, <2>1, <3>1, Zenon DEF SshCalls
  <2>3. CASE Ssh!CloseCancels \/ Ssh!CloseJoinsStart \/ Ssh!CloseStream \/ Ssh!CloseDone
    <3>1. ending' = ending /\ (close # "Finishing" \/ ending["Close"] = "None")
      BY <2>3 DEF Ssh!CloseCancels, Ssh!CloseJoinsStart, Ssh!CloseStream, Ssh!CloseDone,
         Ssh!Finished
    <3> QED BY <2>1, <3>1 DEF SshCalls
  <2> QED BY <1>9, <2>2, <2>3 DEF Ssh!Closer
<1>10. CASE \/ Ssh!DisposeJoined \/ Ssh!RemoteEnds \/ Ssh!OnShellClosed
            \/ UNCHANGED Ssh!vars
  BY <1>2, <1>10, Zenon DEF Ssh!DisposeJoined, Ssh!RemoteEnds, Ssh!OnShellClosed,
     Ssh!vars, Ssh!closeVars
<1> QED
  BY <1>3, <1>4, <1>5, <1>6, <1>7, <1>8, <1>9, <1>10, Zenon DEF Ssh!Next

\* A step leaves the token to a start that nobody has closed.
LEMMA SshFreshStep ==
    ASSUME Ssh!SshAssumption, SshLife, SshFresh, [Ssh!Next]_(Ssh!vars)
    PROVE  SshFresh'
<1>1. ASSUME UNCHANGED <<State, start, closeReason, lifetime, result, ending>>
      PROVE  SshFresh'
  BY <1>1, Zenon DEF SshFresh, Untouched
<1>2. ASSUME closeReason' # "None" \/ (State' # "Created" /\ start' \notin Before)
      PROVE  SshFresh'
  BY <1>2 DEF SshFresh
<1>3. CASE Ssh!StartAsync
  BY <1>3 DEF Ssh!StartAsync, Ssh!startVars, SshFresh, Untouched
<1>4. CASE Ssh!Starter
  <2>1. /\ UNCHANGED <<closeReason, lifetime, result>> /\ start # "None"
        /\ start' \in Before => start \in Before /\ ending' = ending
        /\ State' = State \/ State' = "Running"
    BY <1>4 DEF Ssh!Starter, Ssh!Connect, Ssh!DisposeConnectionAttempt,
       Ssh!CreateShellStream, Ssh!Runs, Ssh!LaunchReader, Ssh!Withdraws, Ssh!StartFails,
       Ssh!StartCatches, Ssh!StartThrows, Ssh!startVars, Before, Early
  <2>2. State' # "Created"
    BY <2>1 DEF SshLife
  <2> QED BY <2>1, <2>2 DEF SshFresh, Untouched
<1>5. CASE Ssh!Finishing
  <2>1. UNCHANGED <<closeReason, start>>
    BY <1>5, FinishingFrame
  <2>2. ~Untouched
    <3>1. CASE \E a \in Ssh!Finishers : Ssh!FinishEnters(a)
      BY <3>1 DEF Ssh!FinishEnters, SshLife, Untouched
    <3>2. CASE Ssh!FinishReleases
      BY <3>2 DEF Ssh!FinishReleases, SshLife, Untouched
    <3>3. CASE Ssh!FinishSetsState \/ Ssh!FinishSetsResult
      BY <3>3 DEF Ssh!FinishSetsState, Ssh!FinishSetsResult, SshLife, Untouched
    <3> QED BY <1>5, <3>1, <3>2, <3>3, Zenon DEF Ssh!Finishing
  <2>3. State' = "Created" => State = "Created"
    <3>1. CASE \E a \in Ssh!Finishers : Ssh!FinishEnters(a)
      BY <3>1 DEF Ssh!FinishEnters
    <3>2. CASE Ssh!FinishReleases
      BY <3>2, Zenon DEF Ssh!FinishReleases
    <3>3. CASE Ssh!FinishSetsState \/ Ssh!FinishSetsResult
      BY <3>3 DEF Ssh!FinishSetsState, Ssh!FinishSetsResult
    <3> QED BY <1>5, <3>1, <3>2, <3>3 DEF Ssh!Finishing
  <2> QED BY <2>1, <2>2, <2>3 DEF SshFresh
<1>6. CASE Ssh!Reader
  <2>1. UNCHANGED <<State, start>> /\ start = "Ok"
    BY <1>6 DEF Ssh!Reader, Ssh!ReadData, Ssh!ReadEnds, Ssh!ReaderSettles,
       Ssh!ReaderThrows, Ssh!ReaderReturns, Ssh!readVars, SshLife
  <2> QED BY <1>2, <2>1 DEF SshLife, Before, Early
<1>7. CASE \E w \in Writers : \/ Ssh!BeginWrite(w) \/ Ssh!BeginFlush(w)
                              \/ Ssh!PeerReads(w) \/ Ssh!WriterRuns(w)
  <2>1. UNCHANGED <<State, start>>
    BY <1>7, SshWriterFrame, Zenon
  <2>2. start = "Ok" \/ \E w \in Writers : writer[w] # "Idle"
    BY <1>7, Zenon DEF Ssh!BeginWrite, Ssh!BeginFlush, Ssh!WriterRuns, Ssh!WriteCancelled,
       Ssh!WriteEnters, Ssh!WriteBegins, Ssh!WriteThrows, Ssh!WriteLeaves, Ssh!PeerReads,
       Ssh!WriteGivenUp, Ssh!Written
  <2>3. start = "Ok"
    BY <2>2, Zenon DEF SshLife
  <2> QED BY <1>2, <2>1, <2>3 DEF SshLife, Before, Early
<1>8. CASE \/ \E reason \in CloseReasons : Ssh!CloseAsync(reason)
           \/ Ssh!CallerCancels \/ Ssh!Dispose
  <2>1. \/ closeReason' # "None"
        \/ UNCHANGED <<State, start, closeReason, lifetime, result, ending>>
    <3>1. ASSUME NEW reason \in Ssh!TerminalCloseReason, Ssh!CloseOnce(reason)
          PROVE  closeReason' # "None"
      BY <3>1 DEF Ssh!CloseOnce, Ssh!TerminalCloseReason, SshLife
    <3>2. "Cancelled" \in Ssh!TerminalCloseReason
      BY DEF Ssh!TerminalCloseReason
    <3> QED BY <1>8, <3>1, <3>2, Reasons, Zenon DEF Ssh!CloseAsync, Ssh!CallerCancels,
               Ssh!Dispose, Ssh!closeVars
  <2> QED BY <1>1, <1>2, <2>1
<1>9. CASE Ssh!Closer
  <2>1. close # "None" /\ closeReason' = closeReason
    BY <1>9 DEF Ssh!Closer, Ssh!CloseCancels, Ssh!CloseJoinsStart, Ssh!CloseStream,
       Ssh!CloseWaits, Ssh!CloseDone
  <2> QED BY <1>2, <2>1 DEF SshLife
<1>10. CASE \/ Ssh!DisposeJoined \/ Ssh!RemoteEnds \/ Ssh!OnShellClosed
            \/ UNCHANGED Ssh!vars
  BY <1>1, <1>10, Zenon DEF Ssh!DisposeJoined, Ssh!RemoteEnds, Ssh!OnShellClosed,
     Ssh!vars, Ssh!closeVars
<1> QED
  BY <1>3, <1>4, <1>5, <1>6, <1>7, <1>8, <1>9, <1>10, Zenon DEF Ssh!Next

\* A step keeps a cause for every result.
LEMMA SshEndsStep ==
    ASSUME Ssh!SshAssumption, SshLife, SshFresh, SshEnds, [Ssh!Next]_(Ssh!vars)
    PROVE  SshEnds'
<1> DEFINE Grows == /\ remote = "Closed" => remote' = "Closed"
                    /\ closeReason' = closeReason \/ closeReason = "None"
                    /\ callerToken => callerToken'
                    /\ closeReason' # "None" => close' # "None"
                    /\ shellClosed' => remote' = "Closed"
           Adds == \/ ending' = ending
                   \/ \E a, k : Ssh!CallsFinish(a, k) /\ SshExplains(k)
<1>1. ASSUME Grows, result' = result \/ SshExplains(result'), Adds
      PROVE  SshEnds'
  <2>1. \A k : SshExplains(k) => SshExplains(k)'
    BY <1>1 DEF SshExplains
  <2>2. SshExplains(result) /\ \A a \in Ssh!Finishers : SshExplains(ending[a])
    BY DEF SshEnds
  <2>3. SshExplains(result') /\ \A a \in Ssh!Finishers : SshExplains(ending'[a])
    <3>1. \A a \in Ssh!Finishers : ending'[a] = ending[a] \/ SshExplains(ending'[a])
      BY <1>1 DEF Ssh!CallsFinish, SshLife
    <3> QED BY <1>1, <2>2, <3>1, Zenon
  <2> QED BY <1>1, <2>1, <2>3 DEF SshEnds, SshExplains
<1>2. ASSUME UNCHANGED <<closeReason, close, callerToken, shellClosed, remote>>
      PROVE  Grows
  BY <1>2, Zenon DEF SshEnds
<1>3. SshExplains("None") /\ SshExplains("ConnectionFailure")
  BY DEF SshExplains
<1>4. CASE Ssh!StartAsync \/ Ssh!Starter
  <2>1. UNCHANGED <<closeReason, close, callerToken, shellClosed, remote, result>>
    BY <1>4 DEF Ssh!StartAsync, Ssh!Starter, Ssh!Connect, Ssh!DisposeConnectionAttempt,
       Ssh!CreateShellStream, Ssh!Runs, Ssh!LaunchReader, Ssh!Withdraws, Ssh!StartFails,
       Ssh!StartCatches, Ssh!StartThrows, Ssh!startVars, Ssh!peerVars
  <2>2. ending' = ending \/ Ssh!StartCatches
    BY <1>4 DEF Ssh!StartAsync, Ssh!Starter, Ssh!Connect, Ssh!DisposeConnectionAttempt,
       Ssh!CreateShellStream, Ssh!Runs, Ssh!LaunchReader, Ssh!Withdraws, Ssh!StartFails,
       Ssh!StartThrows
  <2>3. CASE Ssh!StartCatches
    <3>1. Ssh!CallsFinish("Start", IF Ssh!Token THEN "Cancelled" ELSE "ConnectionFailure")
      BY <2>3 DEF Ssh!StartCatches
    <3>2. Ssh!Token => closeReason # "None" \/ callerToken
      BY <2>3 DEF Ssh!StartCatches, Ssh!Token, SshFresh, Before
    <3>3. Ssh!Token => SshExplains("Cancelled")
      BY <3>2 DEF SshExplains
    <3>4. Adds
      BY <1>3, <3>1, <3>3, Zenon
    <3> QED BY <1>1, <1>2, <2>1, <3>4, Zenon
  <2> QED BY <1>1, <1>2, <2>1, <2>2, <2>3, Zenon
<1>5. CASE Ssh!Finishing
  <2>1. UNCHANGED <<closeReason, close, callerToken, shellClosed, remote>>
    <3>1. UNCHANGED <<closeReason, close, shellClosed, remote>>
      BY <1>5, FinishingFrame
    <3>2. callerToken' = callerToken
      BY <1>5, Zenon DEF Ssh!Finishing, Ssh!FinishEnters, Ssh!FinishReleases,
         Ssh!FinishSetsState, Ssh!FinishSetsResult
    <3> QED BY <3>1, <3>2
  <2>2. CASE Ssh!FinishSetsResult
    <3>1. finishGate \in Ssh!Finishers
      BY <2>2 DEF Ssh!FinishSetsResult, SshLife
    <3>2. result' \in {ending[finishGate], "ConnectionFailure"}
      BY <2>2 DEF Ssh!FinishSetsResult, Ssh!PublishedKind
    <3>3. SshExplains(ending[finishGate])
      BY <3>1 DEF SshEnds
    <3>4. SshExplains(result')
      BY <1>3, <3>2, <3>3, Zenon
    <3> QED BY <1>1, <1>2, <1>3, <2>1, <2>2, <3>4, Zenon DEF Ssh!FinishSetsResult
  <2>3. CASE (\E a \in Ssh!Finishers : Ssh!FinishEnters(a)) \/ Ssh!FinishReleases
             \/ Ssh!FinishSetsState
    <3>1. ASSUME NEW a \in Ssh!Finishers, Ssh!FinishEnters(a)
          PROVE  result' = result /\ (ending' = ending \/ Ssh!CallsFinish(a, "None"))
      BY <3>1 DEF Ssh!FinishEnters
    <3>2. ASSUME Ssh!FinishReleases \/ Ssh!FinishSetsState
          PROVE  result' = result /\ ending' = ending
      BY <3>2, Zenon DEF Ssh!FinishReleases, Ssh!FinishSetsState
    <3> QED BY <1>1, <1>2, <1>3, <2>1, <2>3, <3>1, <3>2, Zenon
  <2> QED BY <1>5, <2>2, <2>3 DEF Ssh!Finishing
<1>6. CASE Ssh!Reader
  <2>1. UNCHANGED <<closeReason, close, callerToken, shellClosed, remote, result>>
    BY <1>6 DEF Ssh!Reader, Ssh!ReadData, Ssh!ReadEnds, Ssh!ReaderSettles,
       Ssh!ReaderThrows, Ssh!ReaderReturns, Ssh!readVars, Ssh!peerVars
  <2>2. Adds
    <3>1. ASSUME NEW k, Ssh!ReaderFinishes(k), SshExplains(k) PROVE Adds
      BY <3>1, Zenon DEF Ssh!ReaderFinishes
    <3>2. CASE Ssh!ReaderSettles
      <4>1. shellClosed => SshExplains("CleanEof")
        BY DEF SshEnds, SshExplains
      <4>2. Ssh!ReaderFinishes(IF shellClosed THEN "CleanEof" ELSE "ConnectionFailure")
        BY <3>2 DEF Ssh!ReaderSettles
      <4> QED BY <1>3, <3>1, <4>1, <4>2, Zenon
    <3>3. CASE Ssh!ReaderThrows
      <4>1. Ssh!ReaderFinishes("ConnectionFailure")
        BY <3>3 DEF Ssh!ReaderThrows
      <4> QED BY <1>3, <3>1, <4>1, Zenon
    <3>4. CASE Ssh!ReadData \/ Ssh!ReadEnds \/ Ssh!ReaderReturns
      BY <3>4, Zenon DEF Ssh!ReadData, Ssh!ReadEnds, Ssh!ReaderReturns
    <3> QED BY <1>6, <3>2, <3>3, <3>4, Zenon DEF Ssh!Reader
  <2> QED BY <1>1, <1>2, <2>1, <2>2, Zenon
<1>7. ASSUME NEW w \in Writers, \/ Ssh!BeginWrite(w) \/ Ssh!BeginFlush(w)
                                \/ Ssh!PeerReads(w) \/ Ssh!WriterRuns(w)
      PROVE  SshEnds'
  <2>1. UNCHANGED <<closeReason, close, callerToken, shellClosed, remote, result>>
    BY <1>7 DEF Ssh!BeginWrite, Ssh!BeginFlush, Ssh!PeerReads, Ssh!WriterRuns,
       Ssh!Written, Ssh!WriteGivenUp, Ssh!WriteCancelled, Ssh!WriteEnters,
       Ssh!WriteBegins, Ssh!WriteThrows, Ssh!WriteLeaves, Ssh!writeVars, Ssh!peerVars
  <2>2. ending' = ending \/ Ssh!CallsFinish(w, "ConnectionFailure")
    BY <1>7 DEF Ssh!BeginWrite, Ssh!BeginFlush, Ssh!PeerReads, Ssh!WriterRuns,
       Ssh!Written, Ssh!WriteGivenUp, Ssh!WriteCancelled, Ssh!WriteEnters,
       Ssh!WriteBegins, Ssh!WriteThrows, Ssh!WriteLeaves
  <2> QED BY <1>1, <1>2, <1>3, <2>1, <2>2, Zenon
<1>8. CASE \/ \E reason \in CloseReasons : Ssh!CloseAsync(reason)
           \/ Ssh!CallerCancels \/ Ssh!Dispose
  <2>1. UNCHANGED <<result, ending, shellClosed, remote>> /\ (callerToken => callerToken')
    BY <1>8 DEF Ssh!CloseAsync, Ssh!CallerCancels, Ssh!Dispose, Ssh!closeVars,
       Ssh!peerVars
  <2>2. UNCHANGED <<closeReason, close>> \/ \E reason : Ssh!CloseOnce(reason)
    BY <1>8 DEF Ssh!CloseAsync, Ssh!CallerCancels, Ssh!Dispose
  <2>3. Grows
    BY <2>1, <2>2 DEF Ssh!CloseOnce, SshEnds
  <2> QED BY <1>1, <2>1, <2>3, Zenon
<1>9. CASE Ssh!Closer
  <2>1. UNCHANGED <<closeReason, callerToken, shellClosed, remote, result>> /\ close' # "None"
    BY <1>9 DEF Ssh!Closer, Ssh!CloseCancels, Ssh!CloseJoinsStart, Ssh!CloseStream,
       Ssh!CloseWaits, Ssh!CloseDone, Ssh!closeVars, Ssh!peerVars
  <2>2. Grows
    BY <2>1, Zenon DEF SshEnds
  <2>3. CASE Ssh!CloseWaits
    <3>1. closeReason # "None"
      BY <2>3 DEF Ssh!CloseWaits, SshLife
    <3>2. PICK k : Ssh!CallsFinish("Close", k) /\ (k = "CleanEof" => closeReason # "Cancelled")
      BY <2>3 DEF Ssh!CloseWaits
    <3>3. SshExplains(k)
      BY <3>1, <3>2 DEF SshExplains
    <3> QED BY <1>1, <2>1, <2>2, <3>2, <3>3, Zenon
  <2>4. CASE ending' = ending
    BY <1>1, <2>1, <2>2, <2>4, Zenon
  <2> QED
    BY <1>9, <2>3, <2>4, Zenon DEF Ssh!Closer, Ssh!CloseCancels, Ssh!CloseJoinsStart,
       Ssh!CloseStream, Ssh!CloseDone
<1>10. CASE Ssh!DisposeJoined \/ UNCHANGED Ssh!vars
  BY <1>1, <1>2, <1>10, Zenon DEF Ssh!DisposeJoined, Ssh!vars, Ssh!closeVars, Ssh!peerVars
<1>11. CASE Ssh!RemoteEnds \/ Ssh!OnShellClosed
  <2>1. UNCHANGED <<closeReason, close, callerToken, result, ending>>
    BY <1>11, Zenon DEF Ssh!RemoteEnds, Ssh!OnShellClosed
  <2>2. Grows
    BY <1>11, <2>1 DEF Ssh!RemoteEnds, Ssh!OnShellClosed, SshEnds
  <2> QED BY <1>1, <2>1, <2>2, Zenon
<1> QED
  BY <1>4, <1>5, <1>6, <1>7, <1>8, <1>9, <1>10, <1>11, Zenon DEF Ssh!Next

-----------------------------------------------------------------------------
\* The local shell's transport.

WinPtyPlaces == {"Idle", "Waiting", "Holding", "Resizing", "Writing"}
CloserPlaces ==
    {"None", "Looking", "Input", "WaitChild", "Free", "WaitReader", "Joining", "Releasing",
     "Publishing", "Completing", "Done", "Threw"}
Completes == {"Releasing", "Publishing", "Completing"}
CloserKinds == {"None", "Cancelled", "ForcedTermination"}
InGate == {"Holding", "Resizing", "Writing"}

\* A writer inside the gate holds it, and what it uses is open: whoever frees
\* the pty or closes the input takes the gate.
WinPtyGate ==
    /\ writer \in [Writers -> WinPtyPlaces]
    /\ \A w \in Writers : writer[w] \in InGate => writeGate = w
    /\ WinPty!HandlesAlive

\* What the threads know of the state that the lock publishes: a start that
\* is pending has it to itself; a reader, once it releases, and every close
\* act on a transport that is ending.
WinPtyLife ==
    /\ closer \in [WinPty!Callers -> [at : CloserPlaces, kind : CloserKinds]]
    /\ State \in {"Created", "Starting", "Running"} \cup Ending
    /\ State = "Created" => result = "None"
    /\ start = "Pending" => State = "Starting" /\ result = "None"
    /\ reader.at # "None" => State \notin {"Created", "Starting"}
    /\ reader.at \in Completes => State \in Ending
    /\ \A c \in WinPty!Callers : closer[c].at # "None" => State \in Ending

\* What a step of CloseAsync does: it moves on, closing the input or freeing
\* the pty when nobody is in the gate, or it completes the transport.
CloserMoves(c, place) ==
    /\ WinPty!Move(c, place)
    /\ UNCHANGED <<State, result>>
    /\ owned' = owned \/ (owned' \subseteq owned /\ writeGate = "NoOne")
    /\ place = "Joining" => result # "None"
    /\ place = "Done" => \/ reader.at = "Done"
                         \/ reader.at = "None" /\ closer[c].at = "Joining"
                         \/ reader.at = "None" /\ reader # WinPty!NotRunning

\* Those are all the steps of CloseAsync, and nobody else moves in them.
LEMMA CloserStep ==
    ASSUME NEW c \in WinPty!Callers, WinPty!Closer(c)
    PROVE  /\ closer[c].at \notin {"None", "Done", "Threw"}
           /\ UNCHANGED <<start, reader, writer, writeGate, childExited, closeReason,
                          dispose>>
           /\ \/ \E place \in CloserPlaces \ (Completes \cup {"None"}) :
                     CloserMoves(c, place)
              \/ WinPty!CloseAlone(c) \/ WinPty!CloseReleases(c)
              \/ WinPty!ClosePublishes(c) \/ WinPty!CloseCompletes(c)
<1> DEFINE Kept == UNCHANGED <<start, reader, writer, writeGate, childExited, closeReason,
                               dispose>>
           Active == closer[c].at \notin {"None", "Done", "Threw"}
           Places == CloserPlaces \ (Completes \cup {"None"})
           Moves == \E place \in Places : CloserMoves(c, place)
<1>1. {"Joining", "Input", "WaitChild", "WaitReader", "Free", "Threw", "Done"} \subseteq Places
  BY DEF CloserPlaces, Completes
<1>2. CASE WinPty!CloseLooks(c)
  <2>1. Kept /\ Active /\ (CloserMoves(c, "Joining") \/ CloserMoves(c, "Input"))
    BY <1>2, Zenon DEF WinPty!CloseLooks, WinPty!CloserAt, WinPty!closeVars, CloserMoves
  <2> QED BY <1>1, <2>1, Zenon
<1>3. CASE WinPty!CloseInput(c)
  <2>1. Kept /\ Active /\ CloserMoves(c, "WaitChild")
    BY <1>3, Zenon DEF WinPty!CloseInput, WinPty!GateFree, WinPty!NoOne, WinPty!CloserAt,
       WinPty!closeVars, CloserMoves
  <2> QED BY <1>1, <2>1, Zenon
<1>4. CASE WinPty!CloseWaits(c)
  <2>1. Kept /\ Active /\ (CloserMoves(c, "WaitReader") \/ CloserMoves(c, "Free"))
    BY <1>4, Zenon DEF WinPty!CloseWaits, WinPty!CloserAt, WinPty!closeVars, CloserMoves
  <2> QED BY <1>1, <2>1, Zenon
<1>5. CASE WinPty!CloseFrees(c)
  <2>1. Kept /\ Active /\ CloserMoves(c, "WaitReader")
    BY <1>5 DEF WinPty!CloseFrees, WinPty!GateFree, WinPty!NoOne, WinPty!CloserAt,
       WinPty!closeVars, CloserMoves
  <2> QED BY <1>1, <2>1, Zenon
<1>6. CASE WinPty!CloseFaults(c) \/ WinPty!CloseTimesOut(c)
  <2>1. Kept /\ Active /\ CloserMoves(c, "Threw")
    BY <1>6 DEF WinPty!CloseFaults, WinPty!CloseTimesOut, WinPty!CloserAt,
       WinPty!closeVars, CloserMoves
  <2> QED BY <1>1, <2>1, Zenon
<1>7. CASE WinPty!CloseJoins(c)
  <2>1. Kept /\ Active /\ UNCHANGED <<State, result, owned>>
    BY <1>7 DEF WinPty!CloseJoins, WinPty!CloserAt, WinPty!closeVars
  <2>2. \/ WinPty!Move(c, "Threw")
        \/ WinPty!Move(c, "Done") /\ \/ reader.at = "Done"
                                     \/ reader.at = "None" /\ closer[c].at = "Joining"
                                     \/ reader.at = "None" /\ reader # WinPty!NotRunning
    BY <1>7 DEF WinPty!CloseJoins, WinPty!ReaderAt, WinPty!CloserAt
  <2>3. CloserMoves(c, "Threw") \/ CloserMoves(c, "Done")
    BY <2>1, <2>2 DEF CloserMoves
  <2> QED BY <1>1, <2>1, <2>3, Zenon
<1>8. CASE WinPty!CloseAlone(c) \/ WinPty!CloseReleases(c)
  <2>1. Kept /\ Active
    BY <1>8 DEF WinPty!CloseAlone, WinPty!KindFromClose, WinPty!CloseReleases,
       WinPty!CloserAt, WinPty!closeVars
  <2> QED BY <1>8, <2>1, Zenon
<1>9. CASE WinPty!ClosePublishes(c) \/ WinPty!CloseCompletes(c)
  <2>1. Kept /\ Active
    BY <1>9 DEF WinPty!ClosePublishes, WinPty!CloseCompletes, WinPty!CloserAt,
       WinPty!closeVars
  <2> QED BY <1>9, <2>1, Zenon
<1> QED
  BY <1>2, <1>3, <1>4, <1>5, <1>6, <1>7, <1>8, <1>9, Zenon DEF WinPty!Closer

\* What a step of a writer leaves.
LEMMA WriterStep ==
    ASSUME NEW w \in Writers,
           WinPty!BeginWrite(w) \/ WinPty!PeerReads(w) \/ WinPty!Writer(w)
    PROVE  UNCHANGED <<State, result, closeReason, lifetime, owned, start, reader, closer,
                       dispose, childExited>>
BY DEF WinPty!BeginWrite, WinPty!PeerReads, WinPty!WriteGivenUp, WinPty!Writer,
   WinPty!Enter, WinPty!ResizeBegins, WinPty!InputBegins, WinPty!LeaveEarly,
   WinPty!Resized, WinPty!Written, WinPty!LeaveGate, WinPty!writeVars

\* What a step of the reader leaves.
LEMMA ReaderStep ==
    ASSUME WinPty!Reader
    PROVE  /\ UNCHANGED <<closeReason, writeGate, start, writer, closer, dispose,
                          childExited>>
           /\ reader.at \notin {"None", "Done", "Threw"}
           /\ \/ WinPty!ReaderCloses \/ WinPty!ReaderReleases \/ WinPty!ReaderPublishes
              \/ WinPty!ReaderCompletes
              \/ UNCHANGED <<State, result, lifetime, owned>>
<1> USE DEF WinPty!readVars, WinPty!quietVars, WinPty!ReaderAt
<1>1. CASE WinPty!ReadData \/ WinPty!ReadEnds \/ WinPty!Deliver \/ WinPty!ReaderLooks
  BY <1>1 DEF WinPty!ReadData, WinPty!ReadEnds, WinPty!Deliver, WinPty!ReaderLooks
<1>2. CASE WinPty!ReaderJoinsChild \/ WinPty!ReaderSettles \/ WinPty!ReaderThrows
  BY <1>2 DEF WinPty!ReaderJoinsChild, WinPty!ReaderSettles, WinPty!ReaderThrows,
     WinPty!CompletesAs
<1>3. CASE WinPty!ReaderCloses \/ WinPty!ReaderReleases \/ WinPty!ReaderFaults
  BY <1>3 DEF WinPty!ReaderCloses, WinPty!ReaderReleases, WinPty!ReaderFaults
<1>4. CASE WinPty!ReaderPublishes \/ WinPty!ReaderCompletes
  BY <1>4, Zenon DEF WinPty!ReaderPublishes, WinPty!ReaderCompletes
<1> QED BY <1>1, <1>2, <1>3, <1>4 DEF WinPty!Reader

\* Resizes and writes keep what they use.
LEMMA WinPtyGateStep ==
    ASSUME WinPty!WinPtyAssumption, WinPtyGate, [WinPty!Next]_(WinPty!vars)
    PROVE  WinPtyGate'
<1> USE DEF WinPtyGate, WinPty!HandlesAlive, InGate, WinPtyPlaces, WinPty!WinPtyAssumption
<1>1. ASSUME NEW w \in Writers,
             WinPty!BeginWrite(w) \/ WinPty!PeerReads(w) \/ WinPty!Writer(w)
      PROVE  WinPtyGate'
  <2>1. owned' = owned
    BY <1>1, WriterStep
  <2>2. CASE WinPty!BeginWrite(w) \/ WinPty!WriteGivenUp(w)
    BY <2>1, <2>2 DEF WinPty!BeginWrite, WinPty!WriteGivenUp
  <2>3. CASE WinPty!Enter(w)
    BY <2>1, <2>3 DEF WinPty!Enter, WinPty!GateFree
  <2>4. CASE WinPty!ResizeBegins(w)
    BY <2>1, <2>4 DEF WinPty!ResizeBegins
  <2>5. CASE WinPty!InputBegins(w)
    BY <2>1, <2>5 DEF WinPty!InputBegins
  <2>6. CASE writer[w] \in InGate /\ WinPty!LeaveGate(w)
    BY <2>1, <2>6 DEF WinPty!LeaveGate
  <2> QED
    BY <1>1, <2>2, <2>3, <2>4, <2>5, <2>6 DEF WinPty!PeerReads, WinPty!Writer,
       WinPty!LeaveEarly, WinPty!Resized, WinPty!Written
<1>2. ASSUME UNCHANGED <<writer, writeGate>>, owned \subseteq owned' PROVE WinPtyGate'
  BY <1>2
<1>3. ASSUME UNCHANGED <<writer, writeGate>>, writeGate = "NoOne" PROVE WinPtyGate'
  BY <1>3 DEF WinPty!NoOne
<1>4. CASE WinPty!StartRuns
  BY <1>4, Zenon DEF WinPty!StartRuns, WinPty!Handles
<1>5. CASE \/ WinPty!StartAsync \/ WinPty!StartThrows \/ WinPty!ChildExits
           \/ WinPty!Dispose \/ WinPty!DisposeJoined \/ UNCHANGED WinPty!vars
           \/ \E c \in Closers : \E reason \in CloseReasons : WinPty!CloseAsync(c, reason)
  BY <1>2, <1>5 DEF WinPty!StartAsync, WinPty!StartThrows, WinPty!ChildExits,
     WinPty!Dispose, WinPty!DisposeJoined, WinPty!CloseAsync, WinPty!closeVars,
     WinPty!vars
<1>6. CASE WinPty!Reader
  <2>1. CASE WinPty!ReaderReleases
    BY <1>3, <1>6, <2>1, ReaderStep DEF WinPty!ReaderReleases, WinPty!ReleaseNative,
       WinPty!GateFree, WinPty!NoOne
  <2>2. CASE owned' = owned
    BY <1>2, <1>6, <2>2, ReaderStep
  <2> QED
    BY <1>6, <2>1, <2>2, ReaderStep DEF WinPty!ReaderCloses, WinPty!ReaderPublishes,
       WinPty!ReaderCompletes
<1>7. CASE WinPty!DisposeReleases
  BY <1>3, <1>7 DEF WinPty!DisposeReleases, WinPty!ReleaseNative, WinPty!GateFree,
     WinPty!NoOne, WinPty!closeVars
<1>8. ASSUME NEW c \in WinPty!Callers, WinPty!Closer(c) PROVE WinPtyGate'
  <2>1. UNCHANGED <<writer, writeGate>>
    BY <1>8, CloserStep, Zenon
  <2>2. owned' = owned \/ writeGate = "NoOne"
    <3>1. ASSUME NEW place, CloserMoves(c, place) PROVE owned' = owned \/ writeGate = "NoOne"
      BY <3>1 DEF CloserMoves
    <3>2. CASE WinPty!CloseReleases(c)
      BY <3>2 DEF WinPty!CloseReleases, WinPty!ReleaseNative, WinPty!GateFree,
         WinPty!NoOne
    <3>3. CASE WinPty!CloseAlone(c) \/ WinPty!ClosePublishes(c) \/ WinPty!CloseCompletes(c)
      BY <3>3 DEF WinPty!CloseAlone, WinPty!KindFromClose, WinPty!ClosePublishes,
         WinPty!CloseCompletes
    <3> QED BY <1>8, <3>1, <3>2, <3>3, CloserStep, Zenon
  <2> QED BY <1>2, <1>3, <2>1, <2>2, Zenon
<1> QED
  BY <1>1, <1>4, <1>5, <1>6, <1>7, <1>8, Zenon
     DEF WinPty!Next, WinPty!Disposing

\* Before the start.
LEMMA WinPtyLifeInit ==
    ASSUME kind = "WinPty", WinPty!Init
    PROVE  WinPtyLife /\ Contract!Init
BY DEF WinPty!Init, WinPtyLife, Contract!Init, WinPty!Status, WinPty!Outcome, WinPty!Over,
   Ending, CloserPlaces, CloserKinds, Completes, WinPty!NotRunning, WinPty!At

\* The published state only moves forward, by a step of the contract.
LEMMA WinPtyLifeStep ==
    ASSUME kind = "WinPty", kind' = "WinPty", WinPtyLife, [WinPty!Next]_(WinPty!vars)
    PROVE  WinPtyLife' /\ [Contract!Next]_(Contract!vars)
<1> USE DEF CloserPlaces, Completes, CloserKinds, WinPty!TerminalCloseReason, Ending,
        WinPty!Over, WinPty!At, WinPty!NotRunning
<1> DEFINE Same == UNCHANGED <<State, result, start>>
           Goal == WinPtyLife' /\ [Contract!Next]_(Contract!vars)
<1>1. CASE WinPty!StartAsync
  BY <1>1 DEF WinPty!StartAsync, WinPtyLife, Contract!Next, Contract!StartAsync,
     WinPty!Status, WinPty!Outcome
<1>2. CASE WinPty!StartRuns
  BY <1>2 DEF WinPty!StartRuns, WinPtyLife, Contract!Next, Contract!Run, WinPty!Status,
     WinPty!Outcome
<1>3. CASE WinPty!StartThrows
  BY <1>3 DEF WinPty!StartThrows, WinPtyLife, Contract!Next, Contract!End, WinPty!Status,
     WinPty!Outcome
<1>4. ASSUME Same PROVE UNCHANGED Contract!vars
  BY <1>4 DEF Contract!vars, WinPty!Status, WinPty!Outcome
<1>5. ASSUME Same, UNCHANGED <<reader, closer>> PROVE Goal
  BY <1>4, <1>5 DEF WinPtyLife
<1>6. CASE \E w \in Writers : WinPty!BeginWrite(w) \/ WinPty!PeerReads(w) \/ WinPty!Writer(w)
  BY <1>5, <1>6, WriterStep
<1>7. CASE WinPty!ChildExits \/ WinPty!Disposing \/ UNCHANGED WinPty!vars
  BY <1>5, <1>7 DEF WinPty!ChildExits, WinPty!Disposing, WinPty!DisposeJoined,
     WinPty!DisposeReleases, WinPty!closeVars, WinPty!vars
<1>8. CASE WinPty!Reader
  <2>1. UNCHANGED <<start, closer>>
    BY <1>8, ReaderStep, Zenon
  <2>2. CASE WinPty!ReaderCloses
    BY <2>1, <2>2, Zenon DEF WinPty!ReaderCloses, WinPty!ReaderAt, WinPtyLife,
       Contract!Next, Contract!Close, Contract!vars, WinPty!Status, WinPty!Outcome
  <2>3. CASE WinPty!ReaderPublishes
    BY <2>1, <2>3, Zenon DEF WinPty!ReaderPublishes, WinPty!ReaderAt, WinPtyLife,
       Contract!vars, WinPty!Status, WinPty!Outcome
  <2>4. CASE WinPty!ReaderCompletes
    BY <2>1, <2>4 DEF WinPty!ReaderCompletes, WinPty!ReaderAt, WinPty!TrySet, WinPtyLife,
       Contract!Next, Contract!End, Contract!vars, WinPty!Status, WinPty!Outcome
  <2>5. CASE WinPty!ReaderReleases
    <3>1. Same
      BY <2>1, <2>5 DEF WinPty!ReaderReleases
    <3> QED BY <1>4, <2>1, <2>5, <3>1 DEF WinPty!ReaderReleases, WinPty!ReaderAt,
               WinPtyLife
  <2>6. CASE \/ WinPty!ReadData \/ WinPty!ReadEnds \/ WinPty!Deliver \/ WinPty!ReaderLooks
             \/ WinPty!ReaderJoinsChild \/ WinPty!ReaderSettles \/ WinPty!ReaderThrows
             \/ WinPty!ReaderFaults
    <3>1. Same
      BY <2>1, <2>6 DEF WinPty!ReadData, WinPty!ReadEnds, WinPty!Deliver,
         WinPty!ReaderLooks, WinPty!ReaderJoinsChild, WinPty!ReaderSettles,
         WinPty!ReaderThrows, WinPty!ReaderFaults, WinPty!CompletesAs, WinPty!quietVars
    <3>2. reader.at # "None" /\ reader'.at \notin {"Releasing", "Publishing", "Completing"}
      <4>1. CASE WinPty!ReadData \/ WinPty!ReadEnds \/ WinPty!Deliver
        BY <4>1 DEF WinPty!ReadData, WinPty!ReadEnds, WinPty!Deliver, WinPty!ReaderAt
      <4>2. CASE WinPty!ReaderLooks \/ WinPty!ReaderJoinsChild
        BY <4>2 DEF WinPty!ReaderLooks, WinPty!ReaderJoinsChild, WinPty!CompletesAs,
           WinPty!ReaderAt
      <4>3. CASE WinPty!ReaderSettles \/ WinPty!ReaderThrows \/ WinPty!ReaderFaults
        BY <4>3 DEF WinPty!ReaderSettles, WinPty!ReaderThrows, WinPty!ReaderFaults,
           WinPty!CompletesAs, WinPty!ReaderAt
      <4> QED BY <2>6, <4>1, <4>2, <4>3, Zenon
    <3> QED BY <1>4, <2>1, <3>1, <3>2, Zenon DEF WinPtyLife
  <2> QED BY <1>8, <2>2, <2>3, <2>4, <2>5, <2>6 DEF WinPty!Reader
<1>9. ASSUME NEW c \in WinPty!Callers, NEW reason \in WinPty!TerminalCloseReason,
             WinPty!CloseCalled(c, reason), UNCHANGED <<result, start, reader>>
      PROVE  Goal
  BY <1>9 DEF WinPty!CloseCalled, WinPty!Move, WinPtyLife, Contract!Next, Contract!Close,
     Contract!vars, WinPty!Status, WinPty!Outcome
<1>10. CASE \/ \E c \in Closers : \E reason \in CloseReasons : WinPty!CloseAsync(c, reason)
            \/ WinPty!Dispose
  <2>1. PICK c \in WinPty!Callers, reason \in WinPty!TerminalCloseReason :
           WinPty!CloseCalled(c, reason)
    BY <1>10, Reasons DEF WinPty!CloseAsync, WinPty!Dispose, WinPty!Callers
  <2>2. UNCHANGED <<result, start, reader>>
    BY <1>10, Zenon DEF WinPty!CloseAsync, WinPty!Dispose, WinPty!closeVars
  <2> QED BY <1>9, <2>1, <2>2
<1>11. ASSUME NEW c \in WinPty!Callers, WinPty!Closer(c) PROVE Goal
  <2> DEFINE Typed == closer' \in [WinPty!Callers -> [at : CloserPlaces, kind : CloserKinds]]
  <2>1. closer[c].at # "None" /\ UNCHANGED <<start, reader>>
    BY <1>11, CloserStep, Zenon
  <2>2. State \in Ending /\ start # "Pending"
    BY <2>1 DEF WinPtyLife
  <2>3. ASSUME Typed, State' \in {State, "Closed"}, result' = result \/ result = "None"
        PROVE  Goal
    <3>1. WinPtyLife'
      BY <2>1, <2>2, <2>3, Zenon DEF WinPtyLife
    <3>2. [Contract!Next]_(Contract!vars)
      BY <2>1, <2>2, <2>3, Zenon DEF Contract!Next, Contract!End, Contract!vars,
         WinPty!Status, WinPty!Outcome
    <3> QED BY <3>1, <3>2
  <2>4. ASSUME NEW place \in CloserPlaces, CloserMoves(c, place) PROVE Goal
    BY <2>3, <2>4 DEF CloserMoves, WinPty!Move, WinPtyLife
  <2>5. CASE WinPty!CloseAlone(c)
    <3>1. Typed
      BY <2>5, Zenon DEF WinPty!CloseAlone, WinPty!KindFromClose, WinPtyLife
    <3> QED BY <2>3, <2>5, <3>1 DEF WinPty!CloseAlone, WinPty!KindFromClose
  <2>6. CASE WinPty!CloseReleases(c)
    BY <2>3, <2>6, Zenon DEF WinPty!CloseReleases, WinPtyLife
  <2>7. CASE WinPty!ClosePublishes(c)
    BY <2>3, <2>7, Zenon DEF WinPty!ClosePublishes, WinPtyLife
  <2>8. CASE WinPty!CloseCompletes(c)
    BY <2>3, <2>8 DEF WinPty!CloseCompletes, WinPty!Move, WinPty!TrySet, WinPtyLife
  <2> QED BY <1>11, <2>4, <2>5, <2>6, <2>7, <2>8, CloserStep, Zenon
<1> QED
  BY <1>1, <1>2, <1>3, <1>6, <1>7, <1>8, <1>10, <1>11 DEF WinPty!Next

\* Where the reader, a close and Dispose are, against what is open and whether
\* the result is out: a reader owns the handles until it has released them, and
\* only without a reader does a close complete the transport.
ReaderFits ==
    /\ reader.at = "None" => reader = WinPty!NotRunning
    /\ start # "Ok" => owned = {} /\ reader.at = "None"
    /\ start = "Ok" => reader.at # "None"
    /\ reader.at \in {"Publishing", "Completing", "Done"} => owned = {}
    /\ reader.at \in {"Settling", "Releasing", "Publishing", "Completing"} =>
           reader.kind # "None"
    /\ reader.at = "Done" => result # "None"
CloserFits(c) ==
    /\ closer[c].at = "Joining" => result # "None"
    /\ closer[c].at \in Completes => reader.at = "None" /\ closer[c].kind # "None"
    /\ closer[c].at = "Done" => /\ owned = {} /\ result # "None"
                                /\ reader.at \in {"None", "Done"}
DisposeFits ==
    /\ dispose = "Releasing" => closer["Disposer"].at = "Threw"
    /\ dispose = "Done" => owned = {} /\ closer["Disposer"].at \in {"Done", "Threw"}
WinPtyJoin == ReaderFits /\ (\A c \in WinPty!Callers : CloserFits(c)) /\ DisposeFits

\* Every step keeps them.
LEMMA WinPtyJoinStep ==
    ASSUME WinPtyLife, WinPtyJoin, [WinPty!Next]_(WinPty!vars)
    PROVE  WinPtyJoin'
<1> DEFINE Shrinks == owned = {} => owned' = {}
           Settles == result # "None" => result' # "None"
<1>1. ASSUME UNCHANGED <<start, reader>>, Shrinks, Settles PROVE ReaderFits'
  BY <1>1, Zenon DEF WinPtyJoin, ReaderFits
<1>2. ASSUME UNCHANGED reader, Shrinks, Settles, NEW c \in WinPty!Callers,
             closer'[c] = closer[c]
      PROVE  CloserFits(c)'
  BY <1>2, Zenon DEF WinPtyJoin, CloserFits
<1>3. ASSUME UNCHANGED <<dispose, closer>>, Shrinks PROVE DisposeFits'
  BY <1>3 DEF WinPtyJoin, DisposeFits
<1>4. ASSUME UNCHANGED <<start, reader, dispose, closer>>, Shrinks, Settles PROVE WinPtyJoin'
  BY <1>1, <1>2, <1>3, <1>4 DEF WinPtyJoin
<1>5. \A c \in WinPty!Callers : closer[c].at # "None" => State \in Ending
  BY DEF WinPtyLife
<1>6. "Disposer" \in WinPty!Callers
  BY DEF WinPty!Callers, WinPty!Disposer
<1>7. CASE WinPty!StartAsync
  <2>1. ReaderFits'
    BY <1>7 DEF WinPty!StartAsync, WinPtyJoin, ReaderFits
  <2> QED BY <1>2, <1>3, <1>7, <2>1 DEF WinPty!StartAsync, WinPtyJoin
<1>8. CASE WinPty!StartRuns
  <2>1. State = "Starting" /\ UNCHANGED <<dispose, closer, result>>
    BY <1>8 DEF WinPty!StartRuns, WinPtyLife
  <2>2. \A c \in WinPty!Callers : closer[c].at = "None"
    BY <1>5, <2>1 DEF Ending
  <2>3. ReaderFits'
    BY <1>8 DEF WinPty!StartRuns, WinPty!At, ReaderFits
  <2>4. ASSUME NEW c \in WinPty!Callers PROVE CloserFits(c)'
    BY <2>1, <2>2 DEF CloserFits, Completes
  <2>5. DisposeFits'
    BY <1>6, <2>1, <2>2 DEF WinPtyJoin, DisposeFits
  <2> QED BY <2>3, <2>4, <2>5 DEF WinPtyJoin
<1>9. CASE WinPty!StartThrows
  <2>1. ReaderFits'
    BY <1>9 DEF WinPty!StartThrows, WinPtyJoin, ReaderFits
  <2> QED BY <1>2, <1>3, <1>9, <2>1 DEF WinPty!StartThrows, WinPtyJoin
<1>10. CASE \E w \in Writers : WinPty!BeginWrite(w) \/ WinPty!PeerReads(w) \/ WinPty!Writer(w)
  BY <1>4, <1>10, WriterStep
<1>11. CASE WinPty!ChildExits \/ UNCHANGED WinPty!vars
  BY <1>4, <1>11 DEF WinPty!ChildExits, WinPty!vars
<1>12. CASE WinPty!Reader
  <2>1. /\ UNCHANGED <<start, closer, dispose>>
        /\ reader.at \notin {"None", "Done", "Threw"} /\ start = "Ok"
    BY <1>12, ReaderStep DEF WinPtyJoin, ReaderFits
  <2>2. ASSUME Shrinks, Settles, ReaderFits' PROVE WinPtyJoin'
    <3>1. ASSUME NEW c \in WinPty!Callers PROVE CloserFits(c)'
      BY <2>1, <2>2, Zenon DEF WinPtyJoin, CloserFits, Completes
    <3> QED BY <1>3, <2>1, <2>2, <3>1, Zenon DEF WinPtyJoin
  <2>3. CASE WinPty!ReaderReleases
    BY <2>1, <2>2, <2>3, Zenon DEF WinPty!ReaderReleases, WinPty!ReleaseNative,
       WinPty!ReaderAt, WinPty!At, WinPtyJoin, ReaderFits
  <2>4. CASE WinPty!ReaderCloses
    BY <2>1, <2>2, <2>4, Zenon DEF WinPty!ReaderCloses, WinPty!ReaderAt, WinPty!At,
       WinPtyJoin, ReaderFits
  <2>5. CASE WinPty!ReaderPublishes
    BY <2>1, <2>2, <2>5, Zenon DEF WinPty!ReaderPublishes, WinPty!ReaderAt, WinPty!At,
       WinPtyJoin, ReaderFits
  <2>6. CASE WinPty!ReaderCompletes
    BY <2>1, <2>2, <2>6 DEF WinPty!ReaderCompletes, WinPty!ReaderAt, WinPty!At,
       WinPty!TrySet, WinPtyJoin, ReaderFits
  <2>7. CASE \/ WinPty!ReadData \/ WinPty!ReadEnds \/ WinPty!Deliver \/ WinPty!ReaderLooks
             \/ WinPty!ReaderFaults
    <3>1. UNCHANGED <<owned, result>>
      BY <2>7 DEF WinPty!ReadData, WinPty!ReadEnds, WinPty!Deliver, WinPty!ReaderLooks,
         WinPty!ReaderFaults, WinPty!quietVars
    <3>2. reader'.at \in {"Delivering", "Ended", "Reading", "JoinChild", "AwaitExit", "Threw"}
      BY <2>7 DEF WinPty!ReadData, WinPty!ReadEnds, WinPty!Deliver, WinPty!ReaderLooks,
         WinPty!ReaderFaults, WinPty!At
    <3> QED BY <2>1, <2>2, <3>1, <3>2 DEF ReaderFits
  <2>8. CASE WinPty!ReaderJoinsChild \/ WinPty!ReaderSettles \/ WinPty!ReaderThrows
    <3>1. UNCHANGED <<owned, result>>
      BY <2>8 DEF WinPty!ReaderJoinsChild, WinPty!ReaderSettles, WinPty!ReaderThrows,
         WinPty!CompletesAs, WinPty!quietVars
    <3>2. reader'.at = "Settling" /\ reader'.kind # "None"
      BY <2>8, SMTT(30) DEF WinPty!ReaderJoinsChild, WinPty!ReaderSettles,
         WinPty!ReaderThrows, WinPty!CompletesAs, WinPty!At, WinPty!KindFromClose,
         WinPty!ThrownKind
    <3> QED BY <2>1, <2>2, <3>1, <3>2 DEF ReaderFits
  <2> QED BY <1>12, <2>3, <2>4, <2>5, <2>6, <2>7, <2>8 DEF WinPty!Reader
<1>13. ASSUME NEW c \in WinPty!Callers, NEW reason \in WinPty!TerminalCloseReason,
              WinPty!CloseCalled(c, reason), UNCHANGED <<start, reader, owned, result>>
       PROVE  ReaderFits' /\ \A d \in WinPty!Callers : CloserFits(d)'
  <2>1. closer'[c].at = "Looking" /\ \A d \in WinPty!Callers \ {c} : closer'[d] = closer[d]
    BY <1>13, Zenon DEF WinPty!CloseCalled, WinPty!Move, WinPty!At, WinPtyLife
  <2>2. CloserFits(c)'
    BY <2>1 DEF CloserFits, Completes
  <2> QED BY <1>1, <1>2, <1>13, <2>1, <2>2, Zenon
<1>14. CASE \E c \in Closers : \E reason \in CloseReasons : WinPty!CloseAsync(c, reason)
  <2>1. PICK c \in Closers, reason \in WinPty!TerminalCloseReason : WinPty!CloseAsync(c, reason)
    BY <1>14, Reasons, Zenon
  <2>2. c \in WinPty!Callers /\ closer[c].at = "None" /\ UNCHANGED <<dispose, owned>>
    BY <2>1, Zenon DEF WinPty!CloseAsync, WinPty!CloseCalled, WinPty!Callers
  <2>3. ReaderFits' /\ \A d \in WinPty!Callers : CloserFits(d)'
    BY <1>13, <2>1, <2>2 DEF WinPty!CloseAsync, WinPty!closeVars
  <2>4. \A d \in WinPty!Callers \ {c} : closer'[d] = closer[d]
    BY <2>1, <2>2 DEF WinPty!CloseAsync, WinPty!CloseCalled, WinPty!Move, WinPtyLife
  <2>5. DisposeFits'
    BY <1>6, <2>2, <2>4 DEF WinPtyJoin, DisposeFits
  <2> QED BY <2>3, <2>5 DEF WinPtyJoin
<1>15. CASE WinPty!Dispose
  <2>1. ReaderFits' /\ \A d \in WinPty!Callers : CloserFits(d)'
    BY <1>6, <1>13, <1>15 DEF WinPty!Dispose, WinPty!Disposer, WinPty!closeVars,
       WinPty!TerminalCloseReason
  <2>2. DisposeFits'
    BY <1>15 DEF WinPty!Dispose, DisposeFits
  <2> QED BY <2>1, <2>2 DEF WinPtyJoin
<1>16. CASE WinPty!DisposeJoined
  <2>1. UNCHANGED <<start, reader, closer, owned, result>>
    BY <1>16 DEF WinPty!DisposeJoined, WinPty!closeVars
  <2>2. CloserFits("Disposer")
    BY <1>6 DEF WinPtyJoin
  <2>3. DisposeFits'
    BY <1>16, <2>1, <2>2 DEF WinPty!DisposeJoined, WinPty!CloserAt, WinPty!Disposer,
       WinPty!Returned, DisposeFits, CloserFits
  <2> QED BY <1>1, <1>2, <2>1, <2>3 DEF WinPtyJoin
<1>17. CASE WinPty!DisposeReleases
  <2>1. UNCHANGED <<start, reader, closer, result>> /\ owned' = {}
    BY <1>17 DEF WinPty!DisposeReleases, WinPty!ReleaseNative, WinPty!closeVars
  <2>2. DisposeFits'
    BY <1>17, <2>1, Zenon DEF WinPty!DisposeReleases, DisposeFits, WinPtyJoin
  <2> QED BY <1>1, <1>2, <2>1, <2>2 DEF WinPtyJoin
<1>18. ASSUME NEW c \in WinPty!Callers, WinPty!Closer(c) PROVE WinPtyJoin'
  <2>1. closer[c].at \notin {"None", "Done", "Threw"} /\ UNCHANGED <<start, reader, dispose>>
    BY <1>18, CloserStep, Zenon
  <2>2. ASSUME Shrinks, Settles, CloserFits(c)',
               \A d \in WinPty!Callers \ {c} : closer'[d] = closer[d]
        PROVE  WinPtyJoin'
    <3>1. DisposeFits'
      BY <1>6, <2>1, <2>2, Zenon DEF WinPtyJoin, DisposeFits
    <3> QED BY <1>1, <1>2, <2>1, <2>2, <3>1, Zenon DEF WinPtyJoin
  <2>3. ReaderFits /\ CloserFits(c)
    BY Zenon DEF WinPtyJoin
  <2>4. ASSUME NEW place \in CloserPlaces \ (Completes \cup {"None"}), CloserMoves(c, place)
        PROVE  WinPtyJoin'
    <3>1. Shrinks /\ UNCHANGED result
      BY <2>4, Zenon DEF CloserMoves
    <3>2. closer'[c].at = place /\ \A d \in WinPty!Callers \ {c} : closer'[d] = closer[d]
      BY <2>4, Zenon DEF CloserMoves, WinPty!Move, WinPty!At, WinPtyLife
    <3>3. place = "Joining" => result # "None"
      BY <2>4, Zenon DEF CloserMoves
    <3>4. CASE place = "Done"
      <4>1. /\ reader.at \in {"None", "Done"}
            /\ reader.at = "None" => closer[c].at = "Joining"
        BY <2>3, <2>4, <3>4, Zenon DEF CloserMoves, ReaderFits
      <4>2. owned = {} /\ result # "None"
        BY <2>3, <4>1, Zenon DEF ReaderFits, CloserFits
      <4> QED BY <2>1, <2>2, <3>1, <3>2, <3>4, <4>1, <4>2, Zenon DEF CloserFits, Completes
    <3> QED BY <2>1, <2>2, <2>4, <3>1, <3>2, <3>3, <3>4, Zenon DEF CloserFits, Completes
  <2>5. CASE WinPty!CloseAlone(c)
    <3>1. /\ closer'[c].at = "Releasing" /\ closer'[c].kind # "None" /\ reader.at = "None"
          /\ \A d \in WinPty!Callers \ {c} : closer'[d] = closer[d]
          /\ UNCHANGED <<owned, result>>
      BY <2>5, Zenon DEF WinPty!CloseAlone, WinPty!KindFromClose, WinPty!At,
         WinPty!ReaderAt, WinPtyLife
    <3> QED BY <2>1, <2>2, <3>1, Zenon DEF CloserFits
  <2>6. CASE WinPty!CloseReleases(c)
    <3>1. /\ closer[c].at = "Releasing"
          /\ closer'[c].at = "Publishing" /\ closer'[c].kind = closer[c].kind
          /\ \A d \in WinPty!Callers \ {c} : closer'[d] = closer[d]
          /\ owned' = {} /\ UNCHANGED result
      BY <2>6, Zenon DEF WinPty!CloseReleases, WinPty!ReleaseNative, WinPty!CloserAt,
         WinPty!At, WinPtyLife
    <3> QED BY <2>1, <2>2, <2>3, <3>1, Zenon DEF CloserFits, Completes
  <2>7. CASE WinPty!ClosePublishes(c)
    <3>1. /\ closer[c].at = "Publishing"
          /\ closer'[c].at = "Completing" /\ closer'[c].kind = closer[c].kind
          /\ \A d \in WinPty!Callers \ {c} : closer'[d] = closer[d]
          /\ UNCHANGED <<owned, result>>
      BY <2>7, Zenon DEF WinPty!ClosePublishes, WinPty!CloserAt, WinPty!At, WinPtyLife
    <3> QED BY <2>1, <2>2, <2>3, <3>1, Zenon DEF CloserFits, Completes
  <2>8. CASE WinPty!CloseCompletes(c)
    <3>1. /\ closer[c].at = "Completing" /\ closer'[c].at = "Done"
          /\ \A d \in WinPty!Callers \ {c} : closer'[d] = closer[d]
          /\ UNCHANGED owned /\ result' = WinPty!TrySet(closer[c].kind)
      BY <2>8, Zenon DEF WinPty!CloseCompletes, WinPty!Move, WinPty!CloserAt, WinPty!At,
         WinPtyLife
    <3>2. reader.at = "None" /\ closer[c].kind # "None"
      BY <2>3, <3>1, Zenon DEF CloserFits, Completes
    <3>3. owned = {} /\ result' # "None"
      BY <2>3, <3>1, <3>2 DEF ReaderFits, WinPty!TrySet
    <3> QED BY <2>1, <2>2, <3>1, <3>2, <3>3, Zenon DEF CloserFits, Completes
  <2> QED BY <1>18, <2>4, <2>5, <2>6, <2>7, <2>8, CloserStep, Zenon
<1> QED
  BY <1>7, <1>8, <1>9, <1>10, <1>11, <1>12, <1>14, <1>15, <1>16, <1>17, <1>18
     DEF WinPty!Next, WinPty!Disposing

\* A natural end is chosen only after the wait has found the child ended, and
\* a cancellation or termination only after a close has left its reason; a
\* transport that ends without a reader has that reason or a result already.
WinPtyEnds ==
    /\ WinPtyExplains(result) /\ WinPtyExplains(reader.kind)
    /\ reader.at = "JoinChild" => closeReason # "None"
    /\ State \in Ending /\ reader.at = "None" => closeReason # "None" \/ result # "None"
    /\ \A c \in WinPty!Callers : closer[c].kind # "None" => closeReason # "None" \/ result # "None"

\* A step keeps a cause for every result.
LEMMA WinPtyEndsStep ==
    ASSUME WinPtyLife, WinPtyEnds, [WinPty!Next]_(WinPty!vars)
    PROVE  WinPtyEnds'
<1> DEFINE Grows == /\ childExited => childExited'
                    /\ closeReason # "None" => closeReason' # "None"
                    /\ result # "None" => result' # "None"
           Caused == closeReason # "None" \/ result # "None"
           KindsKept == \A c \in WinPty!Callers : closer'[c].kind \in {"None", closer[c].kind}
           Seen == /\ reader' = reader \/ WinPtyExplains(reader'.kind)
                   /\ reader'.at = "JoinChild" => reader' = reader \/ closeReason # "None"
           Left == State' \in Ending /\ reader'.at = "None" =>
                       \/ State \in Ending /\ reader.at = "None"
                       \/ closeReason' # "None" \/ result' # "None"
<1>1. ASSUME Grows, result' = result \/ WinPtyExplains(result'), KindsKept, Seen, Left
      PROVE  WinPtyEnds'
  <2>1. WinPtyExplains(result') /\ WinPtyExplains(reader'.kind)
    BY <1>1, Zenon DEF WinPtyEnds
  <2>2. WinPtyExplains(result)' /\ WinPtyExplains(reader.kind)'
    BY <1>1, <2>1 DEF WinPtyExplains
  <2>3. reader'.at = "JoinChild" => closeReason' # "None"
    BY <1>1, Zenon DEF WinPtyEnds
  <2>4. Caused => closeReason' # "None" \/ result' # "None"
    BY <1>1, Zenon
  <2>5. State' \in Ending /\ reader'.at = "None" => closeReason' # "None" \/ result' # "None"
    BY <1>1, <2>4, Zenon DEF WinPtyEnds
  <2>6. ASSUME NEW c \in WinPty!Callers, closer'[c].kind # "None"
        PROVE  closeReason' # "None" \/ result' # "None"
    BY <1>1, <2>4, <2>6, Zenon DEF WinPtyEnds
  <2> QED BY <2>2, <2>3, <2>5, <2>6, Zenon DEF WinPtyEnds
<1>2. ASSUME UNCHANGED <<State, reader>> PROVE Seen /\ Left
  BY <1>2, Zenon
<1>3. ASSUME UNCHANGED <<closeReason, childExited, result>> PROVE Grows
  BY <1>3, Zenon
<1>4. ASSUME UNCHANGED closer PROVE KindsKept
  BY <1>4, Zenon
<1>5. CASE WinPty!StartAsync
  <2>1. Left
    BY <1>5 DEF WinPty!StartAsync, Ending
  <2> QED BY <1>1, <1>3, <1>4, <1>5, <2>1, Zenon DEF WinPty!StartAsync
<1>6. CASE WinPty!StartRuns
  <2>1. reader'.kind = "None" /\ reader'.at = "Reading"
    BY <1>6 DEF WinPty!StartRuns, WinPty!At
  <2>2. Seen /\ Left
    BY <2>1 DEF WinPtyExplains
  <2> QED BY <1>1, <1>3, <1>4, <1>6, <2>2, Zenon DEF WinPty!StartRuns
<1>7. CASE WinPty!StartThrows
  <2>1. WinPtyExplains(result') /\ result' # "None"
    BY <1>7 DEF WinPty!StartThrows, WinPtyExplains
  <2> QED BY <1>1, <1>4, <1>7, <2>1, Zenon DEF WinPty!StartThrows
<1>8. CASE \E w \in Writers : WinPty!BeginWrite(w) \/ WinPty!PeerReads(w) \/ WinPty!Writer(w)
  BY <1>1, <1>2, <1>3, <1>4, <1>8, WriterStep, Zenon
<1>9. CASE WinPty!Disposing \/ UNCHANGED WinPty!vars
  <2>1. UNCHANGED <<State, reader, closeReason, childExited, result, closer>>
    BY <1>9 DEF WinPty!Disposing, WinPty!DisposeJoined, WinPty!DisposeReleases,
       WinPty!closeVars, WinPty!vars
  <2> QED BY <1>1, <1>2, <1>3, <1>4, <2>1, Zenon
<1>10. CASE WinPty!ChildExits
  BY <1>1, <1>2, <1>4, <1>10, Zenon DEF WinPty!ChildExits
<1>11. CASE WinPty!Reader
  <2>1. UNCHANGED <<closer, childExited, closeReason>>
    BY <1>11, ReaderStep, Zenon
  <2>2. ASSUME reader'.at # "None",
               reader'.at = "JoinChild" => closeReason # "None",
               WinPtyExplains(reader'.kind),
               result' = result \/ (WinPtyExplains(result') /\ result = "None")
        PROVE  WinPtyEnds'
    BY <1>1, <1>4, <2>1, <2>2, Zenon
  <2>3. WinPtyExplains("None") /\ WinPtyExplains("ConnectionFailure")
    BY DEF WinPtyExplains
  <2>4. CASE \/ WinPty!ReadData \/ WinPty!ReadEnds \/ WinPty!Deliver \/ WinPty!ReaderFaults
    <3>1. UNCHANGED result
      BY <2>4 DEF WinPty!ReadData, WinPty!ReadEnds, WinPty!Deliver, WinPty!ReaderFaults,
         WinPty!quietVars
    <3>2. reader'.kind = "None" /\ reader'.at \notin {"None", "JoinChild"}
      BY <2>4 DEF WinPty!ReadData, WinPty!ReadEnds, WinPty!Deliver, WinPty!ReaderFaults,
         WinPty!At
    <3> QED BY <2>2, <2>3, <3>1, <3>2, Zenon
  <2>5. CASE WinPty!ReaderLooks
    <3>1. UNCHANGED result /\ reader'.kind = "None" /\ reader'.at # "None"
      BY <2>5 DEF WinPty!ReaderLooks, WinPty!quietVars, WinPty!At
    <3>2. reader'.at = "JoinChild" => closeReason # "None"
      BY <2>5 DEF WinPty!ReaderLooks, WinPty!At
    <3> QED BY <2>2, <2>3, <3>1, <3>2, Zenon
  <2>6. CASE WinPty!ReaderJoinsChild \/ WinPty!ReaderSettles \/ WinPty!ReaderThrows
    <3>1. UNCHANGED result /\ reader'.at = "Settling"
      BY <2>6 DEF WinPty!ReaderJoinsChild, WinPty!ReaderSettles, WinPty!ReaderThrows,
         WinPty!CompletesAs, WinPty!quietVars, WinPty!At
    <3>2. ASSUME NEW exited \in BOOLEAN, exited => childExited, closeReason # "None"
          PROVE  WinPtyExplains(WinPty!KindFromClose(exited))
      BY <3>2 DEF WinPty!KindFromClose, WinPtyExplains
    <3>3. WinPtyExplains(WinPty!ThrownKind)
      BY <2>3, <3>2, Zenon DEF WinPty!ThrownKind
    <3>4. CASE WinPty!ReaderJoinsChild
      <4>1. closeReason # "None" /\ reader'.kind = WinPty!KindFromClose(WinPty!NaturalEnd)
        BY <3>4 DEF WinPty!ReaderJoinsChild, WinPty!ReaderAt, WinPty!CompletesAs,
           WinPty!At, WinPtyEnds
      <4>2. WinPty!NaturalEnd \in BOOLEAN /\ (WinPty!NaturalEnd => childExited)
        BY Zenon DEF WinPty!NaturalEnd
      <4> QED BY <2>2, <3>1, <3>2, <4>1, <4>2
    <3>5. CASE WinPty!ReaderSettles
      <4>1. reader'.kind = IF WinPty!NaturalEnd THEN "ReportedExit" ELSE WinPty!ThrownKind
        BY <3>5 DEF WinPty!ReaderSettles, WinPty!CompletesAs, WinPty!At
      <4>2. WinPty!NaturalEnd => WinPtyExplains("ReportedExit")
        BY DEF WinPty!NaturalEnd, WinPtyExplains
      <4> QED BY <2>2, <3>1, <3>3, <4>1, <4>2, Zenon
    <3>6. CASE WinPty!ReaderThrows
      <4>1. reader'.kind = WinPty!ThrownKind
        BY <3>6 DEF WinPty!ReaderThrows, WinPty!CompletesAs, WinPty!At
      <4> QED BY <2>2, <3>1, <3>3, <4>1, Zenon
    <3> QED BY <2>6, <3>4, <3>5, <3>6
  <2>7. WinPtyExplains(reader.kind)
    BY Zenon DEF WinPtyEnds
  <2>8. CASE WinPty!ReaderCloses \/ WinPty!ReaderReleases \/ WinPty!ReaderPublishes
    <3>1. /\ UNCHANGED result /\ reader'.kind = reader.kind
          /\ reader'.at \notin {"None", "JoinChild"}
      BY <2>8, SMTT(30) DEF WinPty!ReaderCloses, WinPty!ReaderReleases,
         WinPty!ReaderPublishes, WinPty!At
    <3> QED BY <2>2, <2>7, <3>1, Zenon
  <2>9. CASE WinPty!ReaderCompletes
    <3>1. /\ result' = WinPty!TrySet(reader.kind) /\ reader'.kind = reader.kind
          /\ reader'.at = "Done"
      BY <2>9 DEF WinPty!ReaderCompletes, WinPty!At
    <3> QED BY <2>2, <2>7, <3>1, Zenon DEF WinPty!TrySet
  <2> QED BY <1>11, <2>4, <2>5, <2>6, <2>8, <2>9, Zenon DEF WinPty!Reader
<1>12. ASSUME NEW c \in WinPty!Callers, NEW place, WinPty!Move(c, place) PROVE KindsKept
  BY <1>12 DEF WinPty!Move, WinPty!At, WinPtyLife
<1>13. CASE \/ \E c \in Closers : \E reason \in CloseReasons : WinPty!CloseAsync(c, reason)
            \/ WinPty!Dispose
  <2>1. UNCHANGED <<reader, childExited, result>>
    BY <1>13, Zenon DEF WinPty!CloseAsync, WinPty!Dispose, WinPty!closeVars
  <2>2. PICK c \in WinPty!Callers, reason \in WinPty!TerminalCloseReason :
           WinPty!CloseCalled(c, reason)
    BY <1>13, Reasons DEF WinPty!CloseAsync, WinPty!Dispose, WinPty!Callers,
       WinPty!TerminalCloseReason
  <2>3. /\ WinPty!Move(c, "Looking")
        /\ UNCHANGED <<State, closeReason>> \/ closeReason' # "None"
    BY <2>2 DEF WinPty!CloseCalled, WinPty!TerminalCloseReason
  <2> QED BY <1>1, <1>12, <2>1, <2>3, Zenon
<1>14. ASSUME NEW c \in WinPty!Callers, WinPty!Closer(c) PROVE WinPtyEnds'
  <2>1. UNCHANGED <<reader, childExited, closeReason>> /\ closer[c].at # "None"
    BY <1>14, CloserStep, Zenon
  <2>2. Seen /\ Left
    BY <2>1, Zenon DEF WinPtyLife
  <2>3. ASSUME NEW place, CloserMoves(c, place) PROVE WinPtyEnds'
    BY <1>1, <1>3, <1>12, <2>1, <2>2, <2>3, Zenon DEF CloserMoves
  <2>4. CASE WinPty!CloseAlone(c)
    <3>1. Caused /\ UNCHANGED <<State, result>>
      BY <2>1, <2>4, Zenon DEF WinPty!CloseAlone, WinPty!ReaderAt, WinPtyLife, WinPtyEnds
    <3>2. WinPtyExplains(result') /\ WinPtyExplains(reader'.kind)
      BY <2>1, <3>1, Zenon DEF WinPtyEnds
    <3>3. \A d \in WinPty!Callers : closer[d].kind # "None" => Caused
      BY <3>1, Zenon
    <3> QED BY <2>1, <3>1, Zenon DEF WinPtyEnds, WinPtyExplains
  <2>5. CASE WinPty!CloseReleases(c) \/ WinPty!ClosePublishes(c)
    <3>1. KindsKept /\ UNCHANGED result
      BY <2>5, SMTT(30) DEF WinPty!CloseReleases, WinPty!ClosePublishes, WinPty!At,
         WinPtyLife
    <3> QED BY <1>1, <1>3, <2>1, <2>2, <3>1, Zenon
  <2>6. CASE WinPty!CloseCompletes(c)
    <3>1. /\ result' = WinPty!TrySet(closer[c].kind) /\ WinPty!Move(c, "Done")
          /\ closer[c].kind \in CloserKinds
      BY <2>6, Zenon DEF WinPty!CloseCompletes, WinPtyLife
    <3>2. result' = result \/ (result = "None" /\ WinPtyExplains(result'))
      BY <3>1 DEF WinPty!TrySet, WinPtyEnds, WinPtyExplains, CloserKinds
    <3> QED BY <1>1, <1>12, <2>1, <2>2, <3>1, <3>2, Zenon
  <2> QED BY <1>14, <2>3, <2>4, <2>5, <2>6, CloserStep, Zenon
<1> QED
  BY <1>5, <1>6, <1>7, <1>8, <1>9, <1>10, <1>11, <1>13, <1>14, Zenon DEF WinPty!Next

-----------------------------------------------------------------------------
\* Either transport.

SshInv == SshLife /\ SshGate /\ SshJoin /\ SshCalls /\ SshFresh /\ SshEnds
WinPtyInv == WinPtyLife /\ WinPtyGate /\ WinPtyJoin /\ WinPtyEnds
TransportInv ==
    \/ kind = "Ssh" /\ SshInv
    \/ kind = "WinPty" /\ WinPtyInv

\* Before the start.
LEMMA InitTransport == Init => TransportInv /\ Contract!Init
<1> SUFFICES ASSUME Init PROVE TransportInv /\ Contract!Init
  OBVIOUS
<1>1. CASE kind = "Ssh" /\ Ssh!Init
  <2>1. SshLife /\ Contract!Init
    BY <1>1, SshLifeInit
  <2>2. SshGate /\ SshJoin /\ SshEnds
    BY <1>1 DEF Ssh!Init, Ssh!NoOne, Ssh!BeforeGate, Ssh!StartEnded, SshInGate, SshGate,
       SshJoin, SshEnds, SshExplains
  <2>3. SshCalls /\ SshFresh
    BY <1>1 DEF Ssh!Init, Ssh!Finishers, SshCalls, SshFresh, Untouched
  <2> QED BY <1>1, <2>1, <2>2, <2>3 DEF TransportInv, SshInv
<1>2. CASE kind = "WinPty" /\ WinPty!Init
  <2>1. WinPtyLife /\ Contract!Init
    BY <1>2, WinPtyLifeInit
  <2>2. WinPtyGate
    BY <1>2, Zenon DEF WinPty!Init, WinPty!HandlesAlive, WinPtyGate, WinPtyPlaces, InGate
  <2>3. WinPtyJoin /\ WinPtyEnds
    BY <1>2 DEF WinPty!Init, WinPty!NotRunning, WinPty!At, WinPtyJoin, ReaderFits,
       CloserFits, Completes, DisposeFits, WinPtyEnds, WinPtyExplains, Ending
  <2> QED BY <1>2, <2>1, <2>2, <2>3 DEF TransportInv, WinPtyInv
<1> QED BY <1>1, <1>2 DEF Init

\* Every step keeps the invariant and is a step of the contract.
LEMMA TransportStep ==
    ASSUME TransportInv, [Next]_vars
    PROVE  TransportInv' /\ [Contract!Next]_(Contract!vars)
<1>1. Ssh!SshAssumption /\ WinPty!WinPtyAssumption
  BY TransportsAssumption
<1>2. kind' = kind
  BY DEF Next, IsSsh, IsWinPty, vars
<1>3. CASE kind = "Ssh"
  <2>1. SshInv
    BY <1>3 DEF TransportInv
  <2>2. [Ssh!Next]_(Ssh!vars)
    BY <1>3 DEF Next, IsWinPty, vars, sshOnly, Ssh!vars, Ssh!finishVars, Ssh!peerVars
  <2>3. SshLife' /\ [Contract!Next]_(Contract!vars)
    BY <1>1, <1>2, <1>3, <2>1, <2>2, SshLifeStep DEF SshInv
  <2>4. SshGate' /\ SshJoin' /\ SshEnds'
    BY <1>1, <2>1, <2>2, SshGateStep, SshJoinStep, SshEndsStep DEF SshInv
  <2>5. SshCalls' /\ SshFresh'
    BY <1>1, <2>1, <2>2, SshCallsStep, SshFreshStep DEF SshInv
  <2> QED BY <1>2, <1>3, <2>3, <2>4, <2>5 DEF TransportInv, SshInv
<1>4. CASE kind = "WinPty"
  <2>1. WinPtyInv
    BY <1>4 DEF TransportInv
  <2>2. [WinPty!Next]_(WinPty!vars)
    BY <1>4 DEF Next, IsSsh, vars, winPtyOnly, WinPty!vars
  <2>3. WinPtyLife' /\ [Contract!Next]_(Contract!vars)
    BY <1>2, <1>4, <2>1, <2>2, WinPtyLifeStep DEF WinPtyInv
  <2>4. WinPtyGate' /\ WinPtyJoin' /\ WinPtyEnds'
    BY <1>1, <2>1, <2>2, WinPtyGateStep, WinPtyJoinStep, WinPtyEndsStep DEF WinPtyInv
  <2> QED BY <1>2, <1>4, <2>3, <2>4 DEF TransportInv, WinPtyInv
<1> QED BY <1>3, <1>4 DEF TransportInv

\* The invariant holds throughout.
LEMMA TransportInvariant == Spec => []TransportInv
BY InitTransport, TransportStep, PTL DEF Spec

\* For any writers and closers, each transport is what TerminalSession takes
\* it for: it runs only out of its start, never again once it is closing, and
\* its one result is final.
THEOREM TransportsImplement == Spec => ImplementsTransport
<1>1. Init => Contract!Init
  BY InitTransport
<1>2. TransportInv /\ [Next]_vars => [Contract!Next]_(Contract!vars)
  BY TransportStep
<1> QED
  BY <1>1, <1>2, TransportInvariant, PTL DEF Spec, ImplementsTransport, Contract!Spec

\* What the invariant says of a close that has returned.
LEMMA InvSettles == TransportInv => CloseSettles
<1> SUFFICES ASSUME TransportInv PROVE CloseSettles
  OBVIOUS
<1>1. CASE kind = "Ssh"
  <2>1. SshInv
    BY <1>1 DEF TransportInv
  <2>2. ASSUME close = "Done", NEW w \in Writers PROVE ~Busy(w) /\ writer[w] # "Finishing"
    BY <2>1, <2>2 DEF SshInv, SshGate, Ssh!BeforeGate, Passive, Busy
  <2>3. close = "Done" => owned = {} /\ result # "None" /\ Ssh!StartEnded
    BY <2>1 DEF SshInv, SshJoin
  <2> QED BY <1>1, <2>2, <2>3 DEF CloseSettles, SshSettled
<1>2. CASE kind = "WinPty"
  BY <1>2 DEF TransportInv, WinPtyInv, WinPtyLife, WinPtyJoin, CloserFits, CloseSettles,
     WinPtySettled
<1> QED BY <1>1, <1>2 DEF TransportInv

\* What it says of a transport that is disposed.
LEMMA InvUsed == TransportInv => UsedAlive
<1> SUFFICES ASSUME TransportInv PROVE UsedAlive
  OBVIOUS
<1>1. CASE kind = "Ssh"
  <2>1. SshInv
    BY <1>1 DEF TransportInv
  <2>2. SshSettled
    BY <1>1, InvSettles DEF CloseSettles
  <2>3. dispose = "Done" => close = "Done" /\ Ssh!ReaderEnded
    BY <2>1 DEF SshInv, SshJoin
  <2>4. close = "Done" => finishGate = "NoOne" /\ lifetime
    BY <2>1, Zenon DEF SshInv, SshLife, SshJoin
  <2>5. close = "Done" => \A w \in Writers : Passive(w, writer[w])
    BY <2>1, Zenon DEF SshInv, SshGate, Ssh!BeforeGate
  <2>6. ASSUME dispose = "Done", NEW a \in Ssh!Finishers PROVE ending[a] = "None"
    BY <2>1, <2>2, <2>3, <2>6, Zenon DEF SshInv, SshCalls, SshSettled, Ssh!StartEnded,
       Ssh!ReaderEnded, Ssh!Finishers
  <2> QED BY <1>1, <2>2, <2>3, <2>4, <2>5, <2>6 DEF UsedAlive, SshUsed, SshSettled, Ssh!Gone
<1>2. CASE kind = "WinPty"
  <2>1. WinPtyInv /\ "Disposer" \in WinPty!Callers
    BY <1>2, Zenon DEF TransportInv, WinPty!Callers, WinPty!Disposer
  <2>2. ASSUME dispose = "Done" PROVE reader.at \in {"None", "Done"} \/ GaveUp
    <3>1. CloserFits("Disposer") /\ closer["Disposer"].at \in {"Done", "Threw"}
      BY <2>1, <2>2 DEF WinPtyInv, WinPtyJoin, DisposeFits
    <3>2. "Disposer" \in DOMAIN closer
      BY <2>1 DEF WinPtyInv, WinPtyLife
    <3> QED BY <3>1, <3>2, Zenon DEF CloserFits, GaveUp
  <2>3. ASSUME dispose = "Done", NEW w \in Writers
        PROVE  writer[w] \in {"Idle", "Waiting", "Holding"}
    BY <2>1, <2>3 DEF WinPtyInv, WinPtyJoin, DisposeFits, WinPtyGate, WinPty!HandlesAlive,
       WinPtyPlaces
  <2>4. WinPty!HandlesAlive
    BY <2>1 DEF WinPtyInv, WinPtyGate
  <2>5. dispose = "Done" => owned = {} /\ start # "Pending"
    BY <2>1 DEF WinPtyInv, WinPtyLife, WinPtyJoin, DisposeFits, Ending
  <2> QED BY <1>2, <2>2, <2>3, <2>4, <2>5 DEF UsedAlive, WinPtyUsed, WinPty!Gone
<1> QED BY <1>1, <1>2 DEF TransportInv

\* When a close has returned, by whatever thread and against whatever start,
\* read, write or other close it ran, nothing is open, nothing is in progress
\* and the result is out.
THEOREM TransportsCloseSettles == Spec => []CloseSettles
BY InvSettles, TransportInvariant, PTL

\* The pty and the pipe are not freed under a resize or a write, and when the
\* gates and the token go nobody is left to use them but the flush, the early
\* writes, the other closes and the abandoned reader that UsedAlive names.
THEOREM TransportsUsedAlive == Spec => []UsedAlive
BY InvUsed, TransportInvariant, PTL

\* Whoever settles the result, in whatever order, it has a cause: a clean end a
\* closed channel or a close that is no cancellation, a reported exit an exit,
\* a cancellation or termination somebody who asked for it.
THEOREM TransportsResultHonest == Spec => []ResultHonest
<1>1. TransportInv => ResultHonest
  BY DEF TransportInv, SshInv, SshEnds, WinPtyInv, WinPtyEnds, ResultHonest, SshHonest,
     WinPtyHonest
<1> QED BY <1>1, TransportInvariant, PTL
=============================================================================
