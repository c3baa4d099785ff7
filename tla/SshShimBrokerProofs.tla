------------------------ MODULE SshShimBrokerProofs ------------------------
(***************************************************************************)
(* TLAPS proofs about SshShimBroker, for every number of typed commands.   *)
(***************************************************************************)
EXTENDS SshShimBroker, SequenceTheorems, TLAPS

\* A frame of this kind is in the pipe.
Within(frame, frames) == \E i \in DOMAIN frames : frames[i] = frame

\* The shim has had the host's decision to embed it.
Accepted(s) == shim[s] \in {"AwaitComplete", "Exited"}

\* The pipe is empty once the broker is stopped, and a broken stream keeps
\* its client.
PipeFits ==
    /\ stopped => toHost = <<>> /\ toShim = <<>> /\ ~linked
    /\ broken /\ broker # "Stopped" => client # NoShim
    /\ broker = "Stopped" => stopped

\* The barrier frame comes from a shim that has been accepted, and the
\* broker goes beyond it for such a shim only.
BarrierFits ==
    /\ Within("Barrier", toHost) => client # NoShim /\ Accepted(client)
    /\ broker \in {"Waiting", "Handle", "Complete"} => Accepted(client)
    /\ tail \subseteq committed
    /\ broker = "Waiting" => client \in committed \/ waiter = client

\* What the handler has done, by the broker's place.
ResultFits ==
    /\ client # NoShim /\ (\/ broker \in {"Hello", "Request", "Identify", "Barrier", "Waiting"}
                           \/ broker = "Listen" /\ ~broken)
         => result[client] = "None"
    /\ broker = "Handle" => result[client] = "Running"
    /\ broker = "Complete" => result[client] \in {"0", "255"}
    /\ \A s \in Shims : result[s] # "None" => Accepted(s)

\* A success in the pipe is the handler's, and nothing follows it.
CompletionFits ==
    Within("0", toShim) =>
        /\ client # NoShim /\ result[client] = "0"
        /\ broker = "Disconnect" \/ (broker = "Listen" /\ broken)

Inv == /\ TypeOK /\ PipeFits /\ BarrierFits /\ ResultFits /\ CompletionFits
       /\ BarrierFirst /\ ZeroIsEarned

-----------------------------------------------------------------------------
\* What is in the pipe when a frame has been read.
LEMMA TailWithin ==
    ASSUME NEW frames \in Seq(Frames), frames # <<>>
    PROVE  /\ Tail(frames) \in Seq(Frames) /\ Head(frames) \in Frames
           /\ Within(Head(frames), frames)
           /\ \A frame : Within(frame, Tail(frames)) => Within(frame, frames)
<1>1. /\ Head(frames) = frames[1] /\ Head(frames) \in Frames
      /\ Tail(frames) \in Seq(Frames) /\ Len(Tail(frames)) = Len(frames) - 1
      /\ \A i \in 1..Len(Tail(frames)) : Tail(frames)[i] = frames[i + 1]
      /\ Len(frames) \in Nat \ {0}
    BY HeadTailProperties, EmptySeq, LenProperties
<1>2. DOMAIN frames = 1..Len(frames) /\ DOMAIN Tail(frames) = 1..Len(Tail(frames))
    BY <1>1, LenProperties
<1>3. 1 \in DOMAIN frames
    BY <1>1, <1>2
<1>4. ASSUME NEW i \in DOMAIN Tail(frames)
      PROVE  i + 1 \in DOMAIN frames /\ frames[i + 1] = Tail(frames)[i]
    BY <1>1, <1>2
<1> QED
    BY <1>1, <1>3, <1>4 DEF Within

\* What is in the pipe when a frame has been written.
LEMMA AppendWithin ==
    ASSUME NEW frames \in Seq(Frames), NEW new \in Frames
    PROVE  /\ Append(frames, new) \in Seq(Frames)
           /\ \A frame : Within(frame, Append(frames, new)) => frame = new \/ Within(frame, frames)
<1>1. /\ Append(frames, new) \in Seq(Frames)
      /\ Len(Append(frames, new)) = Len(frames) + 1
      /\ \A i \in 1..Len(frames) : Append(frames, new)[i] = frames[i]
      /\ Append(frames, new)[Len(frames) + 1] = new
      /\ Len(frames) \in Nat
    BY AppendProperties, LenProperties
<1>2. DOMAIN frames = 1..Len(frames) /\ DOMAIN Append(frames, new) = 1..(Len(frames) + 1)
    BY <1>1, LenProperties
<1>3. ASSUME NEW i \in DOMAIN Append(frames, new)
      PROVE  Append(frames, new)[i] = new \/ (i \in DOMAIN frames /\ Append(frames, new)[i] = frames[i])
    BY <1>1, <1>2
<1> QED
    BY <1>1, <1>3 DEF Within

\* A new or an empty pipe.
LEMMA EmptyWithin ==
    /\ <<>> \in Seq(Frames) /\ \A frame : ~Within(frame, <<>>)
    /\ <<"Hello">> \in Seq(Frames) /\ \A frame : Within(frame, <<"Hello">>) => frame = "Hello"
    BY DEF Within, Frames

\* The invariant holds initially.
LEMMA InitInv == Init => Inv
<1> SUFFICES ASSUME Init PROVE Inv
    OBVIOUS
<1>1. TypeOK
    BY EmptyWithin, Zenon DEF Init, TypeOK
<1> QED
    BY <1>1, EmptyWithin DEF Init, Inv, PipeFits, BarrierFits, ResultFits, CompletionFits,
       BarrierFirst, ZeroIsEarned

\* The steps of a shim that leave the pipe alone, but for its own end of it.
LEMMA ShimAloneInv ==
    ASSUME Inv, NEW s \in Shims,
           Launch(s) \/ FallBack(s) \/ ReadBroken(s) \/ Kill(s)
    PROVE  Inv'
<1>1. TypeOK'
    BY ZenonT(30) DEF Inv, TypeOK, Launch, FallBack, LaunchSystem, ReadBroken, Kill, Exit,
       brokerVars, pipeVars, hostVars
<1>2. shim[s] # "Exited" /\ (\A r \in Shims \ {s} : shim'[r] = shim[r])
    BY DEF Inv, TypeOK, Launch, FallBack, LaunchSystem, ReadBroken, Kill, Exit
<1>3. Accepted(s) => shim'[s] = "Exited"
    BY DEF Inv, TypeOK, Accepted, Launch, FallBack, LaunchSystem, ReadBroken, Kill, Exit
<1>4. \A r \in Shims : Accepted(r) => Accepted(r)'
    BY <1>2, <1>3 DEF Accepted
<1>5. UNCHANGED <<brokerVars, toHost, toShim, hostVars>> /\ (linked' => linked)
    <2>1. UNCHANGED <<brokerVars, toHost, toShim, hostVars>>
        BY DEF Launch, FallBack, ReadBroken, Kill, pipeVars
    <2>2. linked' = linked \/ linked' = (linked /\ client # s)
        BY Zenon DEF Launch, FallBack, ReadBroken, Kill, Exit, pipeVars
    <2> QED
        BY <2>1, <2>2 DEF Inv, TypeOK
<1>6. \A r \in Shims : status'[r] = "0" => status[r] = "0"
    BY DEF Inv, TypeOK, Launch, FallBack, ReadBroken, Kill, Exit
<1>7. PipeFits'
    BY <1>5 DEF Inv, PipeFits, brokerVars
<1>8. BarrierFits'
    BY <1>4, <1>5 DEF Inv, TypeOK, BarrierFits, brokerVars, hostVars
<1>9. ResultFits'
    BY <1>4, <1>5 DEF Inv, TypeOK, ResultFits, brokerVars, hostVars
<1>10. CompletionFits' /\ BarrierFirst' /\ ZeroIsEarned'
    BY <1>5, <1>6 DEF Inv, CompletionFits, BarrierFirst, ZeroIsEarned, brokerVars,
       hostVars
<1> QED
    BY <1>1, <1>7, <1>8, <1>9, <1>10 DEF Inv

\* A shim opens the pipe.
LEMMA ConnectInv ==
    ASSUME Inv, NEW s \in Shims, Connect(s)
    PROVE  Inv'
<1>1. TypeOK'
    BY EmptyWithin, ShimAssumption DEF Inv, TypeOK, Connect, hostVars
<1>2. /\ \A r \in Shims : Accepted(r) => Accepted(r)'
      /\ client' = s /\ ~Accepted(s) /\ result[s] = "None" /\ broker = "Listen" /\ ~stopped
    BY DEF Inv, TypeOK, Accepted, Connect, ResultFits
<1>3. /\ UNCHANGED <<broker, stopped, broken, status, committed, tail, waiter, result>>
      /\ \A frame : ~Within(frame, toShim') /\ (Within(frame, toHost') => frame = "Hello")
    BY EmptyWithin DEF Connect, hostVars
<1>4. PipeFits' /\ BarrierFirst' /\ ZeroIsEarned'
    BY <1>2, <1>3, ShimAssumption DEF Inv, TypeOK, PipeFits, BarrierFirst, ZeroIsEarned
<1>5. BarrierFits'
    BY <1>2, <1>3 DEF Inv, TypeOK, BarrierFits
<1>6. ResultFits' /\ CompletionFits'
    BY <1>2, <1>3 DEF Inv, TypeOK, ResultFits, CompletionFits
<1> QED
    BY <1>1, <1>4, <1>5, <1>6 DEF Inv

\* The connected shim reads a frame, answers it, or ends on it.
LEMMA ShimReadsInv ==
    ASSUME Inv, NEW s \in Shims,
           \/ ReadChallenge(s) \/ ReadSystem(s) \/ ReadReject(s) \/ ReadEmbedded(s)
           \/ BarrierFails(s) \/ ReadComplete(s)
    PROVE  Inv'
<1> USE DEF ReadChallenge, ReadSystem, ReadReject, ReadEmbedded, BarrierFails, ReadComplete,
            LaunchSystem, Exit
<1>1. /\ toShim \in Seq(Frames) /\ toShim # <<>> /\ toShim' = Tail(toShim) /\ client = s
      /\ UNCHANGED <<brokerVars, hostVars>>
    BY Zenon DEF Inv, TypeOK
<1>2. /\ toShim' \in Seq(Frames) /\ Within(Head(toShim), toShim)
      /\ \A frame : Within(frame, toShim') => Within(frame, toShim)
    BY <1>1, TailWithin
<1>3. toHost' \in {toHost, Append(toHost, "Request"), Append(toHost, "Barrier")}
    BY Zenon
<1>4. /\ toHost' \in Seq(Frames)
      /\ \A frame : Within(frame, toHost') => frame \in {"Request", "Barrier"} \/ Within(frame, toHost)
    <2> HIDE DEF ReadChallenge, ReadSystem, ReadReject, ReadEmbedded, BarrierFails, ReadComplete
    <2>1. toHost \in Seq(Frames) /\ "Request" \in Frames /\ "Barrier" \in Frames
        BY DEF Inv, TypeOK, Frames
    <2> QED
        BY <1>3, <2>1, AppendWithin, Zenon
<1>5. linked' \in BOOLEAN /\ (linked' => linked)
    <2>1. linked' = linked \/ linked' = (linked /\ client # s)
        BY Zenon
    <2> HIDE DEF ReadChallenge, ReadSystem, ReadReject, ReadEmbedded, BarrierFails, ReadComplete
    <2>2. linked \in BOOLEAN /\ (client # s) \in BOOLEAN
        BY DEF Inv, TypeOK
    <2>3. (linked /\ client # s) \in BOOLEAN
        BY <2>2
    <2>4. linked' \in BOOLEAN
        BY <2>1, <2>2, <2>3, Zenon
    <2>5. linked' => linked
        BY <2>1, <2>2, <2>4, Zenon
    <2> QED
        BY <2>4, <2>5
<1>6. TypeOK'
    BY <1>1, <1>2, <1>4, <1>5 DEF Inv, TypeOK, brokerVars, hostVars
<1>7. \A r \in Shims : Accepted(r) => Accepted(r)'
    BY DEF Inv, TypeOK, Accepted
<1>8. Within("Barrier", toHost') => Within("Barrier", toHost) \/ Accepted(s)'
    <2>1. CASE ReadEmbedded(s)
        BY <2>1 DEF Inv, TypeOK, Accepted
    <2>2. CASE ReadChallenge(s)
        BY <2>2, AppendWithin DEF Inv, TypeOK, Frames
    <2>3. CASE toHost' = toHost
        BY <2>3
    <2> QED
        BY <2>1, <2>2, <2>3, Zenon
<1>9. \A r \in Shims : status'[r] = "0" => status[r] = "0" \/ result[r] = "0"
    BY <1>1, <1>2 DEF Inv, TypeOK, CompletionFits
<1>10. ~stopped
    BY <1>1 DEF Inv, PipeFits
<1>11. PipeFits' /\ BarrierFirst' /\ ZeroIsEarned'
    BY <1>1, <1>5, <1>9, <1>10 DEF Inv, PipeFits, BarrierFirst, ZeroIsEarned, brokerVars,
       hostVars
<1>12. BarrierFits'
    BY <1>1, <1>7, <1>8, ShimAssumption DEF Inv, TypeOK, BarrierFits, brokerVars, hostVars
<1>13. ResultFits'
    BY <1>1, <1>7 DEF Inv, TypeOK, ResultFits, brokerVars, hostVars
<1>14. CompletionFits'
    BY <1>1, <1>2 DEF Inv, CompletionFits, brokerVars, hostVars
<1> QED
    BY <1>6, <1>11, <1>12, <1>13, <1>14 DEF Inv

\* The host's own steps.
LEMMA HostInv ==
    ASSUME Inv, SetRootProcess \/ \E s \in Shims : Commit(s) \/ Scroll(s)
    PROVE  Inv'
<1>1. CASE SetRootProcess
    <2>1. UNCHANGED <<broker, stopped, broken, client, pipeVars, shimVars, hostVars>> /\ rootKnown' = TRUE
        BY <1>1 DEF SetRootProcess
    <2>2. TypeOK'
        BY <2>1 DEF Inv, TypeOK, pipeVars, shimVars, hostVars
    <2> QED
        BY <2>1, <2>2 DEF Inv, PipeFits, BarrierFits, ResultFits, CompletionFits,
           BarrierFirst, ZeroIsEarned, Accepted, pipeVars, shimVars, hostVars
<1>2. CASE \E s \in Shims : Commit(s) \/ Scroll(s)
    <2>1. PICK s \in Shims : Commit(s) \/ Scroll(s)
        BY <1>2
    <2>2. /\ UNCHANGED <<brokerVars, pipeVars, shimVars, refused, result, resumed>>
          /\ committed \subseteq committed' /\ committed' \subseteq Shims /\ tail' \subseteq committed'
          /\ waiter' \in {waiter, NoShim} /\ (waiter' # waiter => waiter \in committed')
        BY <2>1 DEF Inv, TypeOK, BarrierFits, Commit, Scroll
    <2>3. TypeOK'
        BY <2>2 DEF Inv, TypeOK, brokerVars, pipeVars, shimVars
    <2>4. BarrierFits'
        BY <2>2 DEF Inv, TypeOK, BarrierFits, Accepted, brokerVars, pipeVars, shimVars
    <2> QED
        BY <2>2, <2>3, <2>4 DEF Inv, PipeFits, ResultFits, CompletionFits, BarrierFirst,
           ZeroIsEarned, Accepted, brokerVars, pipeVars, shimVars
<1> QED
    BY <1>1, <1>2

\* The steps of the broker that move it on and touch nothing else.
LEMMA BrokerMovesInv ==
    ASSUME Inv, Accept \/ RequestThrows \/ BarrierTimesOut \/ WaitThrows \/ RunEnds
    PROVE  Inv'
<1>1. UNCHANGED <<stopped, rootKnown, pipeVars, shimVars, hostVars>>
    BY DEF Accept, RequestThrows, BarrierTimesOut, WaitThrows, RunEnds
<1>2. TypeOK'
    <2>1. broken' \in BOOLEAN
        BY Zenon DEF Inv, TypeOK, Accept, RequestThrows, MeetsClient, BarrierTimesOut,
           WaitThrows, RunEnds
    <2> QED
        BY <1>1, <2>1 DEF Inv, TypeOK, PipeFits, Accept, RequestThrows, BarrierTimesOut,
           WaitThrows, RunEnds, pipeVars, shimVars, hostVars
<1>3. BarrierFirst' /\ ZeroIsEarned'
    BY <1>1 DEF Inv, BarrierFirst, ZeroIsEarned, shimVars, hostVars
<1>4. CASE Accept
    BY <1>1, <1>2, <1>3, <1>4 DEF Inv, TypeOK, PipeFits, BarrierFits, ResultFits,
       CompletionFits, Accepted, Accept, pipeVars, shimVars, hostVars
<1>5. CASE RequestThrows
    BY <1>1, <1>2, <1>3, <1>5 DEF Inv, TypeOK, PipeFits, BarrierFits, ResultFits,
       CompletionFits, Accepted, RequestThrows, pipeVars, shimVars, hostVars
<1>6. CASE BarrierTimesOut \/ WaitThrows
    BY <1>1, <1>2, <1>3, <1>6 DEF Inv, TypeOK, PipeFits, BarrierFits, ResultFits,
       CompletionFits, Accepted, BarrierTimesOut, WaitThrows, pipeVars, shimVars, hostVars
<1>7. CASE RunEnds
    <2>1. stopped /\ toHost' = <<>> /\ toShim' = <<>>
        BY <1>1, <1>7 DEF Inv, PipeFits, RunEnds, pipeVars
    <2>2. ~Within("Barrier", toHost') /\ ~Within("0", toShim')
        BY <2>1, EmptyWithin
    <2> QED
        BY <1>1, <1>2, <1>3, <1>7, <2>2 DEF Inv, TypeOK, PipeFits, BarrierFits,
           ResultFits, CompletionFits, Accepted, RunEnds, pipeVars, shimVars, hostVars
<1> QED
    BY <1>4, <1>5, <1>6, <1>7

\* The broker gives the connection up, or goes away.
LEMMA BrokerLeavesInv ==
    ASSUME Inv, Disconnect \/ Dispose
    PROVE  Inv'
<1>1. UNCHANGED <<broken, rootKnown, shimVars, hostVars>>
    BY DEF Disconnect, Dispose
<1>2. \/ UNCHANGED <<client, pipeVars>> /\ broken /\ Disconnect
      \/ /\ linked' = FALSE /\ toHost' = <<>> /\ toShim' = <<>>
         /\ (Disconnect /\ ~broken /\ client' = NoShim) \/ (Dispose /\ client' = client)
    BY DEF Disconnect, Dispose, pipeVars
<1>3. TypeOK'
    BY <1>1, <1>2, EmptyWithin, Zenon DEF Inv, TypeOK, Disconnect, Dispose, pipeVars,
       shimVars, hostVars
<1>4. BarrierFirst' /\ ZeroIsEarned'
    BY <1>1 DEF Inv, BarrierFirst, ZeroIsEarned, shimVars, hostVars
<1>5. /\ Within("Barrier", toHost') => Within("Barrier", toHost) /\ client' = client
      /\ Within("0", toShim') => Within("0", toShim) /\ client' = client /\ broken /\ Disconnect
    BY <1>2, EmptyWithin DEF pipeVars
<1>6. PipeFits'
    BY <1>1, <1>2 DEF Inv, PipeFits, Disconnect, Dispose, pipeVars
<1>7. BarrierFits' /\ CompletionFits'
    BY <1>1, <1>2, <1>5 DEF Inv, TypeOK, BarrierFits, CompletionFits, Accepted,
       Disconnect, Dispose, shimVars, hostVars
<1>8. ResultFits'
    BY <1>1, <1>2 DEF Inv, TypeOK, ResultFits, Accepted, Disconnect, Dispose, shimVars,
       hostVars
<1> QED
    BY <1>3, <1>4, <1>6, <1>7, <1>8 DEF Inv

\* The broker reads a frame of the shim, or writes its decision.
LEMMA BrokerExchangesInv ==
    ASSUME Inv,
           \/ ReadHello \/ ReadRequest \/ Eligible \/ WaiterExists
           \/ \E action \in {"System", "Reject"} : Ineligible(action)
    PROVE  Inv'
<1> USE DEF ReadHello, ReadRequest, Eligible, WaiterExists, Ineligible
<1>1. /\ UNCHANGED <<stopped, broken, client, rootKnown, linked, shimVars, committed, tail, waiter, result,
                     resumed>>
      /\ broker \in {"Hello", "Request", "Identify", "Barrier"}
      /\ broker' \in {"Request", "Identify", "Barrier", "Disconnect"}
      /\ refused' \in {refused, refused \cup {client}}
    BY DEF hostVars
<1>2. toHost' = toHost \/ (toHost # <<>> /\ toHost' = Tail(toHost))
    BY Zenon
<1>3. \/ toShim' = toShim
      \/ \E new \in {"Challenge", "System", "Reject", "Embedded"} : toShim' = Append(toShim, new) /\ ~stopped
    BY DEF Inv, PipeFits
<1> HIDE DEF ReadHello, ReadRequest, Eligible, WaiterExists, Ineligible
<1>4. toHost \in Seq(Frames) /\ toShim \in Seq(Frames)
    BY DEF Inv, TypeOK
<1>5. toHost' \in Seq(Frames) /\ (Within("Barrier", toHost') => Within("Barrier", toHost))
    BY <1>2, <1>4, TailWithin, Zenon
<1>6. toShim' \in Seq(Frames) /\ (Within("0", toShim') => Within("0", toShim))
    <2>1. {"Challenge", "System", "Reject", "Embedded"} \subseteq Frames
        BY DEF Frames
    <2> QED
        BY <1>3, <1>4, <2>1, AppendWithin, Zenon
<1>7. stopped => toHost' = <<>> /\ toShim' = <<>>
    BY <1>2, <1>3 DEF Inv, PipeFits
<1>8. TypeOK'
    BY <1>1, <1>5, <1>6 DEF Inv, TypeOK, shimVars
<1>9. PipeFits' /\ BarrierFirst' /\ ZeroIsEarned'
    BY <1>1, <1>7 DEF Inv, PipeFits, BarrierFirst, ZeroIsEarned, shimVars
<1>10. BarrierFits'
    BY <1>1, <1>5 DEF Inv, BarrierFits, Accepted, shimVars
<1>11. ResultFits'
    BY <1>1 DEF Inv, TypeOK, ResultFits, Accepted, shimVars
<1>12. CompletionFits'
    BY <1>1, <1>6 DEF Inv, CompletionFits
<1> QED
    BY <1>8, <1>9, <1>10, <1>11, <1>12 DEF Inv

\* The barrier frame is in: the broker waits for the line, or runs the
\* handler.
LEMMA BarrierInv ==
    ASSUME Inv, ReadBarrier \/ BarrierCommitted
    PROVE  Inv'
<1>1. /\ UNCHANGED <<stopped, broken, client, rootKnown, linked, toShim, shimVars, committed, tail, refused, resumed>>
      /\ broker \in {"Barrier", "Waiting"} /\ client \in Shims
    BY DEF Inv, TypeOK, ReadBarrier, BarrierCommitted, pipeVars
<1>2. toHost' = toHost \/ (toHost # <<>> /\ toHost' = Tail(toHost))
    BY Zenon DEF ReadBarrier, BarrierCommitted, pipeVars
<1>3. toHost \in Seq(Frames)
    BY DEF Inv, TypeOK
<1>4. toHost' \in Seq(Frames) /\ (Within("Barrier", toHost') => Within("Barrier", toHost))
    BY <1>2, <1>3, TailWithin, Zenon
<1>5. Accepted(client)
    <2>1. CASE ReadBarrier
        <3>1. Within("Barrier", toHost)
            BY <1>3, <2>1, TailWithin DEF ReadBarrier
        <3> QED
            BY <3>1 DEF Inv, BarrierFits
    <2>2. CASE BarrierCommitted
        BY <2>2 DEF BarrierCommitted, Inv, BarrierFits
    <2> QED
        BY <2>1, <2>2
<1>6. \/ broker' = "Waiting" /\ waiter' = client /\ result' = result
      \/ /\ broker' = "Handle" /\ waiter' = waiter /\ client \in committed
         /\ result' = [result EXCEPT ![client] = "Running"]
    BY DEF Inv, BarrierFits, ReadBarrier, BarrierCommitted, Handle
<1>7. TypeOK'
    BY <1>1, <1>4, <1>6 DEF Inv, TypeOK, shimVars
<1>8. \A r \in Shims : result'[r] # result[r] => r = client /\ result[r] = "None" /\ result'[r] = "Running"
    BY <1>1, <1>6, ShimAssumption DEF Inv, TypeOK, ResultFits
<1>9. PipeFits'
    BY <1>1, <1>2, <1>6 DEF Inv, PipeFits, ReadBarrier, BarrierCommitted
<1>10. BarrierFits'
    BY <1>1, <1>4, <1>5, <1>6 DEF Inv, BarrierFits, Accepted, shimVars
<1>11. ResultFits'
    BY <1>1, <1>5, <1>6 DEF Inv, TypeOK, ResultFits, Accepted, shimVars
<1>12. CompletionFits'
    BY <1>1 DEF Inv, CompletionFits
<1>13. BarrierFirst' /\ ZeroIsEarned'
    BY <1>1, <1>6, <1>8 DEF Inv, TypeOK, BarrierFirst, ZeroIsEarned, shimVars
<1> QED
    BY <1>7, <1>9, <1>10, <1>11, <1>12, <1>13 DEF Inv

\* The handler ends.
LEMMA HandlerInv ==
    ASSUME Inv, HandlerThrows \/ \E code \in {"0", "255"} : HandlerReturns(code)
    PROVE  Inv'
<1>1. /\ UNCHANGED <<stopped, broken, client, rootKnown, pipeVars, shimVars, committed, tail, waiter, refused, resumed>>
      /\ broker = "Handle" /\ client \in Shims /\ result[client] = "Running"
      /\ \/ broker' = "Disconnect" /\ result' = [result EXCEPT ![client] = "Threw"]
         \/ broker' = "Complete" /\ \E code \in {"0", "255"} : result' = [result EXCEPT ![client] = code]
    BY DEF Inv, TypeOK, ResultFits, HandlerThrows, HandlerReturns
<1>2. TypeOK'
    BY <1>1 DEF Inv, TypeOK, pipeVars, shimVars
<1>3. \A r \in Shims : result'[r] # result[r] => r = client /\ result[r] = "Running"
    BY <1>1 DEF Inv, TypeOK
<1>4. PipeFits' /\ BarrierFits'
    BY <1>1 DEF Inv, PipeFits, BarrierFits, Accepted, pipeVars, shimVars
<1>5. ResultFits'
    BY <1>1, <1>3 DEF Inv, TypeOK, ResultFits, Accepted, pipeVars, shimVars
<1>6. CompletionFits'
    BY <1>1 DEF Inv, CompletionFits, pipeVars
<1>7. BarrierFirst' /\ ZeroIsEarned'
    BY <1>1, <1>3 DEF Inv, BarrierFirst, ZeroIsEarned, shimVars
<1> QED
    BY <1>2, <1>4, <1>5, <1>6, <1>7 DEF Inv

\* The completion frame.
LEMMA WriteCompleteInv ==
    ASSUME Inv, WriteComplete
    PROVE  Inv'
<1>1. /\ UNCHANGED <<stopped, client, rootKnown, linked, toHost, shimVars, committed, tail, waiter, refused, result>>
      /\ broker = "Complete" /\ broker' = "Disconnect" /\ resumed' = resumed \cup {client}
      /\ client \in Shims /\ result[client] \in {"0", "255"} /\ result[client] \in Frames
    BY DEF Inv, TypeOK, ResultFits, WriteComplete, Frames
<1>2. toShim \in Seq(Frames)
    BY DEF Inv, TypeOK
<1>3. toShim' = toShim \/ (toShim' = Append(toShim, result[client]) /\ ~stopped)
    BY DEF Inv, PipeFits, WriteComplete
<1>4. /\ toShim' \in Seq(Frames)
      /\ Within("0", toShim') => result[client] = "0" \/ Within("0", toShim)
    BY <1>1, <1>2, <1>3, AppendWithin, Zenon
<1>5. broken' \in BOOLEAN
    BY Zenon DEF Inv, TypeOK, WriteComplete, MeetsClient
<1>6. TypeOK'
    BY <1>1, <1>4, <1>5 DEF Inv, TypeOK, shimVars
<1>7. PipeFits'
    BY <1>1, <1>3, ShimAssumption DEF Inv, PipeFits
<1>8. BarrierFits' /\ BarrierFirst' /\ ZeroIsEarned'
    BY <1>1 DEF Inv, BarrierFits, BarrierFirst, ZeroIsEarned, Accepted, shimVars
<1>9. ResultFits'
    BY <1>1 DEF Inv, ResultFits, Accepted, shimVars
<1>10. CompletionFits'
    BY <1>1, <1>4, ShimAssumption DEF Inv, CompletionFits
<1> QED
    BY <1>6, <1>7, <1>8, <1>9, <1>10 DEF Inv

\* Every step of the broker, a shim or the user keeps the invariant.
LEMMA NextInv == Inv /\ [Next]_vars => Inv'
<1> SUFFICES ASSUME Inv, [Next]_vars PROVE Inv'
    OBVIOUS
<1>1. ASSUME NEW s \in Shims, Launch(s) \/ ShimSteps(s) \/ Kill(s) \/ Commit(s) \/ Scroll(s)
      PROVE  Inv'
    BY <1>1, ShimAloneInv, ConnectInv, ShimReadsInv, HostInv, Zenon DEF ShimSteps
<1>2. CASE BrokerSteps
    BY <1>2, BrokerMovesInv, BrokerLeavesInv, BrokerExchangesInv, BarrierInv,
       WriteCompleteInv, Zenon DEF BrokerSteps
<1>3. CASE UNCHANGED vars
  <2> USE <1>3 DEF vars, brokerVars, pipeVars, shimVars, hostVars
  <2>1. TypeOK'
      BY Zenon DEF Inv, TypeOK
  <2>2. PipeFits' /\ CompletionFits'
      BY Zenon DEF Inv, PipeFits, CompletionFits
  <2>3. BarrierFits' /\ ResultFits'
      BY Zenon DEF Inv, BarrierFits, ResultFits, Accepted
  <2>4. BarrierFirst' /\ ZeroIsEarned'
      BY Zenon DEF Inv, BarrierFirst, ZeroIsEarned, Accepted
  <2> QED BY <2>1, <2>2, <2>3, <2>4, Zenon DEF Inv
<1> QED
    BY <1>1, <1>2, <1>3, HostInv, HandlerInv, BrokerLeavesInv, Zenon DEF Next

-----------------------------------------------------------------------------
\* The inductive invariant holds in every state of the handshake.
THEOREM Invariance == Spec => []Inv
    BY InitInv, NextInv, PTL DEF Spec

\* The broker and the shims are at the steps of their programs, the broker
\* has a client through every request, and one command never becomes two
\* ssh clients: no handler runs for a shim that fell back (main.cpp's
\* RunShim against SshShimBroker's RunRequestAsync).
THEOREM OneClientEach == Spec => [](TypeOK /\ NoSecondClient)
<1>1. Inv => TypeOK /\ NoSecondClient
    BY DEF Inv, ResultFits, Accepted, NoSecondClient
<1> QED
    BY <1>1, Invariance, PTL

\* The handler of a command runs after its barrier line is committed to the
\* document (WaitForCommittedOutputAsync before HandleEmbeddedAsync).
THEOREM BarrierIsFirst == Spec => []BarrierFirst
<1>1. Inv => BarrierFirst
    BY DEF Inv
<1> QED
    BY <1>1, Invariance, PTL

\* Exit status 0 of a command is the status its handler returned.
THEOREM ZeroOnlyEarned == Spec => []ZeroIsEarned
<1>1. Inv => ZeroIsEarned
    BY DEF Inv
<1> QED
    BY <1>1, Invariance, PTL
=============================================================================
