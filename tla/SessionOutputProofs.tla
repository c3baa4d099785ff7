------------------------- MODULE SessionOutputProofs -------------------------
(***************************************************************************)
(* Proofs about SessionOutputPump and SessionOutput, for any set of        *)
(* readers, any number of slots and any bounds:                            *)
(*   PumpCallsAccounted     - every call has its slot and its chunk;       *)
(*   PumpOutputCommitted    - what is committed is what callers are told;  *)
(*   SessionRepliesOnce     - no transport is given an answer twice;       *)
(*   SessionOutputCommitted - the pump keeps its promises to the session.  *)
(***************************************************************************)
EXTENDS SessionOutput, FiniteSetTheorems, TLAPS

Chunk == [origin : Origins, seq : Nat]
Places == {"Idle", "Waiting", "Entered", "Awaiting", "Ok", "Failed"}

PumpType ==
    /\ writes \in Seq(Chunk) /\ current \in Seq(Chunk)
    /\ admitted \in Seq(Chunk) /\ text \in Seq(Chunk)
    /\ caller \in [Origins -> Places] /\ sequence \in [Origins -> Nat]
    /\ available \in Nat /\ streamGeneration \in Nat \ {0}

\* A chunk in the queue or in Drain's hands is the one that its origin's call
\* waits for, and no call has two.
Waits(chunk) == caller[chunk.origin] = "Awaiting" /\ chunk.seq = sequence[chunk.origin]
HeldInv ==
    /\ \A i \in DOMAIN writes : Waits(writes[i])
    /\ \A i, j \in DOMAIN writes : writes[i].origin = writes[j].origin => i = j
    /\ drain # "Writing" => current = <<>>
    /\ drain = "Writing" => /\ Len(current) = 1 /\ Waits(current[1])
                            /\ \A i \in DOMAIN writes : writes[i].origin # current[1].origin
    /\ \A o \in Origins : caller[o] = "Awaiting" =>
          \/ \E i \in DOMAIN writes : writes[i].origin = o
          \/ drain = "Writing" /\ current[1].origin = o

\* Nothing is queued without a Drain to come, nor after Dispose or Fail.
QueueInv ==
    /\ writes # <<>> => drainScheduled /\ ~disposed /\ ~failure
    /\ disposed \/ failure \/ completion # "None" => ~accepting
    /\ failure => completion # "Pending"

\* Until something fails, what was admitted is what is parsed, being parsed
\* and queued, in that order.
Intact == ~disposed /\ ~failure /\ drain # "Failing"
OrderInv ==
    OwnStream =>
        /\ Len(text) + Len(current) <= Len(admitted)
        /\ \A i \in DOMAIN text : text[i] = admitted[i]
        /\ drain = "Writing" => current[1] = admitted[Len(text) + 1]
        /\ Intact =>
             /\ Len(admitted) = Len(text) + Len(current) + Len(writes)
             /\ \A i \in DOMAIN writes : writes[i] = admitted[Len(text) + Len(current) + i]

\* Each caller's chunks are parsed up to the one it waits for.
Parsed(o, k) == \E i \in DOMAIN text : text[i].origin = o /\ text[i].seq = k
CallerInv ==
    OwnStream => \A o \in Origins : caller[o] # "Failed" =>
        \A k \in 1..sequence[o] :
            k < sequence[o] \/ caller[o] \in {"Idle", "Ok"} => Parsed(o, k)

EndInv ==
    /\ drain = "Ending" => ~accepting /\ completion # "None"
    /\ OwnStream /\ (completion = "Result" \/ (drain = "Ending" /\ completion = "Pending"))
          => Len(text) = Len(admitted)
    /\ OwnStream /\ completion = "Result" => ~streamActive
    /\ ~OwnStream => text = <<>>

PumpInv == PumpType /\ HeldInv /\ QueueInv /\ OrderInv /\ CallerInv /\ EndInv /\ SlotsAccounted

-----------------------------------------------------------------------------
\* Slots.

\* The calls that hold a slot.
Holders == {o \in Origins : caller[o] \in {"Entered", "Awaiting"}}

\* Two sequences with the same elements in the same places are one.
LEMMA SameSeq ==
    ASSUME NEW S, NEW s \in Seq(S), NEW t \in Seq(S), Len(s) = Len(t),
           \A i \in DOMAIN s : s[i] = t[i]
    PROVE  s = t
OBVIOUS

\* What Append adds to.
LEMMA AppendFacts ==
    ASSUME NEW S, NEW s \in Seq(S), NEW e \in S
    PROVE  /\ Append(s, e) \in Seq(S) /\ Len(Append(s, e)) = Len(s) + 1
           /\ DOMAIN Append(s, e) = 1..(Len(s) + 1) /\ Append(s, e)[Len(s) + 1] = e
           /\ \A i \in DOMAIN s : i \in DOMAIN Append(s, e) /\ Append(s, e)[i] = s[i]
OBVIOUS

\* What concatenation adds to.
LEMMA ConcatFacts ==
    ASSUME NEW S, NEW s \in Seq(S), NEW t \in Seq(S)
    PROVE  /\ s \o t \in Seq(S) /\ Len(s \o t) = Len(s) + Len(t)
           /\ DOMAIN (s \o t) = 1..(Len(s) + Len(t))
           /\ \A i \in DOMAIN s : (s \o t)[i] = s[i]
           /\ \A i \in 1..Len(t) : (s \o t)[Len(s) + i] = t[i]
OBVIOUS

\* The origin and the number of a chunk.
LEMMA ChunkAt ==
    ASSUME NEW s \in Seq(Chunk)
    PROVE  \A i \in DOMAIN s : s[i] \in Chunk /\ s[i].origin \in Origins /\ s[i].seq \in Nat
<1>1. \A c \in Chunk : c.origin \in Origins /\ c.seq \in Nat
    BY DEF Chunk
<1> QED BY <1>1

\* A set of calls is finite.
LEMMA FiniteCalls ==
    ASSUME NEW S \in SUBSET Origins
    PROVE  IsFiniteSet(S) /\ Cardinality(S) \in Nat
BY FS_Subset, FS_CardinalityType, PumpAssumption

\* One more call has one more slot.
LEMMA OneMore ==
    ASSUME NEW S \in SUBSET Origins, NEW o \in Origins, o \notin S
    PROVE  Cardinality(S \cup {o}) = Cardinality(S) + 1
BY FiniteCalls, FS_AddElement

\* One call less has one slot less.
LEMMA OneLess ==
    ASSUME NEW S \in SUBSET Origins, NEW o \in S
    PROVE  Cardinality(S \ {o}) = Cardinality(S) - 1
BY FiniteCalls, FS_RemoveElement

\* Chunks of different origins have as many origins as there are chunks.
LEMMA OriginsOfChunks ==
    ASSUME NEW s \in Seq(Chunk), \A i, j \in DOMAIN s : s[i].origin = s[j].origin => i = j
    PROVE  Origin(s) \in SUBSET Origins /\ Cardinality(Origin(s)) = Len(s)
<1> DEFINE f == [i \in 1..Len(s) |-> s[i].origin]
<1>1. DOMAIN s = 1..Len(s) /\ Len(s) \in Nat /\ \A i \in DOMAIN s : s[i] \in Chunk
    OBVIOUS
<1>2. Origin(s) \in SUBSET Origins
    BY <1>1 DEF Origin, Chunk
<1>3. f \in Bijection(1..Len(s), Origin(s))
    BY <1>1 DEF Origin, Bijection, Injection, Surjection, IsInjective
<1>4. ExistsBijection(1..Len(s), Origin(s))
    BY <1>3 DEF ExistsBijection
<1> QED BY <1>1, <1>2, <1>4, FS_CountingElements

\* Slots given back by as many calls.
LEMMA Fewer ==
    ASSUME NEW S \in SUBSET Origins, NEW T \in SUBSET S
    PROVE  Cardinality(S \ T) = Cardinality(S) - Cardinality(T)
<1>1. S \cap T = T
    OBVIOUS
<1>2. IsFiniteSet(S)
    BY FiniteCalls
<1>3. Cardinality(S \ T) = Cardinality(S) - Cardinality(S \cap T)
    BY <1>2, FS_Difference
<1> QED BY <1>1, <1>3

\* The slots are accounted for by the calls that hold one.
LEMMA SlotsByHolders ==
    SlotsAccounted <=> available + Cardinality(Holders) = MaximumQueuedChunks
BY DEF SlotsAccounted, Holders

\* A step that gives no call a slot and takes none leaves the slots accounted
\* for.
LEMMA SlotsSame ==
    ASSUME SlotsAccounted, available' = available, Holders' = Holders
    PROVE  SlotsAccounted'
BY SlotsByHolders DEF SlotsAccounted, Holders

\* So does a step by which a call gives its slot back.
LEMMA SlotBack ==
    ASSUME SlotsAccounted, available \in Nat, available' = available + 1,
           NEW o \in Origins, o \in Holders, Holders' = Holders \ {o}
    PROVE  SlotsAccounted'
<1>1. Holders \in SUBSET Origins
    BY DEF Holders
<1>2. Cardinality(Holders') = Cardinality(Holders) - 1 /\ Cardinality(Holders) \in Nat
    BY <1>1, OneLess, FiniteCalls
<1>3. available + Cardinality(Holders) = MaximumQueuedChunks
    BY SlotsByHolders
<1>4. available' + Cardinality(Holders') = MaximumQueuedChunks
    BY <1>2, <1>3
<1> QED BY <1>4 DEF SlotsAccounted, Holders

-----------------------------------------------------------------------------
\* The steps of the pump.

\* A caller's chunks stay parsed while its stream does, and CallerInv is kept
\* by a step that moves callers on only when their chunks are parsed.
LEMMA CallersKeep ==
    ASSUME CallerInv, sequence \in [Origins -> Nat],
           OwnStream' => /\ OwnStream
                         /\ \A i \in DOMAIN text : i \in DOMAIN text' /\ text'[i] = text[i],
           \A o \in Origins :
              \/ caller'[o] = "Failed"
              \/ /\ caller[o] # "Failed" /\ sequence'[o] = sequence[o]
                 /\ \/ caller[o] \in {"Idle", "Ok"} \/ caller'[o] \notin {"Idle", "Ok"}
                    \/ \E i \in DOMAIN text' :
                          text'[i].origin = o /\ text'[i].seq = sequence[o]
              \/ /\ caller[o] \in {"Idle", "Ok"} /\ caller'[o] \notin {"Idle", "Ok"}
                 /\ sequence'[o] = sequence[o] + 1
    PROVE  CallerInv'
<1> SUFFICES ASSUME OwnStream', NEW o \in Origins, caller'[o] # "Failed",
                    NEW k \in 1..sequence'[o],
                    k < sequence'[o] \/ caller'[o] \in {"Idle", "Ok"}
             PROVE  \E i \in DOMAIN text' : text'[i].origin = o /\ text'[i].seq = k
    BY DEF CallerInv, Parsed
<1>1. sequence[o] \in Nat /\ sequence'[o] \in Nat /\ k \in Nat /\ k > 0 /\ k <= sequence'[o]
    OBVIOUS
<1>2. CASE k \in 1..sequence[o] /\ (k < sequence[o] \/ caller[o] \in {"Idle", "Ok"})
  <2>1. caller[o] # "Failed"
      OBVIOUS
  <2>2. PICK i \in DOMAIN text : text[i].origin = o /\ text[i].seq = k
      BY <1>2, <2>1 DEF CallerInv, Parsed
  <2> QED BY <2>2
<1>3. CASE k = sequence[o] /\ caller[o] \notin {"Idle", "Ok"}
    BY <1>1, <1>3
<1> QED BY <1>1, <1>2, <1>3

\* The lengths of the queue and of the histories.
LEMMA Lengths ==
    ASSUME PumpInv
    PROVE  /\ Len(text) \in Nat /\ Len(current) \in Nat /\ Len(writes) \in Nat
           /\ Len(admitted) \in Nat /\ DOMAIN text = 1..Len(text)
           /\ DOMAIN writes = 1..Len(writes)
BY DEF PumpInv, PumpType

\* The chunk that Drain has is the first that has not been parsed.
LEMMA NextParsed ==
    ASSUME PumpInv, OwnStream, drain = "Writing"
    PROVE  Len(text) + 1 \in 1..Len(admitted) /\ current[1] = admitted[Len(text) + 1]
<1>1. Len(current) = 1
    BY DEF PumpInv, HeldInv
<1>2. Len(text) + Len(current) <= Len(admitted) /\ current[1] = admitted[Len(text) + 1]
    BY DEF PumpInv, OrderInv
<1> QED BY <1>1, <1>2, Lengths

\* The invariant holds initially.
LEMMA InitPump == Init => PumpInv
<1> SUFFICES ASSUME Init PROVE PumpInv
    OBVIOUS
<1> USE PumpAssumption DEF Init, DocumentInit
<1>1. PumpType
    BY DEF PumpType, Places
<1>2. HeldInv /\ QueueInv /\ OrderInv
    BY DEF HeldInv, QueueInv, OrderInv, Waits
<1>3. CallerInv /\ EndInv
    BY DEF CallerInv, EndInv, OwnStream, Generation
<1>4. SlotsAccounted
  <2>1. Holders = {}
      BY DEF Holders
  <2> QED BY <2>1, SlotsByHolders, FS_EmptySet
<1> QED BY <1>1, <1>2, <1>3, <1>4 DEF PumpInv

\* A step that concerns only the posted callbacks and the document's replies
\* keeps the invariant.
LEMMA QuietKeeps ==
    ASSUME PumpInv, UNCHANGED <<writes, available, completion, failure, accepting,
               drainScheduled, disposed, drain, current, caller, sequence, admitted,
               streamGeneration, streamActive, text>>
    PROVE  PumpInv'
<1> USE DEF PumpInv
<1>1. PumpType' /\ HeldInv' /\ QueueInv'
    BY DEF PumpType, HeldInv, QueueInv, Waits
<1>2. OrderInv' /\ CallerInv' /\ EndInv'
    BY DEF OrderInv, CallerInv, EndInv, OwnStream, Intact, Parsed
<1>3. SlotsAccounted'
    BY DEF SlotsAccounted
<1> QED BY <1>1, <1>2, <1>3

\* The dispatcher starting a Drain keeps the invariant.
LEMMA InvokeDrainKeeps ==
    ASSUME PumpInv, InvokeDrain
    PROVE  PumpInv'
<1> USE DEF PumpInv, InvokeDrain, documentVars
<1>1. PumpType' /\ HeldInv' /\ QueueInv'
    BY DEF PumpType, HeldInv, QueueInv, Waits
<1>2. OrderInv' /\ CallerInv' /\ EndInv'
    BY DEF OrderInv, CallerInv, EndInv, OwnStream, Intact, Parsed
<1>3. SlotsAccounted'
    BY DEF SlotsAccounted
<1> QED BY <1>1, <1>2, <1>3

\* A later stream keeps the invariant: what the pump has is none of it.
LEMMA BeginStreamKeeps ==
    ASSUME PumpInv, BeginStream
    PROVE  PumpInv'
<1> USE DEF PumpInv, BeginStream, BeginDocumentStream, pumpVars
<1>1. PumpType' /\ ~OwnStream' /\ text' = <<>>
    BY DEF PumpType, OwnStream, Generation
<1>2. HeldInv' /\ QueueInv'
    BY DEF HeldInv, QueueInv, Waits
<1>3. OrderInv' /\ CallerInv' /\ EndInv'
    BY <1>1 DEF OrderInv, CallerInv, EndInv
<1>4. SlotsAccounted'
    BY DEF SlotsAccounted
<1> QED BY <1>1, <1>2, <1>3, <1>4

\* CompleteAsync keeps the invariant, whether Drain can be scheduled or not.
LEMMA CompleteAsyncKeeps ==
    ASSUME PumpInv, CompleteAsync
    PROVE  PumpInv'
<1> USE DEF PumpInv, CompleteAsync, documentVars
<1>1. PumpType' /\ HeldInv' /\ SlotsAccounted'
    BY DEF PumpType, HeldInv, Waits, SlotsAccounted
<1>2. QueueInv'
    BY DEF QueueInv, ScheduleDrainLocked, CannotSchedule
<1>3. OrderInv' /\ CallerInv'
    BY DEF OrderInv, CallerInv, OwnStream, Intact, Parsed
<1>4. EndInv'
    BY DEF EndInv, OwnStream, QueueInv
<1> QED BY <1>1, <1>2, <1>3, <1>4, Zenon

\* The end of the stream keeps the invariant.
LEMMA DrainEndKeeps ==
    ASSUME PumpInv, DrainEnd
    PROVE  PumpInv'
<1> USE DEF PumpInv, DrainEnd, EndDocumentStream, documentVars
<1>1. PumpType' /\ HeldInv' /\ SlotsAccounted'
    BY ZenonT(30) DEF PumpType, HeldInv, Waits, SlotsAccounted
<1>2. QueueInv'
    BY DEF QueueInv, EndInv
<1>3. OrderInv' /\ CallerInv'
    BY DEF OrderInv, CallerInv, OwnStream, Intact, Parsed
<1>4. EndInv'
    BY DEF EndInv, OwnStream
<1> QED BY <1>1, <1>2, <1>3, <1>4, Zenon

\* A reader whose chunk was written throws, and does not call again.
ReaderThrows(o) ==
    /\ caller[o] = "Ok" /\ caller' = [caller EXCEPT ![o] = "Failed"]
    /\ UNCHANGED <<writes, available, completion, failure, accepting, drainScheduled,
                   disposed, drain, current, sequence, admitted, documentVars>>

\* A reader's call, its end before it has a slot, and its return or its
\* exception after its chunk was written keep the invariant.
LEMMA CallKeeps ==
    ASSUME PumpInv, NEW o \in Origins,
           Call(o) \/ WaitCancelled(o) \/ Return(o) \/ ReaderThrows(o)
    PROVE  PumpInv'
<1> USE DEF PumpInv, documentVars
<1>1. /\ UNCHANGED <<writes, available, completion, failure, accepting, drainScheduled,
                     disposed, drain, current, admitted, streamGeneration, streamActive,
                     text>>
      /\ caller[o] \notin {"Entered", "Awaiting"}
      /\ caller'[o] \notin {"Entered", "Awaiting"}
      /\ caller' \in [Origins -> Places] /\ sequence' \in [Origins -> Nat]
      /\ \A p \in Origins \ {o} : caller'[p] = caller[p] /\ sequence'[p] = sequence[p]
      /\ \/ caller[o] = "Idle" /\ caller'[o] = "Waiting" /\ sequence'[o] = sequence[o] + 1
         \/ caller'[o] = "Failed"
         \/ caller[o] = "Ok" /\ sequence'[o] = sequence[o]
  <2>1. CASE Call(o)
      BY <2>1 DEF Call, PumpType, Places
  <2>2. CASE WaitCancelled(o)
      BY <2>2 DEF WaitCancelled, PumpType, Places
  <2>3. CASE Return(o)
      BY <2>3 DEF Return, PumpType, Places
  <2>4. CASE ReaderThrows(o)
      BY <2>4 DEF ReaderThrows, PumpType, Places
  <2> QED BY <2>1, <2>2, <2>3, <2>4
<1>2. PumpType' /\ QueueInv'
    BY <1>1, Zenon DEF PumpType, QueueInv
<1>3. \A i \in DOMAIN writes : writes[i].origin \in Origins
    BY ChunkAt DEF PumpType
<1>4. drain = "Writing" => current[1].origin \in Origins
    BY ChunkAt DEF PumpType, HeldInv
<1>5. HeldInv'
    BY <1>1, <1>3, <1>4 DEF HeldInv, Waits
<1>6. OrderInv' /\ EndInv'
    BY <1>1, Zenon DEF OrderInv, EndInv, OwnStream, Intact
<1>7. CallerInv'
    BY <1>1, CallersKeep, Zenon DEF OwnStream, PumpType
<1>8. SlotsAccounted'
  <2>1. Holders' = Holders
      BY <1>1 DEF Holders
  <2> QED BY <1>1, <2>1, SlotsSame, Zenon
<1> QED BY <1>2, <1>5, <1>6, <1>7, <1>8, ZenonT(30)

\* Taking a slot keeps the invariant.
LEMMA AcquireSlotKeeps ==
    ASSUME PumpInv, NEW o \in Origins, AcquireSlot(o)
    PROVE  PumpInv'
<1> USE DEF PumpInv, documentVars
<1>1. /\ UNCHANGED <<writes, completion, failure, accepting, drainScheduled, disposed,
                     drain, current, sequence, admitted, streamGeneration, streamActive, text>>
      /\ available' = available - 1 /\ available > 0
      /\ caller[o] = "Waiting" /\ caller' = [caller EXCEPT ![o] = "Entered"]
    BY DEF AcquireSlot, SlotFree
<1>2. PumpType' /\ QueueInv'
    BY <1>1 DEF PumpType, QueueInv, Places
<1>3. \A i \in DOMAIN writes : writes[i].origin \in Origins
    BY ChunkAt DEF PumpType
<1>4. drain = "Writing" => current[1].origin \in Origins
    BY ChunkAt DEF PumpType, HeldInv
<1>5. HeldInv'
    BY <1>1, <1>3, <1>4, ZenonT(30) DEF HeldInv, Waits, PumpType
<1>6. OrderInv' /\ EndInv'
    BY <1>1, Zenon DEF OrderInv, EndInv, OwnStream, Intact
<1>7. CallerInv'
    BY <1>1, CallersKeep DEF OwnStream, PumpType
<1>8. SlotsAccounted'
  <2>1. Holders \in SUBSET Origins /\ o \notin Holders /\ Holders' = Holders \cup {o}
      BY <1>1 DEF Holders, PumpType
  <2>2. Cardinality(Holders') = Cardinality(Holders) + 1 /\ Cardinality(Holders) \in Nat
      BY <2>1, OneMore, FiniteCalls
  <2>3. available + Cardinality(Holders) = MaximumQueuedChunks
      BY SlotsByHolders
  <2>4. available' + Cardinality(Holders') = MaximumQueuedChunks
      BY <1>1, <2>2, <2>3 DEF PumpType
  <2> QED BY <2>4 DEF SlotsAccounted, Holders
<1> QED BY <1>2, <1>5, <1>6, <1>7, <1>8

\* Queueing a chunk keeps the invariant, and so does the catch block when the
\* pump is closed or Drain cannot be scheduled: then nothing else is queued,
\* and the chunk it dequeues is its own.
LEMMA EnqueueKeeps ==
    ASSUME PumpInv, NEW o \in Origins, Enqueue(o)
    PROVE  PumpInv'
<1> USE DEF PumpInv, documentVars
<1>1. /\ caller[o] = "Entered"
      /\ UNCHANGED <<completion, failure, accepting, disposed, drain, current, sequence,
                     streamGeneration, streamActive, text>>
    BY DEF Enqueue
<1>2. ChunkOf(o) \in Chunk /\ ChunkOf(o).origin = o /\ ChunkOf(o).seq = sequence[o]
    BY Zenon DEF ChunkOf, Chunk, PumpType
<1>3. \A i \in DOMAIN writes : writes[i].origin \in Origins \ {o}
    BY <1>1, ChunkAt, Zenon DEF PumpType, HeldInv, Waits
<1>4. drain = "Writing" => current[1].origin \in Origins \ {o}
    BY <1>1, ChunkAt DEF PumpType, HeldInv, Waits
<1>5. CASE /\ ~Closed /\ ScheduleDrainLocked
           /\ writes' = Append(writes, ChunkOf(o))
           /\ admitted' = Append(admitted, ChunkOf(o))
           /\ caller' = [caller EXCEPT ![o] = "Awaiting"]
           /\ UNCHANGED available
  <2> DEFINE c == ChunkOf(o)
  <2> HIDE DEF c
  <2>0. /\ c \in Chunk /\ c.origin = o /\ c.seq = sequence[o]
        /\ writes' = Append(writes, c) /\ admitted' = Append(admitted, c)
        /\ caller' = [caller EXCEPT ![o] = "Awaiting"] /\ UNCHANGED available
        /\ drainScheduled' /\ ~disposed /\ accepting
      BY <1>2, <1>5 DEF c, ScheduleDrainLocked, Closed
  <2>1. PumpType' /\ QueueInv'
      BY <1>1, <2>0 DEF PumpType, QueueInv, Places
  <2>2. /\ DOMAIN writes' = DOMAIN writes \cup {Len(writes) + 1}
        /\ \A i \in DOMAIN writes : writes'[i] = writes[i]
        /\ writes'[Len(writes) + 1] = c /\ Len(writes) + 1 \notin DOMAIN writes
        /\ Len(writes') = Len(writes) + 1
      BY <2>0, SMTT(30) DEF PumpType
  <2>3. HeldInv'
    <3>1. \A p \in Origins \ {o} : caller'[p] = caller[p]
        BY <2>0 DEF PumpType
    <3>2. caller'[o] = "Awaiting"
        BY <2>0, Zenon DEF PumpType
    <3>3. ASSUME NEW i \in DOMAIN writes' PROVE Waits(writes[i])'
        BY <1>1, <1>3, <2>0, <2>2, <3>1, <3>2, SMTT(30) DEF HeldInv, Waits
    <3>4. ASSUME NEW i \in DOMAIN writes', NEW j \in DOMAIN writes',
                 writes'[i].origin = writes'[j].origin
          PROVE  i = j
      <4>1. \A k \in DOMAIN writes, l \in DOMAIN writes :
               writes[k].origin = writes[l].origin => k = l
          BY Zenon DEF HeldInv
      <4>2. \A k \in DOMAIN writes : writes'[k].origin = writes[k].origin /\ writes[k].origin # o
          BY <1>3, <2>2, Zenon
      <4>3. writes'[Len(writes) + 1].origin = o
          BY <2>0, <2>2, Zenon
      <4> QED BY <2>2, <3>4, <4>1, <4>2, <4>3, Zenon
    <3>5. drain' = "Writing" =>
            /\ Len(current') = 1 /\ Waits(current[1])'
            /\ \A i \in DOMAIN writes' : writes'[i].origin # current'[1].origin
        BY <1>1, <1>4, <2>0, <2>2, <3>1 DEF HeldInv, Waits
    <3>6. ASSUME NEW p \in Origins, caller'[p] = "Awaiting"
          PROVE  \/ \E i \in DOMAIN writes' : writes'[i].origin = p
                 \/ drain' = "Writing" /\ current'[1].origin = p
      <4>1. CASE p = o
          BY <2>0, <2>2, <4>1, ZenonT(30)
      <4>2. CASE p # o
        <5>1. caller[p] = "Awaiting"
            BY <3>1, <3>6, <4>2, Zenon
        <5>2. CASE \E i \in DOMAIN writes : writes[i].origin = p
            BY <2>2, <5>2, Zenon
        <5>3. CASE drain = "Writing" /\ current[1].origin = p
            BY <1>1, <5>3, Zenon
        <5> QED BY <5>1, <5>2, <5>3, Zenon DEF HeldInv
      <4> QED BY <4>1, <4>2, Zenon
    <3>7. drain' # "Writing" => current' = <<>>
        BY <1>1 DEF HeldInv
    <3> QED BY <3>3, <3>4, <3>5, <3>6, <3>7 DEF HeldInv
  <2>4. /\ Len(admitted') = Len(admitted) + 1 /\ admitted'[Len(admitted) + 1] = c
        /\ \A i \in 1..Len(admitted) : admitted'[i] = admitted[i]
      BY <2>0, SMTT(30) DEF PumpType
  <2>5. OrderInv'
    <3> SUFFICES ASSUME OwnStream PROVE OrderInv'
        BY <1>1 DEF OrderInv, OwnStream
    <3>1. /\ Len(text) \in Nat /\ Len(current) \in Nat /\ Len(writes) \in Nat
          /\ Len(admitted) \in Nat /\ DOMAIN text = 1..Len(text)
          /\ DOMAIN writes = 1..Len(writes)
        BY Lengths
    <3>2. /\ Len(text) + Len(current) <= Len(admitted')
          /\ \A i \in DOMAIN text : text[i] = admitted'[i]
        BY <2>4, <3>1 DEF OrderInv
    <3>3. drain = "Writing" => current[1] = admitted'[Len(text) + 1]
        BY <2>4, NextParsed
    <3>4. ASSUME Intact
          PROVE  /\ Len(admitted') = Len(text) + Len(current) + Len(writes')
                 /\ \A i \in DOMAIN writes' :
                       writes'[i] = admitted'[Len(text) + Len(current) + i]
      <4>1. /\ Len(admitted) = Len(text) + Len(current) + Len(writes)
            /\ \A i \in DOMAIN writes : writes[i] = admitted[Len(text) + Len(current) + i]
          BY <3>4 DEF OrderInv
      <4>2. Len(admitted') = Len(text) + Len(current) + Len(writes')
          BY <2>2, <2>4, <3>1, <4>1
      <4>3. ASSUME NEW i \in DOMAIN writes
            PROVE  writes'[i] = admitted'[Len(text) + Len(current) + i]
        <5>1. Len(text) + Len(current) + i \in 1..Len(admitted)
            BY <3>1, <4>1
        <5> QED BY <2>2, <2>4, <4>1, <5>1
      <4>4. writes'[Len(writes) + 1] = admitted'[Len(text) + Len(current) + (Len(writes) + 1)]
        <5>1. Len(text) + Len(current) + (Len(writes) + 1) = Len(admitted) + 1
            BY <3>1, <4>1
        <5> QED BY <2>2, <2>4, <5>1
      <4> QED BY <2>2, <4>2, <4>3, <4>4
    <3> QED BY <1>1, <3>2, <3>3, <3>4 DEF OrderInv, Intact
  <2>6. CallerInv'
      BY <1>1, <2>0, CallersKeep, Zenon DEF OwnStream, PumpType
  <2>7. EndInv'
      BY <1>1, <2>0, <2>4 DEF EndInv, OwnStream, QueueInv
  <2>8. SlotsAccounted'
    <3>1. Holders' = Holders
        BY <1>1, <2>0 DEF Holders, PumpType
    <3> QED BY <2>0, <3>1, SlotsSame
  <2> QED BY <2>1, <2>3, <2>5, <2>6, <2>7, <2>8, Zenon
<1>6. CASE /\ Closed \/ CannotSchedule
           /\ writes' = IF Closed THEN writes ELSE Tail(Append(writes, ChunkOf(o)))
           /\ available' = SlotReturned
           /\ caller' = [caller EXCEPT ![o] = "Failed"]
           /\ UNCHANGED <<drainScheduled, posted, admitted>>
  <2>1. writes' = writes
    <3>1. CASE Closed
        BY <1>6, <3>1
    <3>2. CASE ~Closed
      <4>1. writes = <<>>
          BY <1>6, <3>2 DEF CannotSchedule, QueueInv
      <4>2. Tail(Append(writes, ChunkOf(o))) = <<>>
          BY <4>1, <1>2
      <4> QED BY <1>6, <3>2, <4>1, <4>2
    <3> QED BY <3>1, <3>2
  <2>0. /\ UNCHANGED <<writes, drainScheduled, admitted>> /\ available' = available + 1
        /\ caller' = [caller EXCEPT ![o] = "Failed"]
      BY <1>6, <2>1 DEF SlotReturned
  <2>2. PumpType' /\ QueueInv'
      BY <1>1, <2>0 DEF PumpType, QueueInv, Places
  <2>3. HeldInv'
      BY <1>1, <1>3, <1>4, <2>0, ZenonT(30) DEF HeldInv, Waits, PumpType
  <2>4. OrderInv' /\ EndInv'
      BY <1>1, <2>0, Zenon DEF OrderInv, EndInv, OwnStream, Intact
  <2>5. CallerInv'
      BY <1>1, <2>0, CallersKeep DEF OwnStream, PumpType
  <2>6. SlotsAccounted'
    <3>1. o \in Holders /\ Holders' = Holders \ {o}
        BY <1>1, <2>0 DEF Holders, PumpType
    <3> QED BY <2>0, <3>1, SlotBack DEF PumpType
  <2> QED BY <2>2, <2>3, <2>4, <2>5, <2>6
<1> QED BY <1>5, <1>6 DEF Enqueue

\* Dispose and Fail keep the invariant: they give back exactly the slots of
\* the chunks they abandon, and end exactly the calls that wait for them.
LEMMA AbandonKeeps ==
    ASSUME PumpInv, Dispose \/ Fail
    PROVE  PumpInv'
<1> USE DEF PumpInv, documentVars
<1>1. /\ writes' = <<>> /\ available' = available + Len(writes)
      /\ caller' = Returned(Origin(writes), "Failed") /\ ~accepting'
      /\ completion' = IF completion = "Pending" THEN "Exception" ELSE completion
      /\ UNCHANGED <<current, sequence, admitted, streamGeneration, streamActive, text>>
      /\ (disposed' /\ UNCHANGED <<drain, failure>>)
            \/ (drain = "Failing" /\ drain' = "Idle" /\ failure' /\ UNCHANGED disposed)
    BY Zenon DEF Dispose, Fail, AbandonWrites
<1>2. Origin(writes) \in SUBSET Origins /\ Cardinality(Origin(writes)) = Len(writes)
    BY OriginsOfChunks, ZenonT(30) DEF PumpType, HeldInv
<1>3. /\ \A o \in Origin(writes) : caller[o] = "Awaiting" /\ caller'[o] = "Failed"
      /\ \A o \in Origins \ Origin(writes) : caller'[o] = caller[o]
  <2>1. ASSUME NEW o \in Origin(writes) PROVE caller[o] = "Awaiting"
    <3>1. PICK i \in DOMAIN writes : writes[i].origin = o
        BY DEF Origin
    <3> QED BY <3>1, Zenon DEF HeldInv, Waits
  <2>2. /\ \A o \in Origin(writes) : caller'[o] = "Failed"
        /\ \A o \in Origins \ Origin(writes) : caller'[o] = caller[o]
      BY <1>1, <1>2, Zenon DEF Returned
  <2> QED BY <2>1, <2>2, Zenon
<1>4. PumpType' /\ QueueInv'
  <2>1. caller' \in [Origins -> Places]
      BY <1>1, Zenon DEF Returned, PumpType, Places
  <2> QED BY <1>1, <2>1, Lengths DEF PumpType, QueueInv
<1>5. drain = "Writing" => current[1].origin \in Origins \ Origin(writes)
    BY ChunkAt, SMTT(30) DEF PumpType, HeldInv, Origin
<1>6. HeldInv'
  <2>1. drain' = "Writing" => drain = "Writing"
      BY <1>1, Zenon
  <2>2. drain' # "Writing" => current' = <<>>
      BY <1>1, Zenon DEF HeldInv
  <2>3. drain' = "Writing" => Len(current') = 1 /\ Waits(current[1])'
      BY <1>1, <1>3, <1>5, <2>1, Zenon DEF HeldInv, Waits
  <2>4. DOMAIN writes' = {}
      BY <1>1
  <2>5. ASSUME NEW o \in Origins, caller'[o] = "Awaiting"
        PROVE  drain' = "Writing" /\ current'[1].origin = o
    <3>1. o \notin Origin(writes) /\ caller[o] = "Awaiting"
        BY <1>3, <2>5
    <3>2. drain = "Writing" /\ current[1].origin = o
        BY <3>1, Zenon DEF HeldInv, Origin
    <3> QED BY <1>1, <3>2
  <2> QED BY <2>2, <2>3, <2>4, <2>5, ZenonT(30) DEF HeldInv
<1>7. OrderInv' /\ EndInv'
    BY <1>1, ZenonT(30) DEF OrderInv, EndInv, OwnStream, Intact
<1>8. CallerInv'
    BY <1>1, <1>2, <1>3, CallersKeep, Zenon DEF OwnStream, PumpType
<1>9. SlotsAccounted'
  <2>1. /\ Holders \in SUBSET Origins /\ Origin(writes) \in SUBSET Holders
        /\ Holders' = Holders \ Origin(writes)
      BY <1>2, <1>3 DEF Holders
  <2>2. /\ Cardinality(Holders') = Cardinality(Holders) - Len(writes)
        /\ Cardinality(Holders) \in Nat
      BY <1>2, <2>1, Fewer, FiniteCalls
  <2>3. available + Cardinality(Holders) = MaximumQueuedChunks
      BY SlotsByHolders
  <2>4. available' + Cardinality(Holders') = MaximumQueuedChunks
      BY <1>1, <2>2, <2>3, Lengths DEF PumpType
  <2> QED BY <2>4 DEF SlotsAccounted, Holders
<1> QED BY <1>4, <1>6, <1>7, <1>8, <1>9, Zenon

\* The head of Drain's loop keeps the invariant.
LEMMA DrainTakeKeeps ==
    ASSUME PumpInv, DrainTake
    PROVE  PumpInv'
<1> USE DEF PumpInv, documentVars
<1>1. /\ drain = "Looping" /\ current = <<>>
      /\ UNCHANGED <<available, completion, failure, accepting, disposed, caller, sequence,
                     admitted, streamGeneration, streamActive, text>>
    BY DEF DrainTake, HeldInv
<1>2. SlotsAccounted'
    BY <1>1, ZenonT(30) DEF SlotsAccounted
<1>3. CallerInv'
    BY <1>1, CallersKeep DEF OwnStream, PumpType
<1>4. CASE disposed \/ writes = <<>>
  <2>1. /\ writes = <<>> /\ UNCHANGED <<writes, current>>
        /\ drain' = IF ~disposed /\ ~accepting /\ completion # "None"
                    THEN "Ending" ELSE "Idle"
      BY <1>4, Zenon DEF DrainTake, QueueInv
  <2>2. PumpType' /\ HeldInv' /\ QueueInv'
      BY <1>1, <2>1, ZenonT(30) DEF PumpType, HeldInv, QueueInv, Waits
  <2>3. OrderInv'
      BY <1>1, <2>1, Zenon DEF OrderInv, OwnStream, Intact
  <2>4. OwnStream /\ drain' = "Ending" /\ completion = "Pending" => Len(text) = Len(admitted)
    <3>1. OwnStream /\ drain' = "Ending" /\ completion = "Pending" =>
            Len(admitted) = Len(text) + Len(current) + Len(writes)
        BY <1>1, <2>1, Zenon DEF OrderInv, Intact, QueueInv
    <3>2. Len(current) = 0 /\ Len(writes) = 0 /\ Len(text) \in Nat
        BY <1>1, <2>1, Lengths
    <3> QED BY <3>1, <3>2
  <2>5. EndInv'
      BY <1>1, <2>1, <2>4 DEF EndInv, OwnStream
  <2> QED BY <1>2, <1>3, <2>2, <2>3, <2>5, Zenon
<1>5. CASE ~disposed /\ writes # <<>>
  <2>1. /\ current' = <<Head(writes)>> /\ writes' = Tail(writes) /\ drain' = "Writing"
        /\ UNCHANGED drainScheduled
      BY <1>5 DEF DrainTake
  <2>0. ~failure /\ drainScheduled
      BY <1>5 DEF QueueInv
  <2>2. /\ Len(writes') = Len(writes) - 1 /\ Len(writes) > 0 /\ writes' \in Seq(Chunk)
        /\ \A i \in DOMAIN writes' : writes'[i] = writes[i + 1] /\ i + 1 \in DOMAIN writes
        /\ DOMAIN writes' = 1..(Len(writes) - 1) /\ 1 \in DOMAIN writes
        /\ Len(current') = 1 /\ current'[1] = writes[1] /\ current' \in Seq(Chunk)
      BY <1>5, <2>1 DEF PumpType
  <2>3. PumpType' /\ QueueInv'
      BY <1>1, <1>5, <2>0, <2>1, <2>2, Zenon DEF PumpType, QueueInv
  <2>4. HeldInv'
    <3>1. ASSUME NEW i \in DOMAIN writes' PROVE Waits(writes[i])'
        BY <1>1, <2>2, SMTT(30) DEF HeldInv, Waits
    <3>2. ASSUME NEW i \in DOMAIN writes', NEW j \in DOMAIN writes',
                 writes'[i].origin = writes'[j].origin
          PROVE  i = j
        BY <2>2, <3>2, Lengths, SMTT(30) DEF HeldInv
    <3>3. /\ Waits(current[1])'
          /\ \A i \in DOMAIN writes' : writes'[i].origin # current'[1].origin
      <4>1. Waits(writes[1]) /\ current'[1] = writes[1]
          BY <2>2, Zenon DEF HeldInv
      <4>2. Waits(current[1])'
          BY <1>1, <4>1, Zenon DEF Waits
      <4>3. ASSUME NEW i \in DOMAIN writes' PROVE writes'[i].origin # writes[1].origin
        <5>1. writes'[i] = writes[i + 1] /\ i + 1 \in DOMAIN writes /\ 1 \in DOMAIN writes
            BY <2>2, Zenon
        <5>2. i + 1 # 1
            BY <2>2, Lengths
        <5> QED BY <5>1, <5>2, Zenon DEF HeldInv
      <4> QED BY <4>1, <4>2, <4>3, Zenon
    <3>4. ASSUME NEW o \in Origins, caller'[o] = "Awaiting"
          PROVE  \/ \E i \in DOMAIN writes' : writes'[i].origin = o
                 \/ current'[1].origin = o
      <4>1. PICK j \in DOMAIN writes : writes[j].origin = o
          BY <1>1, <3>4, Zenon DEF HeldInv
      <4>2. CASE j = 1
          BY <2>2, <4>1, <4>2
      <4>3. CASE j # 1
        <5>1. j - 1 \in DOMAIN writes' /\ (j - 1) + 1 = j
            BY <2>2, <4>3, Lengths, SMTT(30)
        <5> QED BY <2>2, <4>1, <5>1, Zenon
      <4> QED BY <4>2, <4>3
    <3> QED BY <2>1, <2>2, <3>1, <3>2, <3>3, <3>4, ZenonT(30) DEF HeldInv
  <2>5. OrderInv'
    <3> SUFFICES ASSUME OwnStream PROVE OrderInv'
        BY <1>1, Zenon DEF OrderInv, OwnStream
    <3>1. /\ Len(admitted) = Len(text) + Len(writes) /\ Len(current) = 0
          /\ \A i \in DOMAIN writes : writes[i] = admitted[Len(text) + i]
          /\ \A i \in DOMAIN text : text[i] = admitted[i]
        BY <1>1, <1>5, <2>0, Lengths, SMTT(30) DEF OrderInv, Intact
    <3>2. /\ Len(text) + Len(current') <= Len(admitted)
          /\ Len(admitted) = Len(text) + Len(current') + Len(writes')
        BY <2>2, <3>1, Lengths
    <3>4. current'[1] = admitted[Len(text) + 1]
        BY <2>2, <3>1
    <3>3. ASSUME NEW i \in DOMAIN writes'
          PROVE  writes'[i] = admitted[Len(text) + Len(current') + i]
      <4>1. Len(text) + Len(current') + i = Len(text) + (i + 1)
          BY <2>2, Lengths
      <4> QED BY <2>2, <3>1, <4>1
    <3> QED BY <1>1, <3>1, <3>2, <3>3, <3>4, Zenon DEF OrderInv
  <2>6. EndInv'
      BY <1>1, <2>1 DEF EndInv, OwnStream
  <2> QED BY <1>2, <1>3, <2>3, <2>4, <2>5, <2>6, ZenonT(30)
<1> QED BY <1>4, <1>5, ZenonT(30)

\* What is common to the two ends of a write keeps the invariant: the chunk
\* is parsed or it is not, and a call succeeds only if it is.
LEMMA WriteKeeps ==
    ASSUME PumpInv, drain = "Writing", NEW outcome \in {"Ok", "Failed"},
           caller' = Returned(Origin(current), outcome), available' = available + 1,
           current' = <<>>, drain' = IF outcome = "Ok" THEN "Looping" ELSE "Failing",
           \/ OwnStream /\ streamActive /\ text' = Append(text, current[1])
           \/ outcome = "Failed" /\ text' = text,
           UNCHANGED <<writes, completion, failure, accepting, drainScheduled, disposed,
                       sequence, admitted, streamGeneration, streamActive>>
    PROVE  PumpInv'
<1> DEFINE c == current[1]
           o == current[1].origin
<1>1. /\ Len(current) = 1 /\ c \in Chunk /\ o \in Origins /\ c.seq = sequence[o]
      /\ caller[o] = "Awaiting" /\ \A i \in DOMAIN writes : writes[i].origin # o
    BY ChunkAt, SMTT(30) DEF PumpInv, PumpType, HeldInv, Waits
<1>2. /\ caller'[o] = outcome /\ \A p \in Origins \ {o} : caller'[p] = caller[p]
      /\ caller' \in [Origins -> Places]
    BY <1>1 DEF Returned, Origin, PumpInv, PumpType, Places
<1>0. text \in Seq(Chunk)
    BY DEF PumpInv, PumpType
<1>3. \/ /\ Len(text') = Len(text) + 1 /\ text'[Len(text) + 1] = c
         /\ \A i \in DOMAIN text : i \in DOMAIN text' /\ text'[i] = text[i]
         /\ DOMAIN text' = 1..(Len(text) + 1) /\ OwnStream /\ streamActive
      \/ outcome = "Failed" /\ text' = text
    BY <1>0, <1>1, AppendFacts, SMTT(30)
<1>4. c.origin = o
    OBVIOUS
<1>5. text' \in Seq(Chunk)
    BY <1>0, <1>1, AppendFacts
<1> HIDE DEF c, o
<1> USE DEF PumpInv
<1>6. PumpType' /\ QueueInv'
    BY <1>2, <1>5 DEF PumpType, QueueInv
<1>7. HeldInv'
  <2>1. \A i \in DOMAIN writes : writes[i].origin \in Origins \ {o}
      BY <1>1, ChunkAt DEF PumpType
  <2>2. \A p \in Origins : caller'[p] = "Awaiting" => p # o /\ caller[p] = "Awaiting"
      BY <1>2
  <2>3. o = current[1].origin
      BY DEF o
  <2> QED BY <1>2, <2>1, <2>2, <2>3, ZenonT(30) DEF HeldInv, Waits
<1>8. OrderInv'
  <2> SUFFICES ASSUME OwnStream PROVE OrderInv'
      BY DEF OrderInv, OwnStream
  <2>1. Len(current') = 0 /\ c = current[1]
      BY Zenon DEF c
  <2>2. /\ Len(text) + 1 \in 1..Len(admitted) /\ c = admitted[Len(text) + 1]
        /\ \A i \in DOMAIN text : text[i] = admitted[i]
      BY <2>1, NextParsed, ZenonT(30) DEF OrderInv
  <2>3. CASE text' = text /\ outcome = "Failed"
      BY <2>1, <2>2, <2>3, Lengths DEF OrderInv, Intact
  <2>4. CASE /\ Len(text') = Len(text) + 1 /\ text'[Len(text) + 1] = c
             /\ \A i \in DOMAIN text : i \in DOMAIN text' /\ text'[i] = text[i]
             /\ DOMAIN text' = 1..(Len(text) + 1)
    <3>1. Len(text') + Len(current') <= Len(admitted)
        BY <2>1, <2>2, <2>4, Lengths, SMTT(30)
    <3>2. \A i \in DOMAIN text' : text'[i] = admitted[i]
        BY <2>2, <2>4, Lengths, SMTT(30)
    <3>3. Len(text') + Len(current') = Len(text) + Len(current)
        BY <1>1, <2>1, <2>4, Lengths
    <3>4. Intact' => Intact
        BY Zenon DEF Intact
    <3> QED BY <3>1, <3>2, <3>3, <3>4, ZenonT(30) DEF OrderInv
  <2> QED BY <1>3, <2>3, <2>4, ZenonT(30)
<1>9. CallerInv'
  <2>1. outcome = "Ok" => \E i \in DOMAIN text' : text'[i].origin = o /\ text'[i].seq = sequence[o]
      BY <1>1, <1>3, <1>4, Lengths, SMTT(30)
  <2>2. \A i \in DOMAIN text : i \in DOMAIN text' /\ text'[i] = text[i]
      BY <1>3
  <2> QED BY <1>1, <1>2, <2>1, <2>2, CallersKeep, Zenon DEF OwnStream, PumpType
<1>10. EndInv'
    BY <1>3 DEF EndInv, OwnStream
<1>11. SlotsAccounted'
  <2>1. o \in Holders /\ Holders' = Holders \ {o}
      BY <1>1, <1>2 DEF Holders
  <2> QED BY <1>1, <2>1, SlotBack, ZenonT(30) DEF PumpType
<1> QED BY <1>6, <1>7, <1>8, <1>9, <1>10, <1>11, ZenonT(30)

\* Drain's write of a chunk keeps the invariant, whether it succeeds or not.
LEMMA DrainWriteKeeps ==
    ASSUME PumpInv, NEW n, DrainWrite(n) \/ DrainWriteFails(n)
    PROVE  PumpInv'
<1>1. CASE DrainWrite(n)
    BY <1>1, WriteKeeps, ZenonT(30) DEF DrainWrite, WriteSucceeds, WriteAccepted, Parse,
       OwnStream
<1>2. CASE DrainWriteFails(n)
    BY <1>2, WriteKeeps DEF DrainWriteFails, WriteFails, WriteAccepted, Parse, OwnStream,
       documentVars
<1> QED BY <1>1, <1>2, Zenon

\* So does every step on the dispatcher.
LEMMA PumpDispatches ==
    ASSUME PumpInv, Dispatcher \/ Shutdown
    PROVE  PumpInv'
<1>1. CASE Dispatcher
    BY <1>1, InvokeDrainKeeps, DrainTakeKeeps, AbandonKeeps, DrainEndKeeps,
       DrainWriteKeeps, Zenon DEF Dispatcher
<1>2. CASE Shutdown
    BY <1>2, QuietKeeps DEF Shutdown, documentVars
<1> QED BY <1>1, <1>2

\* Every step of the pump keeps the invariant.
LEMMA PumpStepKeeps == PumpInv /\ [Next]_vars => PumpInv'
<1> SUFFICES ASSUME PumpInv, [Next]_vars PROVE PumpInv'
    OBVIOUS
<1>1. CASE UNCHANGED vars
    BY <1>1, QuietKeeps DEF vars, pumpVars, documentVars
<1>2. CASE \E o \in Origins : Call(o) \/ Reader(o) \/ WaitCancelled(o) \/ Return(o)
    BY <1>2, CallKeeps, AcquireSlotKeeps, EnqueueKeeps DEF Reader
<1>3. CASE CompleteAsync
    BY <1>3, CompleteAsyncKeeps
<1>4. CASE Dispose
    BY <1>4, AbandonKeeps
<1>5. CASE Dispatcher \/ Shutdown
    BY <1>5, PumpDispatches
<1>6. CASE CollectReplies
    BY <1>6, QuietKeeps DEF CollectReplies, DrainReplies, pumpVars
<1>7. CASE BeginStream
    BY <1>7, BeginStreamKeeps
<1> QED BY <1>1, <1>2, <1>3, <1>4, <1>5, <1>6, <1>7, SMTT(30) DEF Next

\* The invariant holds of every behaviour of the pump.
LEMMA PumpInvariant == Spec => []PumpInv
BY InitPump, PumpStepKeeps, PTL DEF Spec

\* The invariant accounts for every call.
LEMMA InvCalls == PumpInv => CallsAccounted
<1> SUFFICES ASSUME PumpInv PROVE NoOrphan
    BY Zenon DEF PumpInv, CallsAccounted
<1>1. ASSUME NEW c \in Chunk, NEW o \in Origins, c.origin = o, Waits(c)
      PROVE  c = ChunkOf(o)
    BY <1>1, Zenon DEF Chunk, ChunkOf, Waits
<1>2. ASSUME NEW o \in Origins, caller[o] = "Awaiting"
      PROVE  ChunkOf(o) \in Range(writes) \cup Range(current)
  <2>1. CASE \E i \in DOMAIN writes : writes[i].origin = o
    <3>1. PICK i \in DOMAIN writes : writes[i].origin = o
        BY <2>1, Zenon
    <3>2. writes[i] \in Chunk /\ Waits(writes[i])
        BY ChunkAt, Zenon DEF PumpInv, PumpType, HeldInv
    <3> QED BY <1>1, <3>1, <3>2 DEF Range
  <2>2. CASE drain = "Writing" /\ current[1].origin = o
    <3>1. 1 \in DOMAIN current /\ current[1] \in Chunk /\ Waits(current[1])
        BY <2>2, ChunkAt DEF PumpInv, PumpType, HeldInv
    <3> QED BY <1>1, <2>2, <3>1, ZenonT(30) DEF Range
  <2> QED BY <1>2, <2>1, <2>2, Zenon DEF PumpInv, HeldInv
<1> QED BY <1>2 DEF NoOrphan

\* The invariant gives what the callers are told.
LEMMA InvOutput == PumpInv => OutputCommitted
<1> SUFFICES ASSUME PumpInv PROVE OutputCommitted
    OBVIOUS
<1>1. CommittedInOrder /\ NoStaleText
    BY Lengths DEF PumpInv, OrderInv, EndInv, CommittedInOrder, NoStaleText
<1>2. EndMeansAllCommitted
  <2> SUFFICES ASSUME completion = "Result", OwnStream
               PROVE  text = admitted /\ ~streamActive
      BY DEF EndMeansAllCommitted
  <2>1. Len(text) = Len(admitted) /\ ~streamActive
      BY Zenon DEF PumpInv, EndInv
  <2>2. text \in Seq(Chunk) /\ admitted \in Seq(Chunk) /\ \A i \in DOMAIN text : text[i] = admitted[i]
      BY DEF PumpInv, PumpType, OrderInv
  <2> QED BY <2>1, <2>2, SameSeq
<1>3. OkMeansCommitted
  <2> SUFFICES ASSUME OwnStream, NEW o \in Origins, caller[o] \in {"Idle", "Ok"},
                      NEW k \in 1..sequence[o]
               PROVE  [origin |-> o, seq |-> k] \in Range(text)
      BY DEF OkMeansCommitted
  <2>1. PICK i \in DOMAIN text : text[i].origin = o /\ text[i].seq = k
      BY ZenonT(30) DEF PumpInv, CallerInv, Parsed
  <2>2. text[i] \in Chunk
      BY ChunkAt DEF PumpInv, PumpType
  <2>3. text[i] = [origin |-> o, seq |-> k]
      BY <2>1, <2>2 DEF Chunk
  <2> QED BY <2>3, ZenonT(30) DEF Range
<1> QED BY <1>1, <1>2, <1>3 DEF OutputCommitted

\* SessionOutputPump.cs: every slot is free or held by one call, and every
\* call that waits has its chunk queued or being written, through failures,
\* disposals and refused schedules.
THEOREM PumpCallsAccounted == Spec => []CallsAccounted
BY PumpInvariant, InvCalls, PTL

\* SessionOutputPump.cs: the document parses the chunks in the order they
\* were admitted, a WriteAsync succeeds only when its chunk is parsed, and
\* CompleteAsync only when all are and the stream has ended.
THEOREM PumpOutputCommitted == Spec => []OutputCommitted
BY PumpInvariant, InvOutput, PTL
-----------------------------------------------------------------------------
\* The replies that the readers forward.

Increasing(s) == \A i, j \in DOMAIN s : i < j => s[i].seq < s[j].seq
Distinct(s) == \A i, j \in DOMAIN s : s[i].seq = s[j].seq => i = j
UpTo(s, n) == \A i \in DOMAIN s : s[i].seq <= n
Before(s, t) == \A i \in DOMAIN s : \A j \in DOMAIN t : s[i].seq < t[j].seq
Apart(s, t) == \A i \in DOMAIN s : \A j \in DOMAIN t : s[i].seq # t[j].seq

\* A sequence of replies that have left the document.
Gone(s) == UpTo(s, replySequence) /\ Before(s, replies) /\ Distinct(s)

ReplyType ==
    /\ replies \in Seq(Chunk) /\ Len(replies) <= MaxReplies /\ replySequence \in Nat
    /\ collected \in [Origins -> Seq(Chunk)] /\ received \in Seq(Chunk)
    /\ forwarding \in [Origins -> BOOLEAN]

\* The replies in the document are the latest, in order; of those that have
\* left it, no two are the same.  Only a reader whose write is done forwards.
ReplyInv ==
    /\ Increasing(replies) /\ UpTo(replies, replySequence)
    /\ Gone(received)
    /\ \A o \in Origins : Gone(collected[o]) /\ Apart(collected[o], received)
    /\ \A o, p \in Origins : o # p => Apart(collected[o], collected[p])
    /\ \A o \in Origins : forwarding[o] => caller[o] = "Ok"

SessionInv == PumpInv /\ ReplyType /\ ReplyInv

\* The empty sequence.
LEMMA NoReplies ==
    /\ Increasing(<<>>) /\ Distinct(<<>>) /\ \A n : UpTo(<<>>, n)
    /\ \A s : Before(s, <<>>) /\ Before(<<>>, s) /\ Apart(<<>>, s) /\ Apart(s, <<>>)
BY SMTT(30) DEF Increasing, Distinct, UpTo, Before, Apart

\* Replies in order are distinct, and those before others are not among them.
LEMMA OrderFacts ==
    ASSUME NEW s \in Seq(Chunk), NEW t \in Seq(Chunk)
    PROVE  /\ Increasing(t) => Distinct(t)
           /\ Before(s, t) => Apart(s, t) /\ Apart(t, s)
<1>1. \A i \in DOMAIN s : s[i].seq \in Nat
    BY ChunkAt
<1>2. \A i \in DOMAIN t : t[i].seq \in Nat
    BY ChunkAt
<1>3. DOMAIN t = 1..Len(t)
    OBVIOUS
<1> QED BY <1>1, <1>2, <1>3, SMTT(30) DEF Increasing, Distinct, Before, Apart

\* Replies queued are later than any before.
LEMMA QueueReplyFacts ==
    ASSUME ReplyType, Increasing(replies), UpTo(replies, replySequence),
           NEW chunk, chunk.origin \in Origins, NEW n \in Nat, QueueReply(chunk, n)
    PROVE  /\ replies' \in Seq(Chunk) /\ Len(replies') <= MaxReplies
           /\ replySequence' \in Nat
           /\ Increasing(replies') /\ UpTo(replies', replySequence')
           /\ \A s \in Seq(Chunk) : UpTo(s, replySequence) /\ Before(s, replies) =>
                 UpTo(s, replySequence') /\ Before(s, replies')
<1> DEFINE room == MaxReplies - Len(replies)
           kept == IF n <= room THEN n ELSE room
           more == [i \in 1..kept |-> [origin |-> chunk.origin, seq |-> replySequence + i]]
<1>1. /\ Len(replies) \in Nat /\ DOMAIN replies = 1..Len(replies)
      /\ MaxReplies \in Nat /\ kept \in Nat /\ Len(replies) + kept <= MaxReplies
    BY DocumentAssumption, SMTT(30) DEF ReplyType
<1>2. replies' = replies \o more /\ replySequence' = replySequence + kept
    BY Zenon DEF QueueReply
<1>3. more \in Seq(Chunk) /\ Len(more) = kept
      /\ \A i \in 1..kept : more[i].seq = replySequence + i
    BY <1>1 DEF Chunk, ReplyType
<1> HIDE DEF kept, more
<1>4. /\ replies' \in Seq(Chunk) /\ Len(replies') = Len(replies) + kept
      /\ DOMAIN replies' = 1..(Len(replies) + kept)
      /\ \A i \in DOMAIN replies : replies'[i] = replies[i]
      /\ \A i \in 1..kept : replies'[Len(replies) + i] = more[i]
  <2>1. replies \in Seq(Chunk)
      BY DEF ReplyType
  <2>2. more \in Seq(Chunk)
      BY <1>3, Zenon
  <2>3. /\ replies \o more \in Seq(Chunk) /\ Len(replies \o more) = Len(replies) + Len(more)
        /\ DOMAIN (replies \o more) = 1..(Len(replies) + Len(more))
        /\ \A i \in DOMAIN replies : (replies \o more)[i] = replies[i]
        /\ \A i \in 1..Len(more) : (replies \o more)[Len(replies) + i] = more[i]
      BY ONLY <2>1, <2>2
  <2>4. Len(more) = kept /\ replies' = replies \o more
      BY <1>2, <1>3, Zenon
  <2> QED BY ONLY <2>3, <2>4, Zenon
<1>5. replySequence \in Nat /\ \A i \in DOMAIN replies : replies[i].seq \in Nat
    BY ChunkAt, Zenon DEF ReplyType
<1>6. ASSUME NEW i \in DOMAIN replies'
      PROVE  \/ i \in DOMAIN replies /\ replies'[i].seq = replies[i].seq
                /\ replies[i].seq <= replySequence
             \/ i > Len(replies) /\ replies'[i].seq = replySequence + (i - Len(replies))
  <2>1. CASE i <= Len(replies)
      BY <1>1, <1>4, <2>1 DEF UpTo
  <2>2. CASE i > Len(replies)
    <3>1. i - Len(replies) \in 1..kept /\ Len(replies) + (i - Len(replies)) = i
        BY <1>1, <1>4, <2>2, SMTT(30)
    <3> QED BY <1>3, <1>4, <2>2, <3>1, SMTT(30)
  <2> QED BY <1>1, <1>4, <2>1, <2>2, SMTT(30)
<1>7. Increasing(replies')
    BY <1>1, <1>4, <1>5, <1>6, SMTT(30) DEF Increasing
<1>8. UpTo(replies', replySequence')
    BY <1>1, <1>2, <1>4, <1>5, <1>6, SMTT(30) DEF UpTo
<1>9. ASSUME NEW s \in Seq(Chunk), UpTo(s, replySequence), Before(s, replies)
      PROVE  UpTo(s, replySequence') /\ Before(s, replies')
  <2>1. \A i \in DOMAIN s : s[i].seq \in Nat /\ s[i].seq <= replySequence
      BY <1>9, ChunkAt, Zenon DEF UpTo
  <2>2. \A i \in DOMAIN s : \A j \in DOMAIN replies' : s[i].seq < replies'[j].seq
    <3> SUFFICES ASSUME NEW i \in DOMAIN s, NEW j \in DOMAIN replies'
                 PROVE  s[i].seq < replies'[j].seq
        OBVIOUS
    <3>1. CASE j <= Len(replies)
        BY <1>1, <1>4, <1>5, <1>9, <3>1, SMTT(30) DEF Before
    <3>2. CASE j > Len(replies)
      <4>1. j \in Nat /\ Len(replies) \in Nat /\ j \notin DOMAIN replies
          BY <1>1, <1>4, <3>2, SMTT(30)
      <4>2. replies'[j].seq = replySequence + (j - Len(replies))
          BY <1>6, <4>1, Zenon
      <4> QED BY <1>5, <2>1, <3>2, <4>1, <4>2, SMTT(30)
    <3> QED BY <1>1, <1>4, <3>1, <3>2, SMTT(30)
  <2> QED BY <1>1, <1>2, <1>5, <2>1, <2>2, SMTT(30) DEF UpTo, Before
<1> QED BY <1>1, <1>2, <1>4, <1>5, <1>7, <1>8, <1>9, SMTT(30)

\* A reply handed over goes from the head of what a reader has collected to
\* the end of what was received.
LEMMA HandOver ==
    ASSUME NEW c \in Seq(Chunk), c # <<>>, NEW r \in Seq(Chunk)
    PROVE  /\ Tail(c) \in Seq(Chunk) /\ Append(r, Head(c)) \in Seq(Chunk)
           /\ \A m : UpTo(c, m) /\ UpTo(r, m) =>
                 UpTo(Tail(c), m) /\ UpTo(Append(r, Head(c)), m)
           /\ \A s : Before(c, s) /\ Before(r, s) =>
                 Before(Tail(c), s) /\ Before(Append(r, Head(c)), s)
           /\ Distinct(c) /\ Distinct(r) /\ Apart(c, r) =>
                 /\ Distinct(Tail(c)) /\ Distinct(Append(r, Head(c)))
                 /\ Apart(Tail(c), Append(r, Head(c)))
           /\ \A s : Apart(s, c) /\ Apart(c, s) /\ Apart(s, r) =>
                 /\ Apart(s, Tail(c)) /\ Apart(Tail(c), s)
                 /\ Apart(s, Append(r, Head(c)))
<1> DEFINE t == Tail(c)
           a == Append(r, Head(c))
<1>1. /\ t \in Seq(Chunk) /\ 1 \in DOMAIN c
      /\ \A i \in DOMAIN t : i \in Nat /\ i + 1 \in DOMAIN c /\ i + 1 # 1 /\ t[i] = c[i + 1]
    OBVIOUS
<1>2. a \in Seq(Chunk) /\ \A i \in DOMAIN a :
          \/ i \in DOMAIN r /\ a[i] = r[i]
          \/ i = Len(r) + 1 /\ a[i] = c[1]
  <2>1. Head(c) = c[1] /\ c[1] \in Chunk /\ DOMAIN r = 1..Len(r) /\ Len(r) \in Nat
      OBVIOUS
  <2> QED BY <2>1, AppendFacts
<1> HIDE DEF t, a
<1>3. ASSUME NEW m, UpTo(c, m), UpTo(r, m) PROVE UpTo(t, m) /\ UpTo(a, m)
    BY <1>1, <1>2, <1>3, ZenonT(30) DEF UpTo
<1>4. ASSUME NEW s, Before(c, s), Before(r, s) PROVE Before(t, s) /\ Before(a, s)
    BY <1>1, <1>2, <1>4, SMTT(30) DEF Before
<1>5. ASSUME Distinct(c), Distinct(r), Apart(c, r)
      PROVE  Distinct(t) /\ Distinct(a) /\ Apart(t, a)
  <2>1. Distinct(t)
      BY <1>1, <1>5, SMTT(30) DEF Distinct
  <2>2. Distinct(a)
      BY <1>1, <1>2, <1>5, SMTT(30) DEF Distinct, Apart
  <2>3. ASSUME NEW i \in DOMAIN t, NEW j \in DOMAIN a PROVE t[i].seq # a[j].seq
    <3>1. i + 1 \in DOMAIN c /\ 1 \in DOMAIN c /\ i + 1 # 1 /\ t[i] = c[i + 1]
        BY <1>1
    <3>2. c[i + 1].seq # c[1].seq
        BY <1>5, <3>1 DEF Distinct
    <3>3. \A k \in DOMAIN r : c[i + 1].seq # r[k].seq
        BY <1>5, <3>1, Zenon DEF Apart
    <3> QED BY <1>2, <3>1, <3>2, <3>3
  <2> QED BY <2>1, <2>2, <2>3 DEF Apart
<1>6. ASSUME NEW s, Apart(s, c), Apart(c, s), Apart(s, r)
      PROVE  Apart(s, t) /\ Apart(t, s) /\ Apart(s, a)
    BY <1>1, <1>2, <1>6, SMTT(30) DEF Apart
<1> QED BY <1>1, <1>2, <1>3, <1>4, <1>5, <1>6, SMTT(30) DEF t, a

\* The pump returns only calls that wait: a reader that forwards stays.
LEMMA ForwardersStay ==
    ASSUME SessionInv, PumpStep
    PROVE  \A o \in Origins : forwarding'[o] => caller'[o] = "Ok"
<1> SUFFICES ASSUME NEW o \in Origins, caller[o] = "Ok" PROVE caller'[o] = "Ok"
    BY Zenon DEF SessionInv, ReplyInv, PumpStep, replyVars
<1>1. caller \in [Origins -> Places]
    BY Zenon DEF SessionInv, PumpInv, PumpType
<1>2. ASSUME NEW p \in Origins, Call(p) \/ AcquireSlot(p) \/ Enqueue(p) \/ WaitCancelled(p)
      PROVE  caller'[o] = "Ok"
    BY <1>1, <1>2 DEF Call, AcquireSlot, Enqueue, WaitCancelled
<1>3. CASE UNCHANGED caller
    BY <1>3, Zenon
<1>4. CASE Dispose \/ Fail
  <2>1. o \notin Origin(writes)
      BY DEF Origin, SessionInv, PumpInv, HeldInv, Waits
  <2> QED BY <1>4, <2>1, Zenon DEF Dispose, Fail, AbandonWrites, Returned
<1>5. ASSUME NEW n, DrainWrite(n) \/ DrainWriteFails(n) PROVE caller'[o] = "Ok"
  <2>1. /\ drain = "Writing"
        /\ \E r \in {"Ok", "Failed"} : caller' = Returned(Origin(current), r)
      BY <1>5 DEF DrainWrite, DrainWriteFails
  <2>2. o \notin Origin(current)
    <3>1. HeldInv /\ current \in Seq(Chunk)
        BY Zenon DEF SessionInv, PumpInv, PumpType
    <3>2. Len(current) = 1 /\ caller[current[1].origin] = "Awaiting"
        BY <2>1, <3>1 DEF HeldInv, Waits
    <3>3. DOMAIN current = {1}
        BY <3>1, <3>2
    <3> QED BY <3>2, <3>3, Zenon DEF Origin
  <2> QED BY <2>1, <2>2, Zenon DEF Returned
<1>6. CASE CompleteAsync \/ InvokeDrain \/ DrainTake \/ DrainEnd \/ Shutdown
    BY <1>3, <1>6, ZenonT(30) DEF CompleteAsync, InvokeDrain, DrainTake, DrainEnd,
       Shutdown
<1> QED BY <1>2, <1>4, <1>5, <1>6, Zenon DEF PumpStep, Dispatcher

\* A step of the pump leaves the replies, or queues more of them.
LEMMA PumpRepliesKeep ==
    ASSUME SessionInv, PumpStep
    PROVE  ReplyType' /\ ReplyInv'
<1> USE DEF SessionInv
<1>1. /\ collected' = collected /\ received' = received /\ forwarding' = forwarding
      /\ \A o \in Origins : collected[o] \in Seq(Chunk) /\ received \in Seq(Chunk)
    BY Zenon DEF PumpStep, replyVars, ReplyType
<1> DEFINE More ==
        /\ replies' \in Seq(Chunk) /\ Len(replies') <= MaxReplies /\ replySequence' \in Nat
        /\ Increasing(replies') /\ UpTo(replies', replySequence')
        /\ \A s \in Seq(Chunk) : UpTo(s, replySequence) /\ Before(s, replies) =>
               UpTo(s, replySequence') /\ Before(s, replies')
<1>2. More
  <2>1. CASE UNCHANGED <<replies, replySequence>>
      BY <2>1, Zenon DEF ReplyType, ReplyInv
  <2>2. ASSUME NEW n \in 0..MaxBurst, drain = "Writing", QueueReply(current[1], n)
        PROVE  More
    <3>1. current[1].origin \in Origins /\ n \in Nat
      <4>1. HeldInv /\ current \in Seq(Chunk)
          BY Zenon DEF PumpInv, PumpType
      <4>2. 1 \in DOMAIN current
          BY <2>2, <4>1 DEF HeldInv
      <4>3. n \in Nat
          BY PumpAssumption
      <4> QED BY <4>1, <4>2, <4>3, ChunkAt, Zenon
    <3> QED BY <2>2, <3>1, QueueReplyFacts, Zenon DEF ReplyInv
  <2>3. ASSUME NEW n \in 0..MaxBurst, DrainWrite(n) \/ DrainWriteFails(n)
        PROVE  \/ UNCHANGED <<replies, replySequence>>
               \/ drain = "Writing" /\ QueueReply(current[1], n)
      BY <2>3, Zenon DEF DrainWrite, DrainWriteFails, WriteSucceeds, WriteFails, Parse,
         documentVars
  <2>4. CASE \E o \in Origins : Call(o) \/ AcquireSlot(o) \/ Enqueue(o) \/ WaitCancelled(o)
      BY <2>1, <2>4, ZenonT(30) DEF Call, AcquireSlot, Enqueue, WaitCancelled,
         documentVars
  <2>5. CASE CompleteAsync \/ Dispose \/ Fail \/ InvokeDrain \/ DrainTake \/ DrainEnd \/ Shutdown
    <3>1. CASE CompleteAsync \/ Dispose \/ Fail \/ InvokeDrain
        BY <2>1, <3>1, Zenon DEF CompleteAsync, Dispose, Fail, InvokeDrain, documentVars
    <3>2. CASE DrainTake \/ DrainEnd \/ Shutdown
        BY <2>1, <3>2, Zenon DEF DrainTake, DrainEnd, Shutdown, EndDocumentStream,
           documentVars
    <3> QED BY <2>5, <3>1, <3>2, Zenon
  <2> QED BY <2>1, <2>2, <2>3, <2>4, <2>5, Zenon DEF PumpStep, Dispatcher
<1>3. ReplyType'
    BY <1>1, <1>2 DEF ReplyType
<1>4. \A s \in Seq(Chunk) : Gone(s) =>
          UpTo(s, replySequence') /\ Before(s, replies') /\ Distinct(s)
    BY <1>2, Zenon DEF Gone
<1>5. UpTo(received, replySequence') /\ Before(received, replies') /\ Distinct(received)
    BY <1>1, <1>4, Zenon DEF ReplyInv, ReplyType
<1>6. \A o \in Origins :
          /\ UpTo(collected[o], replySequence') /\ Before(collected[o], replies')
          /\ Distinct(collected[o])
    BY <1>1, <1>4, Zenon DEF ReplyInv
<1>7. Gone(received)' /\ \A o \in Origins : Gone(collected[o])'
    BY <1>1, <1>5, <1>6, ZenonT(30) DEF Gone
<1> QED BY <1>1, <1>2, <1>3, <1>7, ForwardersStay, Zenon DEF ReplyInv

\* What one reader does with the replies.
LEMMA CollectKeeps ==
    ASSUME SessionInv, NEW o \in Origins, Collect(o)
    PROVE  SessionInv'
<1> USE DEF SessionInv
<1>1. PumpInv'
    BY QuietKeeps, ZenonT(30) DEF Collect, DrainReplies, pumpVars
<1>2. /\ replies' = <<>> /\ replySequence' = replySequence /\ received' = received
      /\ caller' = caller /\ caller[o] = "Ok"
      /\ forwarding' = [forwarding EXCEPT ![o] = TRUE]
      /\ collected' = [collected EXCEPT ![o] = replies]
    BY Zenon DEF Collect, DrainReplies, pumpVars
<1>3. ReplyType'
    BY <1>2, DocumentAssumption, SMTT(30) DEF ReplyType
<1>4. /\ \A p \in Origins : collected'[p] = IF p = o THEN replies ELSE collected[p]
      /\ \A p \in Origins : forwarding'[p] = IF p = o THEN TRUE ELSE forwarding[p]
    BY <1>2, Zenon DEF ReplyType
<1>5. /\ Distinct(replies) /\ Apart(replies, received)
      /\ \A p \in Origins : Apart(replies, collected[p]) /\ Apart(collected[p], replies)
  <2>1. replies \in Seq(Chunk) /\ received \in Seq(Chunk) /\ \A p \in Origins : collected[p] \in Seq(Chunk)
      BY DEF ReplyType
  <2> QED BY <2>1, OrderFacts, Zenon DEF ReplyInv, Gone
<1>6. /\ Increasing(replies') /\ UpTo(replies', replySequence') /\ Gone(received)'
    BY <1>2, NoReplies, ZenonT(30) DEF ReplyInv, Gone
<1>7. \A p \in Origins : Gone(collected[p])' /\ Apart(collected[p], received)'
    BY <1>2, <1>4, <1>5, NoReplies, Zenon DEF ReplyInv, Gone
<1>8. \A p, q \in Origins : p # q => Apart(collected[p], collected[q])'
    BY <1>4, <1>5, ZenonT(30) DEF ReplyInv
<1>9. \A p \in Origins : forwarding'[p] => caller'[p] = "Ok"
    BY <1>2, <1>4, Zenon DEF ReplyInv
<1> QED BY <1>1, <1>3, <1>6, <1>7, <1>8, <1>9, Zenon DEF ReplyInv

\* It hands one over;
LEMMA ForwardKeeps ==
    ASSUME SessionInv, NEW o \in Origins, Forward(o)
    PROVE  SessionInv'
<1> USE DEF SessionInv
<1>1. PumpInv'
    BY QuietKeeps, ZenonT(30) DEF Forward, vars, pumpVars, documentVars
<1> DEFINE c == collected[o]
           a == Append(received, Head(c))
<1>2. /\ replies' = replies /\ replySequence' = replySequence /\ received' = a
      /\ caller' = caller /\ forwarding' = forwarding /\ c # <<>>
      /\ collected' = [collected EXCEPT ![o] = Tail(c)]
    BY Zenon DEF Forward, vars, pumpVars, documentVars
<1>3. /\ c \in Seq(Chunk) /\ received \in Seq(Chunk) /\ Gone(c) /\ Gone(received)
      /\ Apart(c, received)
    BY Zenon DEF ReplyType, ReplyInv
<1>4. /\ Tail(c) \in Seq(Chunk) /\ a \in Seq(Chunk)
      /\ UpTo(Tail(c), replySequence) /\ UpTo(a, replySequence)
      /\ Before(Tail(c), replies) /\ Before(a, replies)
      /\ Distinct(Tail(c)) /\ Distinct(a) /\ Apart(Tail(c), a)
  <2> HIDE DEF c
  <2> QED BY <1>2, <1>3, HandOver DEF Gone
<1>5. ASSUME NEW p \in Origins, p # o
      PROVE  /\ Apart(collected[p], Tail(c)) /\ Apart(Tail(c), collected[p])
             /\ Apart(collected[p], a)
  <2>1. Apart(collected[p], c) /\ Apart(c, collected[p]) /\ Apart(collected[p], received)
      BY <1>5, Zenon DEF ReplyInv
  <2> HIDE DEF c
  <2> QED BY <1>2, <1>3, <2>1, HandOver, ZenonT(30)
<1> HIDE DEF a
<1>6. \A p \in Origins : collected'[p] = IF p = o THEN Tail(c) ELSE collected[p]
    BY <1>2 DEF ReplyType
<1> HIDE DEF c
<1>7. ReplyType'
    BY <1>2, <1>4, Zenon DEF ReplyType
<1>8. Increasing(replies') /\ UpTo(replies', replySequence') /\ Gone(received)'
    BY <1>2, <1>4, ZenonT(30) DEF ReplyInv, Gone
<1>9. \A p \in Origins : Gone(collected[p])' /\ Apart(collected[p], received)'
    BY <1>2, <1>4, <1>5, <1>6, Zenon DEF ReplyInv, Gone
<1>10. \A p, q \in Origins : p # q => Apart(collected[p], collected[q])'
    BY <1>5, <1>6, Zenon DEF ReplyInv
<1>11. \A p \in Origins : forwarding'[p] => caller'[p] = "Ok"
    BY <1>2, ZenonT(30) DEF ReplyInv
<1> QED BY <1>1, <1>7, <1>8, <1>9, <1>10, <1>11, Zenon DEF ReplyInv

\* or leaves, returning to its reader or throwing.
LEMMA LeaveKeeps ==
    ASSUME SessionInv, NEW o \in Origins,
           Accepted(o) \/ CollectCancelled(o) \/ ForwardThrows(o)
    PROVE  SessionInv'
<1> USE DEF SessionInv
<1>1. caller[o] = "Ok" /\ (Return(o) \/ Throw(o))
    BY Zenon DEF Accepted, CollectCancelled, ForwardThrows, ReplyInv
<1>2. PumpInv'
    BY <1>1, CallKeeps DEF Throw, ReaderThrows
<1>3. /\ replies' = replies /\ replySequence' = replySequence /\ received' = received
      /\ forwarding' = [forwarding EXCEPT ![o] = FALSE]
      /\ collected' = [collected EXCEPT ![o] = <<>>]
  <2>1. CASE Accepted(o)
    <3>1. collected = [collected EXCEPT ![o] = <<>>]
        BY <2>1, ZenonT(30) DEF Accepted, ReplyType
    <3> QED BY <2>1, <3>1 DEF Accepted, Return, documentVars
  <2>2. CASE CollectCancelled(o) \/ ForwardThrows(o)
      BY <2>2, Zenon DEF CollectCancelled, ForwardThrows, Throw, documentVars
  <2> QED BY <2>1, <2>2, Zenon
<1>4. \A p \in Origins : p # o => caller'[p] = caller[p]
    BY <1>1 DEF Return, Throw, PumpInv, PumpType
<1>5. /\ \A p \in Origins : collected'[p] = IF p = o THEN <<>> ELSE collected[p]
      /\ ~forwarding'[o] /\ \A p \in Origins \ {o} : forwarding'[p] = forwarding[p]
    BY <1>3 DEF ReplyType
<1>6. ReplyType'
    BY <1>3, SMTT(30) DEF ReplyType
<1>7. Increasing(replies') /\ UpTo(replies', replySequence') /\ Gone(received)'
    BY <1>3, ZenonT(30) DEF ReplyInv, Gone
<1>8. \A p \in Origins : Gone(collected[p])' /\ Apart(collected[p], received)'
    BY <1>3, <1>5, NoReplies, Zenon DEF ReplyInv, Gone
<1>9. \A p, q \in Origins : p # q => Apart(collected[p], collected[q])'
    BY <1>5, NoReplies, ZenonT(30) DEF ReplyInv
<1>10. ASSUME NEW p \in Origins, forwarding'[p] PROVE caller'[p] = "Ok"
  <2>1. p # o
      BY <1>5, <1>10, Zenon
  <2>2. forwarding[p]
      BY <1>5, <1>10, <2>1
  <2> QED BY <1>4, <2>1, <2>2, Zenon DEF ReplyInv
<1> QED BY <1>2, <1>6, <1>7, <1>8, <1>9, <1>10, Zenon DEF ReplyInv

\* Every step of the session keeps the invariant.
LEMMA SessionStepKeeps == SessionInv /\ [SessionNext]_sessionVars => SessionInv'
<1> SUFFICES ASSUME SessionInv, [SessionNext]_sessionVars PROVE SessionInv'
    OBVIOUS
<1>1. ASSUME UNCHANGED <<vars, forwarding, collected, received>> PROVE SessionInv'
    BY <1>1, QuietKeeps DEF SessionInv, vars, pumpVars, documentVars, ReplyType, ReplyInv,
       Gone
<1>2. CASE PumpStep
  <2>1. PumpInv'
      BY <1>2, CallKeeps, AcquireSlotKeeps, EnqueueKeeps, CompleteAsyncKeeps,
         AbandonKeeps, PumpDispatches, SMTT(30) DEF PumpStep, SessionInv
  <2> QED BY <1>2, <2>1, PumpRepliesKeep, Zenon DEF SessionInv
<1>3. ASSUME NEW o \in Origins, AcceptOutput(o) \/ Stop(o) PROVE SessionInv'
    BY <1>1, <1>3, CollectKeeps, ForwardKeeps, LeaveKeeps DEF AcceptOutput, Stop
<1> QED BY <1>1, <1>2, <1>3, Zenon DEF SessionNext, sessionVars, replyVars

\* The session begins with no reply anywhere.
LEMMA SessionInvariant == SessionSpec => []SessionInv
<1>1. SessionInit => SessionInv
    BY InitPump, NoReplies, DocumentAssumption, SMTT(30) DEF SessionInit, Init,
       DocumentInit, SessionInv, ReplyType, ReplyInv, Gone
<1> QED BY <1>1, SessionStepKeeps, PTL DEF SessionSpec

\* The invariant puts every reply in one place.
LEMMA InvReplies == SessionInv => RepliesOnce
<1> SUFFICES ASSUME SessionInv PROVE RepliesOnce
    OBVIOUS
<1> DEFINE inFlight == UNION {{<<o, i>> : i \in DOMAIN collected[o]} : o \in Origins}
           Number(p) == collected[p[1]][p[2]].seq
<1>1. \A p \in inFlight : \E o \in Origins : \E i \in DOMAIN collected[o] : p = <<o, i>>
    OBVIOUS
<1> HIDE DEF inFlight
<1>2. ASSUME NEW p \in inFlight, NEW q \in inFlight, Number(p) = Number(q) PROVE p = q
  <2>1. PICK o \in Origins : \E i \in DOMAIN collected[o] : p = <<o, i>>
      BY <1>1
  <2>2. PICK i \in DOMAIN collected[o] : p = <<o, i>>
      BY <2>1
  <2>3. PICK r \in Origins : \E j \in DOMAIN collected[r] : q = <<r, j>>
      BY <1>1
  <2>4. PICK j \in DOMAIN collected[r] : q = <<r, j>>
      BY <2>3
  <2>5. collected[o][i].seq = collected[r][j].seq
      BY <1>2, <2>2, <2>4, SMTT(30)
  <2>6. o = r
      BY <2>5, ZenonT(30) DEF SessionInv, ReplyInv, Apart
  <2> QED BY <2>2, <2>4, <2>5, <2>6, Zenon DEF SessionInv, ReplyInv, Gone, Distinct
<1>3. ASSUME NEW p \in inFlight
      PROVE  /\ \A i \in DOMAIN received : Number(p) # received[i].seq
             /\ \A i \in DOMAIN replies : Number(p) < replies[i].seq
  <2>1. PICK o \in Origins : \E i \in DOMAIN collected[o] : p = <<o, i>>
      BY <1>1
  <2>2. PICK i \in DOMAIN collected[o] : p = <<o, i>>
      BY <2>1, ZenonT(30)
  <2> QED BY <2>2, Zenon DEF SessionInv, ReplyInv, Gone, Apart, Before
<1>4. /\ \A i, j \in DOMAIN received : received[i].seq = received[j].seq => i = j
      /\ \A i \in DOMAIN replies : \A j \in DOMAIN received : received[j].seq < replies[i].seq
    BY Zenon DEF SessionInv, ReplyInv, Gone, Distinct, Before
<1> QED BY <1>2, <1>3, <1>4, Zenon DEF RepliesOnce, inFlight

\* TerminalSession.cs, AcceptOutputAsync: every reply is in the document, with
\* one reader or received, so no transport is given an answer twice although
\* each reader drains the replies of all.
THEOREM SessionRepliesOnce == SessionSpec => []RepliesOnce
BY SessionInvariant, InvReplies, PTL

\* The pump keeps its promises under the session's readers too, which throw
\* out of AcceptOutputAsync and stop with their transports.
THEOREM SessionOutputCommitted == SessionSpec => [](CallsAccounted /\ OutputCommitted)
<1>1. SessionInv => CallsAccounted /\ OutputCommitted
    BY InvCalls, InvOutput DEF SessionInv
<1> QED BY <1>1, SessionInvariant, PTL
=============================================================================
