--------------------- MODULE SessionOutboundQueueProofs ---------------------
(***************************************************************************)
(* TLAPS proofs about SessionOutboundQueue, for every capacity and every   *)
(* number of operations.                                                   *)
(***************************************************************************)
EXTENDS SessionOutboundQueue, SequenceTheorems, TLAPS

Growing(s) == \A i, j \in DOMAIN s : i < j => s[i].seq < s[j].seq
Below(s, t) == \A i \in DOMAIN s, j \in DOMAIN t : s[i].seq < t[j].seq
UpTo(s, n) == \A i \in DOMAIN s : s[i].seq <= n

\* Where the worker stands determines what it holds and what it has seen.
WorkerShape ==
    /\ worker = "Writing" => Len(writing) = 1
    /\ worker # "Writing" => writing = <<>>
    /\ completion = "Pending" <=> worker # "Done"
    /\ worker \in {"Draining", "Completing"} => pending = <<>>
    /\ worker \in {"Draining", "Completing", "Done"} => ~accepting
    /\ disposed => ~accepting /\ pending = <<>>

\* Sequence numbers grow along delivered, writing, pending, and along told.
Ordered ==
    /\ Growing(delivered) /\ Growing(pending) /\ Growing(told)
    /\ Below(delivered, writing) /\ Below(delivered, pending) /\ Below(writing, pending)
    /\ UpTo(delivered, nextSequence) /\ UpTo(writing, nextSequence)
    /\ UpTo(pending, nextSequence) /\ UpTo(told, nextSequence)

\* The newest pending operation is the newest one told.
LastTold ==
    pending # <<>> => told # <<>> /\ told[Len(told)] = pending[Len(pending)]

\* Once the sink completes, everything told has been delivered.
Drained ==
    worker = "Completing" => Accounted(Range(delivered))

Inv ==
    /\ TypeOK
    /\ WorkerShape
    /\ SlotsMatch
    /\ Ordered
    /\ LastTold
    /\ NothingLost
    /\ Drained
    /\ SuccessMeansDelivered
    /\ WorkerJoined

-----------------------------------------------------------------------------
(* Facts about the sequence operators the queue uses. *)

\* AddLast, as used by TryEnqueue, leaves the older operations in place.
LEMMA AddLastFacts ==
    ASSUME NEW s \in Seq(Operation), NEW e \in Operation
    PROVE  /\ AddLast(s, e) \in Seq(Operation)
           /\ Len(AddLast(s, e)) = Len(s) + 1
           /\ \A i \in 1..Len(s) : AddLast(s, e)[i] = s[i]
           /\ AddLast(s, e)[Len(s) + 1] = e
           /\ DOMAIN AddLast(s, e) = 1..(Len(s) + 1)
    BY AppendProperties, LenProperties DEF AddLast

\* ReplaceLast, as used by a coalesced resize, changes the last place only.
LEMMA ReplaceLastFacts ==
    ASSUME NEW s \in Seq(Operation), NEW e \in Operation, s # <<>>
    PROVE  /\ ReplaceLast(s, e) \in Seq(Operation)
           /\ Len(ReplaceLast(s, e)) = Len(s)
           /\ \A i \in 1..(Len(s) - 1) : ReplaceLast(s, e)[i] = s[i]
           /\ ReplaceLast(s, e)[Len(s)] = e
           /\ DOMAIN ReplaceLast(s, e) = 1..Len(s)
<1>1. Len(s) \in 1..Len(s)
    BY EmptySeq, LenProperties
<1> QED
    BY <1>1, ExceptSeq, LenProperties DEF ReplaceLast

\* What remains when the worker removes the first operation.
LEMMA TailFacts ==
    ASSUME NEW s \in Seq(Operation), s # <<>>
    PROVE  /\ Head(s) = s[1] /\ Head(s) \in Operation
           /\ Tail(s) \in Seq(Operation)
           /\ Len(s) \in Nat \ {0}
           /\ Len(Tail(s)) = Len(s) - 1
           /\ DOMAIN Tail(s) = 1..(Len(s) - 1)
           /\ DOMAIN s = 1..Len(s)
           /\ \A i \in 1..(Len(s) - 1) : Tail(s)[i] = s[i + 1]
    BY HeadTailProperties, EmptySeq, LenProperties

\* Operations of a list carry natural sequence numbers.
LEMMA SeqNumber ==
    ASSUME NEW s \in Seq(Operation), NEW i \in DOMAIN s
    PROVE  s[i] \in Operation /\ s[i].seq \in Nat
<1>1. s[i] \in Operation
    BY ElementOfSeq, LenProperties
<1> QED
    BY <1>1 DEF Operation

\* The order of sequence numbers survives a newer operation at the end,
LEMMA OrderAddLast ==
    ASSUME NEW s \in Seq(Operation), NEW e \in Operation, NEW n \in Nat,
           e.seq = n + 1, Growing(s), UpTo(s, n)
    PROVE  /\ Growing(AddLast(s, e)) /\ UpTo(AddLast(s, e), n + 1)
           /\ \A t \in Seq(Operation) :
                 Below(t, s) /\ UpTo(t, n) => Below(t, AddLast(s, e))
<1>1. DOMAIN s = 1..Len(s) /\ Len(s) \in Nat
    BY LenProperties
<1>2. \A i \in DOMAIN s : s[i].seq \in Nat /\ s[i].seq <= n
    BY SeqNumber DEF UpTo
<1>3. /\ DOMAIN AddLast(s, e) = 1..(Len(s) + 1)
      /\ \A i \in 1..Len(s) : AddLast(s, e)[i] = s[i]
      /\ AddLast(s, e)[Len(s) + 1] = e
    BY AddLastFacts
<1>4. Growing(AddLast(s, e))
    BY <1>1, <1>2, <1>3 DEF Growing
<1>5. UpTo(AddLast(s, e), n + 1)
    BY <1>1, <1>2, <1>3 DEF UpTo
<1>6. ASSUME NEW t \in Seq(Operation), Below(t, s), UpTo(t, n)
      PROVE  Below(t, AddLast(s, e))
  <2>1. \A i \in DOMAIN t : t[i].seq \in Nat /\ t[i].seq <= n
      BY <1>6, SeqNumber DEF UpTo
  <2> QED
      BY <1>1, <1>3, <1>6, <2>1 DEF Below
<1> QED
    BY <1>4, <1>5, <1>6

\* a newer operation in the last place,
LEMMA OrderReplaceLast ==
    ASSUME NEW s \in Seq(Operation), NEW e \in Operation, NEW n \in Nat,
           e.seq = n + 1, Growing(s), UpTo(s, n), s # <<>>
    PROVE  /\ Growing(ReplaceLast(s, e)) /\ UpTo(ReplaceLast(s, e), n + 1)
           /\ \A t \in Seq(Operation) :
                 Below(t, s) /\ UpTo(t, n) => Below(t, ReplaceLast(s, e))
<1>1. DOMAIN s = 1..Len(s) /\ Len(s) \in Nat
    BY LenProperties
<1>2. \A i \in DOMAIN s : s[i].seq \in Nat /\ s[i].seq <= n
    BY SeqNumber DEF UpTo
<1>3. /\ DOMAIN ReplaceLast(s, e) = 1..Len(s)
      /\ \A i \in 1..(Len(s) - 1) : ReplaceLast(s, e)[i] = s[i]
      /\ ReplaceLast(s, e)[Len(s)] = e
    BY ZenonT(30), ReplaceLastFacts
<1>4. Growing(ReplaceLast(s, e))
    BY <1>1, <1>2, <1>3 DEF Growing
<1>5. UpTo(ReplaceLast(s, e), n + 1)
    BY <1>1, <1>2, <1>3 DEF UpTo
<1>6. ASSUME NEW t \in Seq(Operation), Below(t, s), UpTo(t, n)
      PROVE  Below(t, ReplaceLast(s, e))
  <2> SUFFICES ASSUME NEW i \in DOMAIN t, NEW j \in 1..Len(s)
               PROVE  t[i].seq < ReplaceLast(s, e)[j].seq
      BY <1>3 DEF Below
  <2>1. t[i].seq \in Nat /\ t[i].seq <= n
      BY <1>6, SeqNumber DEF UpTo
  <2>2. CASE j = Len(s)
      BY <1>3, <2>1, <2>2
  <2>3. CASE j \in 1..(Len(s) - 1)
      BY <1>1, <1>3, <1>6, <2>3 DEF Below
  <2>4. \A l \in Nat : j \in 1..l => j = l \/ j \in 1..(l - 1)
      OBVIOUS
  <2> QED
      BY Zenon, <1>1, <2>2, <2>3, <2>4
<1> QED
    BY <1>4, <1>5, <1>6

\* the removal of the first operation,
LEMMA OrderTail ==
    ASSUME NEW s \in Seq(Operation), s # <<>>, NEW n \in Nat, Growing(s), UpTo(s, n)
    PROVE  /\ Growing(Tail(s)) /\ UpTo(Tail(s), n) /\ UpTo(<<Head(s)>>, n)
           /\ Below(<<Head(s)>>, Tail(s))
           /\ \A t \in Seq(Operation) : Below(t, s) => Below(t, Tail(s)) /\ Below(t, <<Head(s)>>)
    BY SMTT(30), TailFacts DEF Growing, UpTo, Below

\* and the move of the operation being written to the delivered ones.
LEMMA OrderAppend ==
    ASSUME NEW s \in Seq(Operation), NEW e \in Operation, NEW n \in Nat,
           Growing(s), UpTo(s, n), e.seq <= n, Below(s, <<e>>)
    PROVE  /\ Growing(Append(s, e)) /\ UpTo(Append(s, e), n)
           /\ \A t \in Seq(Operation) :
                Below(s, t) /\ Below(<<e>>, t) => Below(Append(s, e), t)
<1>1. /\ DOMAIN s = 1..Len(s) /\ Len(s) \in Nat
      /\ DOMAIN Append(s, e) = 1..(Len(s) + 1)
      /\ \A i \in 1..Len(s) : Append(s, e)[i] = s[i]
      /\ Append(s, e)[Len(s) + 1] = e
    BY LenProperties, AppendProperties
<1> QED
    BY <1>1 DEF Growing, UpTo, Below

\* A bound on sequence numbers survives the next number.
LEMMA UpToMonotone ==
    ASSUME NEW s \in Seq(Operation), NEW n \in Nat, UpTo(s, n)
    PROVE  UpTo(s, n + 1)
    BY SeqNumber DEF UpTo

\* A growing sequence holds no operation twice.
LEMMA GrowingInjective ==
    ASSUME NEW s \in Seq(Operation), Growing(s), NEW i \in DOMAIN s, NEW j \in DOMAIN s,
           s[i] = s[j]
    PROVE  i = j
<1>1. s[i].seq \in Nat /\ s[j].seq \in Nat /\ i \in Nat /\ j \in Nat
    BY SeqNumber, LenProperties
<1> QED
    BY <1>1 DEF Growing

\* Telling one more operation keeps every resize that was overtaken so.
LEMMA SupersededStays ==
    ASSUME NEW e \in Operation, told \in Seq(Operation), told' = Append(told, e),
           NEW i \in DOMAIN told, Superseded(i)
    PROVE  Superseded(i)'
    BY AppendProperties, LenProperties DEF Superseded

-----------------------------------------------------------------------------
(* The invariant. *)

\* The constructor establishes the invariant.
LEMMA InitInv == Init => Inv
<1> SUFFICES ASSUME Init PROVE Inv
    OBVIOUS
<1> USE QueueAssumption DEF Init
<1>1. <<>> \in Seq(Operation) /\ Len(<<>>) = 0 /\ DOMAIN <<>> = {}
    BY EmptySeq, LenProperties
<1>2. SlotsMatch
    BY <1>1 DEF SlotsMatch
<1>2a. slots \in 0..Capacity /\ nextSequence \in 0..MaxSequence /\ available \in Nat
    BY DEF Init
<1>2b. accepting \in BOOLEAN /\ disposed \in BOOLEAN /\ released \in BOOLEAN
    BY Zenon
<1>2c. TypeOK
    BY <1>1, <1>2a, <1>2b DEF TypeOK, WorkerStates
<1>3. WorkerShape
    BY DEF WorkerShape
<1>4. Ordered
    BY <1>1 DEF Ordered, Growing, Below, UpTo
<1> QED
    BY <1>1, <1>2, <1>2c, <1>3, <1>4 DEF Inv, LastTold, NothingLost, Accounted, Drained,
       SuccessMeansDelivered, WorkerJoined

\* A resize replaces the pending resize at the end of the list.
LEMMA CoalesceInv ==
    ASSUME Inv, NEW op \in Operation, op.seq = nextSequence + 1, op.kind = "Resize",
           pending # <<>>, pending[Len(pending)].kind = "Resize",
           accepting, ~disposed,
           nextSequence' = nextSequence + 1, nextSequence < MaxSequence,
           pending' = ReplaceLast(pending, op), told' = Append(told, op),
           UNCHANGED <<slots, available, accepting, disposed, worker, writing,
                       completion, released, delivered>>
    PROVE  Inv'
<1> USE DEF Inv
<1>0. /\ nextSequence \in Nat /\ nextSequence' \in 0..MaxSequence
      /\ worker \notin {"Draining", "Completing", "Done"} /\ completion = "Pending"
    BY QueueAssumption DEF TypeOK, WorkerShape
<1>1. /\ pending' \in Seq(Operation) /\ Len(pending') = Len(pending)
      /\ DOMAIN pending' = 1..Len(pending) /\ DOMAIN pending = 1..Len(pending)
      /\ Len(pending) \in Nat \ {0}
      /\ \A i \in 1..(Len(pending) - 1) : pending'[i] = pending[i]
      /\ pending'[Len(pending)] = op
  <2>1. pending \in Seq(Operation)
      BY DEF TypeOK
  <2>2. DOMAIN pending = 1..Len(pending) /\ Len(pending) \in Nat \ {0}
      BY <2>1, LenProperties, EmptySeq
  <2> QED
      BY ZenonT(30), <2>1, <2>2, ReplaceLastFacts
<1>2. /\ told' = AddLast(told, op)
      /\ told' \in Seq(Operation) /\ Len(told') = Len(told) + 1
      /\ Len(told) \in Nat /\ told' # <<>>
      /\ DOMAIN told' = 1..(Len(told) + 1) /\ DOMAIN told = 1..Len(told)
      /\ \A i \in 1..Len(told) : told'[i] = told[i]
      /\ told'[Len(told) + 1] = op
  <2>1. told \in Seq(Operation) /\ told' = AddLast(told, op)
      BY DEF TypeOK, AddLast
  <2>2. DOMAIN told = 1..Len(told) /\ Len(told) \in Nat
      BY <2>1, LenProperties
  <2>3. told' # <<>>
      BY ZenonT(60), <2>1, AppendProperties
  <2>4. /\ AddLast(told, op) \in Seq(Operation) /\ Len(AddLast(told, op)) = Len(told) + 1
        /\ DOMAIN AddLast(told, op) = 1..(Len(told) + 1)
        /\ \A i \in 1..Len(told) : AddLast(told, op)[i] = told[i]
        /\ AddLast(told, op)[Len(told) + 1] = op
      BY Zenon, <2>1, AddLastFacts
  <2> QED
      BY <2>1, <2>2, <2>3, <2>4
<1>3. TypeOK'
    BY <1>0, <1>1, <1>2 DEF TypeOK
<1>4. WorkerShape' /\ SlotsMatch' /\ WorkerJoined' /\ Drained' /\ SuccessMeansDelivered'
    BY <1>0, <1>1 DEF WorkerShape, SlotsMatch, WorkerJoined, Drained,
       SuccessMeansDelivered
<1>5. Ordered'
    BY <1>0, <1>2, OrderReplaceLast, OrderAddLast, UpToMonotone DEF Ordered, TypeOK
<1>6. LastTold'
  <2>1. pending'[Len(pending')] = op /\ told'[Len(told')] = op
      BY <1>1, <1>2
  <2> QED
      BY <2>1, <1>2 DEF LastTold
<1>7. NothingLost'
  <2> SUFFICES ASSUME NEW i \in DOMAIN told',
                      told'[i] \notin Range(delivered) \cup Range(writing) \cup Range(pending')
               PROVE  Superseded(i)'
      BY DEF NothingLost, Accounted
  <2>1. op \in Range(pending')
    <3>1. Len(pending) \in DOMAIN pending' /\ pending'[Len(pending)] = op
        BY <1>1
    <3> QED
        BY <3>1 DEF Range
  <2>2. i \in 1..Len(told) /\ told'[i] = told[i]
      BY <2>1, <1>2
  <2>3. CASE told[i] \in Range(pending)
    <3>1. PICK k \in 1..Len(pending) : told[i] = pending[k]
        BY <2>3, <1>1 DEF Range
    <3>2. k = Len(pending)
      <4>1. pending'[k] \in Range(pending')
          BY ZenonT(30), <1>1 DEF Range
      <4>2. pending'[k] # pending[k]
          BY <4>1, <3>1, <2>2
      <4>3. k \notin 1..(Len(pending) - 1)
          BY <4>2, <1>1
      <4>4. Len(pending) \in Nat
          BY <1>1
      <4> QED
          BY <4>3, <4>4
    <3>3. told[i] = told[Len(told)] /\ told[i].kind = "Resize"
        BY <3>1, <3>2 DEF LastTold
    <3>4. i = Len(told)
      <4>1. told \in Seq(Operation) /\ Growing(told)
            /\ i \in DOMAIN told /\ Len(told) \in DOMAIN told
          BY <2>2, <1>2 DEF Ordered, TypeOK
      <4> QED
          BY <4>1, <3>3, GrowingInjective
    <3> QED
        BY <3>3, <3>4, <2>2, <1>2 DEF Superseded
  <2>4. CASE told[i] \notin Range(pending)
    <3>1. Superseded(i)
        BY <2>2, <2>4, <1>0, <1>2 DEF NothingLost, Accounted
    <3> QED
        BY <3>1, <2>2, <1>2, SupersededStays DEF TypeOK
  <2> QED
      BY <2>3, <2>4
<1> QED
    BY <1>3, <1>4, <1>5, <1>6, <1>7

\* An operation takes a slot and the end of the list.
LEMMA AcceptInv ==
    ASSUME Inv, NEW op \in Operation, op.seq = nextSequence + 1,
           accepting, ~disposed, slots > 0,
           nextSequence' = nextSequence + 1, nextSequence < MaxSequence,
           pending' = AddLast(pending, op), told' = Append(told, op),
           slots' = slots - 1, available' = available + 1,
           UNCHANGED <<accepting, disposed, worker, writing, completion, released, delivered>>
    PROVE  Inv'
<1> USE DEF Inv
<1>0. /\ nextSequence \in Nat /\ nextSequence' \in 0..MaxSequence
      /\ worker \notin {"Draining", "Completing", "Done"} /\ completion = "Pending"
      /\ slots' \in 0..Capacity /\ available' \in Nat
    BY QueueAssumption DEF TypeOK, WorkerShape
<1>1. /\ pending' \in Seq(Operation) /\ Len(pending') = Len(pending) + 1
      /\ DOMAIN pending' = 1..(Len(pending) + 1) /\ DOMAIN pending = 1..Len(pending)
      /\ Len(pending) \in Nat
      /\ \A i \in 1..Len(pending) : pending'[i] = pending[i]
      /\ pending'[Len(pending) + 1] = op
    BY Zenon, AddLastFacts, LenProperties DEF TypeOK
<1>2. /\ told' = AddLast(told, op)
      /\ told' \in Seq(Operation) /\ Len(told') = Len(told) + 1
      /\ Len(told) \in Nat /\ told' # <<>>
      /\ DOMAIN told' = 1..(Len(told) + 1) /\ DOMAIN told = 1..Len(told)
      /\ \A i \in 1..Len(told) : told'[i] = told[i]
      /\ told'[Len(told) + 1] = op
  <2>1. told \in Seq(Operation) /\ told' = AddLast(told, op)
      BY DEF TypeOK, AddLast
  <2>2. DOMAIN told = 1..Len(told) /\ Len(told) \in Nat
      BY <2>1, LenProperties
  <2>3. told' # <<>>
      BY ZenonT(60), <2>1, AppendProperties
  <2>4. /\ AddLast(told, op) \in Seq(Operation) /\ Len(AddLast(told, op)) = Len(told) + 1
        /\ DOMAIN AddLast(told, op) = 1..(Len(told) + 1)
        /\ \A i \in 1..Len(told) : AddLast(told, op)[i] = told[i]
        /\ AddLast(told, op)[Len(told) + 1] = op
      BY Zenon, <2>1, AddLastFacts
  <2> QED
      BY <2>1, <2>2, <2>3, <2>4
<1>3. TypeOK'
    BY <1>0, <1>1, <1>2 DEF TypeOK
<1>4. SlotsMatch'
  <2>1. slots + Len(pending) = Capacity /\ slots \in Nat /\ Capacity \in Nat
      BY QueueAssumption DEF SlotsMatch, TypeOK
  <2> QED
      BY SMTT(30), <2>1, <1>1 DEF SlotsMatch
<1>5. WorkerShape' /\ WorkerJoined' /\ Drained' /\ SuccessMeansDelivered'
    BY <1>0, <1>1 DEF WorkerShape, WorkerJoined, Drained, SuccessMeansDelivered
<1>6. Ordered'
    BY <1>0, <1>2, OrderAddLast, UpToMonotone DEF Ordered, TypeOK
<1>7. LastTold'
    BY <1>1, <1>2 DEF LastTold
<1>8. NothingLost'
  <2> SUFFICES ASSUME NEW i \in DOMAIN told',
                      told'[i] \notin Range(delivered) \cup Range(writing) \cup Range(pending')
               PROVE  Superseded(i)'
      BY DEF NothingLost, Accounted
  <2>1. op \in Range(pending') /\ Range(pending) \subseteq Range(pending')
    <3>1. Len(pending) + 1 \in DOMAIN pending' /\ pending'[Len(pending) + 1] = op
        BY <1>1
    <3>2. \A j \in DOMAIN pending : j \in DOMAIN pending' /\ pending'[j] = pending[j]
        BY <1>1
    <3> QED
        BY <3>1, <3>2 DEF Range
  <2>2. i \in 1..Len(told) /\ told'[i] = told[i]
      BY <2>1, <1>2
  <2>3. Superseded(i)
      BY <2>1, <2>2, <1>0, <1>2 DEF NothingLost, Accounted
  <2> QED
      BY <2>3, <2>2, <1>2, SupersededStays DEF TypeOK
<1> QED
    BY <1>3, <1>4, <1>5, <1>6, <1>7, <1>8

\* A full queue only consumes a sequence number.
LEMMA FullInv ==
    ASSUME Inv, nextSequence' = nextSequence + 1, nextSequence < MaxSequence,
           UNCHANGED <<pending, told, slots, available, accepting, disposed, worker,
                       writing, completion, released, delivered>>
    PROVE  Inv'
<1> USE DEF Inv
<1>1. nextSequence \in Nat /\ nextSequence' \in 0..MaxSequence
    BY QueueAssumption DEF TypeOK
<1>2. TypeOK'
    BY <1>1 DEF TypeOK
<1>3. UpTo(delivered, nextSequence + 1) /\ UpTo(writing, nextSequence + 1)
      /\ UpTo(pending, nextSequence + 1) /\ UpTo(told, nextSequence + 1)
    BY <1>1, UpToMonotone DEF Ordered, TypeOK
<1>4. Ordered'
    BY <1>3 DEF Ordered, Growing, Below, UpTo
<1> QED
    BY <1>2, <1>4 DEF WorkerShape, SlotsMatch, LastTold, NothingLost, Accounted,
       Superseded, Drained, SuccessMeansDelivered, WorkerJoined

\* TryEnqueue is one of the three cases above.
LEMMA TryEnqueueInv ==
    ASSUME Inv, NEW g \in Generations, NEW kind \in Kinds, TryEnqueue(g, kind)
    PROVE  Inv'
<1> DEFINE op == [kind |-> kind, seq |-> nextSequence + 1]
<1>1. op \in Operation /\ op.seq = nextSequence + 1 /\ op.kind = kind
    BY DEF Inv, TypeOK, Operation
<1>2. CASE Coalesces(kind)
    BY <1>1, <1>2, CoalesceInv DEF TryEnqueue, Coalesces
<1>3. CASE ~Coalesces(kind) /\ HasSlot
    BY <1>1, <1>3, AcceptInv DEF TryEnqueue, HasSlot
<1>4. CASE ~Coalesces(kind) /\ ~HasSlot
    BY <1>4, FullInv DEF TryEnqueue
<1> QED
    BY <1>2, <1>3, <1>4 DEF TryEnqueue

\* Closing and disposing only stop acceptance and drop what is pending.
LEMMA CloseInv ==
    ASSUME Inv, CompleteAsync \/ Dispose \/ DisposeJoined
    PROVE  Inv'
<1> USE DEF Inv
<1>1. <<>> \in Seq(Operation) /\ Len(<<>>) = 0 /\ DOMAIN <<>> = {}
    BY EmptySeq, LenProperties
<1>2. CASE CompleteAsync
  <2>1. available' \in Nat
      BY <1>2 DEF CompleteAsync, TypeOK
  <2>2. TypeOK'
      BY Zenon, <1>2, <2>1 DEF CompleteAsync, TypeOK, callerVars
  <2> QED
      BY <1>2, <2>2 DEF CompleteAsync, callerVars, WorkerShape, SlotsMatch, Ordered,
         Growing, Below, UpTo, LastTold, NothingLost, Accounted, Superseded, Drained,
         SuccessMeansDelivered, WorkerJoined
<1>3. CASE Dispose
  <2>1. available' \in Nat
      BY <1>3 DEF Dispose, TypeOK
  <2>2. TypeOK'
      BY ZenonT(30), <1>1, <1>3, <2>1 DEF Dispose, TypeOK, callerVars
  <2>3. Ordered'
      BY <1>1, <1>3 DEF Dispose, callerVars, Ordered, Growing, Below, UpTo
  <2> QED
      BY <1>3, <2>2, <2>3 DEF Dispose, callerVars, WorkerShape, SlotsMatch, LastTold,
         NothingLost, Accounted, Superseded, Drained, SuccessMeansDelivered, WorkerJoined
<1>4. CASE DisposeJoined
  <2>1. TypeOK'
      BY <1>4 DEF DisposeJoined, TypeOK, callerVars
  <2> QED
      BY <1>4, <2>1 DEF DisposeJoined, callerVars, WorkerShape, SlotsMatch, Ordered,
         Growing, Below, UpTo, LastTold, NothingLost, Accounted, Superseded, Drained,
         SuccessMeansDelivered, WorkerJoined
<1> QED
    BY <1>2, <1>3, <1>4

\* The worker ends: with a fault, a cancellation after Dispose, or the
\* success of a drained queue.
LEMMA FinishInv ==
    ASSUME Inv, NEW outcome, Finish(outcome), worker # "Done",
           \/ outcome = "Exception"
           \/ outcome = "Canceled" /\ disposed
           \/ outcome = "Result" /\ worker = "Completing"
    PROVE  Inv'
<1> USE DEF Inv, Finish, callerVars
<1>1. <<>> \in Seq(Operation) /\ Len(<<>>) = 0 /\ DOMAIN <<>> = {}
    BY EmptySeq, LenProperties
<1>2. ~accepting' /\ accepting' \in BOOLEAN
    BY Zenon DEF WorkerShape, TypeOK
<1>3. TypeOK'
    BY Zenon, <1>1, <1>2 DEF TypeOK, WorkerStates
<1>4. WorkerShape' /\ SlotsMatch' /\ LastTold' /\ WorkerJoined' /\ Drained'
    BY <1>2 DEF WorkerShape, SlotsMatch, LastTold, WorkerJoined, Drained
<1>5. Ordered'
    BY <1>1 DEF Ordered, Growing, Below, UpTo
<1>6. SuccessMeansDelivered'
    BY DEF SuccessMeansDelivered, Drained, Accounted, Superseded
<1>7. NothingLost'
  <2>1. CASE outcome = "Result"
      BY <2>1 DEF NothingLost, Drained, Accounted, Superseded
  <2>2. CASE outcome # "Result"
      BY <2>2 DEF NothingLost
  <2> QED
      BY <2>1, <2>2
<1> QED
    BY <1>3, <1>4, <1>5, <1>6, <1>7

\* The worker takes the oldest operation, or sees the queue closed.
LEMMA TakeInv ==
    ASSUME Inv, Take
    PROVE  Inv'
<1> USE DEF Inv
<1>0. /\ pending \in Seq(Operation) /\ writing = <<>> /\ worker = "Taking"
      /\ completion = "Pending"
      /\ UNCHANGED <<available, accepting, disposed, completion, released, delivered,
                     nextSequence, told>>
    BY DEF TypeOK, WorkerShape, Take, callerVars
<1>1. CASE pending # <<>>
  <2> DEFINE h == Head(pending)
  <2>1. /\ writing' = <<h>> /\ pending' = Tail(pending) /\ slots' = slots + 1
        /\ worker' = "Writing" /\ ~disposed
      BY <1>1 DEF Take, SlotReleased, WorkerShape
  <2>2. /\ h = pending[1] /\ h \in Operation /\ Tail(pending) \in Seq(Operation)
        /\ Len(pending) \in Nat \ {0} /\ Len(Tail(pending)) = Len(pending) - 1
        /\ DOMAIN Tail(pending) = 1..(Len(pending) - 1)
        /\ DOMAIN pending = 1..Len(pending)
        /\ \A i \in 1..(Len(pending) - 1) : Tail(pending)[i] = pending[i + 1]
      BY <1>0, <1>1, TailFacts
  <2> HIDE DEF h
  <2>3. slots + Len(pending) = Capacity /\ slots \in Nat /\ Capacity \in Nat
      BY <2>1, QueueAssumption DEF SlotsMatch, TypeOK
  <2>4. slots' \in 0..Capacity /\ SlotsMatch'
      BY <2>1, <2>2, <2>3, <1>0 DEF SlotsMatch
  <2>5. <<h>> \in Seq(Operation) /\ Len(<<h>>) = 1 /\ DOMAIN <<h>> = {1} /\ <<h>>[1] = h
      BY <2>2
  <2>6. TypeOK'
      BY <1>0, <2>1, <2>2, <2>4, <2>5 DEF TypeOK, WorkerStates
  <2>7. WorkerShape' /\ WorkerJoined' /\ Drained' /\ SuccessMeansDelivered'
      BY <1>0, <2>1, <2>5 DEF WorkerShape, WorkerJoined, Drained, SuccessMeansDelivered
  <2>8. Ordered'
    <3>1. nextSequence \in Nat
        BY QueueAssumption DEF TypeOK
    <3>2. /\ Growing(Tail(pending)) /\ UpTo(Tail(pending), nextSequence)
          /\ UpTo(<<h>>, nextSequence) /\ Below(<<h>>, Tail(pending))
          /\ Below(delivered, Tail(pending)) /\ Below(delivered, <<h>>)
        BY ZenonT(30), <1>0, <1>1, <3>1, OrderTail DEF Ordered, TypeOK, h
    <3> QED
        BY <1>0, <2>1, <3>2 DEF Ordered, Growing, UpTo, Below
  <2>9. LastTold'
    <3>1. ASSUME Tail(pending) # <<>>
          PROVE  Tail(pending)[Len(Tail(pending))] = pending[Len(pending)]
      <4>1. Len(Tail(pending)) \in Nat \ {0}
          BY <3>1, <2>2, EmptySeq
      <4> QED
          BY <4>1, <2>2
    <3> QED
        BY <1>0, <1>1, <2>1, <3>1 DEF LastTold
  <2>10. NothingLost'
    <3>1. Range(pending) \subseteq Range(<<h>>) \cup Range(Tail(pending))
      <4> SUFFICES ASSUME NEW i \in 1..Len(pending)
                   PROVE  pending[i] \in Range(<<h>>) \cup Range(Tail(pending))
          BY <2>2 DEF Range
      <4>1. CASE i = 1
          BY <4>1, <2>2, <2>5 DEF Range
      <4>2. CASE i # 1
        <5>1. i - 1 \in DOMAIN Tail(pending) /\ Tail(pending)[i - 1] = pending[i]
            BY <4>2, <2>2
        <5> QED
            BY <5>1 DEF Range
      <4> QED
          BY <4>1, <4>2
    <3>2. Range(<<>>) = {}
        BY DEF Range
    <3>3. Accounted(Range(delivered) \cup Range(pending))
        BY <1>0, <2>1, <3>2 DEF NothingLost, Accounted
    <3> QED
        BY <1>0, <2>1, <3>1, <3>3 DEF NothingLost, Accounted, Superseded
  <2> QED
      BY <2>4, <2>6, <2>7, <2>8, <2>9, <2>10
<1>2. CASE pending = <<>>
  <2>1. /\ UNCHANGED <<writing, pending, slots>>
        /\ worker' = IF accepting THEN "Waiting" ELSE "Draining"
      BY <1>2 DEF Take
  <2>2. TypeOK'
      BY <1>0, <2>1 DEF TypeOK, WorkerStates
  <2> QED
      BY <1>0, <1>2, <2>1, <2>2 DEF WorkerShape, SlotsMatch, Ordered, Growing, Below,
         UpTo, LastTold, NothingLost, Accounted, Superseded, Drained,
         SuccessMeansDelivered, WorkerJoined
<1> QED
    BY <1>1, <1>2

\* The sink has taken the operation.
LEMMA SinkWrittenInv ==
    ASSUME Inv, SinkWritten
    PROVE  Inv'
<1> USE DEF Inv
<1>0. /\ delivered \in Seq(Operation) /\ writing \in Seq(Operation)
      /\ Len(writing) = 1 /\ worker = "Writing" /\ completion = "Pending"
      /\ delivered' = delivered \o writing /\ writing' = <<>> /\ worker' = "Waiting"
      /\ UNCHANGED <<pending, slots, available, accepting, disposed, completion,
                     released, nextSequence, told>>
    BY DEF TypeOK, WorkerShape, SinkWritten, callerVars
<1> DEFINE w == writing[1]
<1>1. w \in Operation /\ writing = <<w>>
    BY <1>0, ElementOfSeq, LenProperties
<1> HIDE DEF w
<1>2. delivered' = Append(delivered, w)
    BY <1>0, <1>1, AppendIsConcat
<1>3. /\ DOMAIN delivered' = 1..(Len(delivered) + 1) /\ delivered' \in Seq(Operation)
      /\ DOMAIN delivered = 1..Len(delivered) /\ Len(delivered) \in Nat
      /\ \A i \in 1..Len(delivered) : delivered'[i] = delivered[i]
      /\ delivered'[Len(delivered) + 1] = w
    BY <1>0, <1>1, <1>2, AppendProperties, LenProperties
<1>4. <<>> \in Seq(Operation) /\ DOMAIN <<>> = {} /\ Range(<<>>) = {}
    BY EmptySeq DEF Range
<1>5. TypeOK'
    BY <1>0, <1>3, <1>4 DEF TypeOK, WorkerStates
<1>6. WorkerShape' /\ SlotsMatch' /\ LastTold' /\ WorkerJoined' /\ Drained' /\ SuccessMeansDelivered'
    BY <1>0 DEF WorkerShape, SlotsMatch, LastTold, WorkerJoined, Drained,
       SuccessMeansDelivered
<1>7. Ordered'
  <2>1. nextSequence \in Nat /\ pending \in Seq(Operation) /\ w.seq <= nextSequence
      BY <1>1, QueueAssumption DEF TypeOK, Ordered, UpTo
  <2>2. /\ Growing(Append(delivered, w)) /\ UpTo(Append(delivered, w), nextSequence)
        /\ Below(Append(delivered, w), pending)
      BY <1>0, <1>1, <2>1, OrderAppend DEF Ordered
  <2> QED
      BY <1>0, <1>2, <1>4, <2>2 DEF Ordered, Growing, UpTo, Below
<1>8. NothingLost'
  <2>1. Range(delivered) \cup Range(writing) \subseteq Range(delivered')
    <3>1. \A i \in DOMAIN delivered : i \in DOMAIN delivered' /\ delivered'[i] = delivered[i]
        BY <1>3
    <3>2. Len(delivered) + 1 \in DOMAIN delivered'
        BY <1>3
    <3>3. Range(writing) = {w}
        BY <1>1 DEF Range
    <3> QED
        BY ZenonT(30), <1>3, <3>1, <3>2, <3>3 DEF Range
  <2> QED
      BY <1>0, <2>1 DEF NothingLost, Accounted, Superseded
<1> QED
    BY <1>5, <1>6, <1>7, <1>8

\* Every step of the worker task keeps the invariant.
LEMMA WorkerInv ==
    ASSUME Inv, Worker \/ Sink
    PROVE  Inv'
<1>1. CASE AcquireAvailable
  <2>1. available' \in Nat
      BY <1>1 DEF AcquireAvailable, Inv, TypeOK
  <2>2. TypeOK'
      BY <1>1, <2>1 DEF AcquireAvailable, Inv, TypeOK, callerVars, WorkerStates
  <2> QED
      BY <1>1, <2>2 DEF Inv, AcquireAvailable, callerVars, WorkerShape, SlotsMatch,
         Ordered, Growing, Below, UpTo, LastTold, NothingLost, Accounted, Superseded,
         Drained, SuccessMeansDelivered, WorkerJoined
<1>2. CASE WaitCancelled
    BY <1>2, FinishInv DEF WaitCancelled
<1>3. CASE Take
    BY <1>3, TakeInv
<1>4. CASE SinkWritten
    BY <1>4, SinkWrittenInv
<1>5. CASE SinkWriteFails
    BY <1>5, FinishInv DEF SinkWriteFails
<1>6. CASE SinkWriteCancelled
    BY <1>6, FinishInv DEF SinkWriteCancelled
<1>7. CASE CallSinkComplete
  <2>1. CASE disposed
      BY <1>7, <2>1, FinishInv DEF CallSinkComplete
  <2>2. CASE ~disposed
    <3>1. /\ worker = "Draining" /\ worker' = "Completing"
          /\ pending = <<>> /\ writing = <<>> /\ completion = "Pending"
          /\ UNCHANGED <<pending, slots, available, accepting, disposed, writing,
                         completion, released, delivered, callerVars>>
        BY <1>7, <2>2 DEF CallSinkComplete, Inv, WorkerShape
    <3>2. TypeOK'
        BY <3>1 DEF Inv, TypeOK, callerVars, WorkerStates
    <3>3. Range(<<>>) = {}
        BY DEF Range
    <3>4. Drained'
        BY <2>2, <3>1, <3>3 DEF Inv, NothingLost, Drained, Accounted, Superseded,
           callerVars
    <3> QED
        BY <3>1, <3>2, <3>4 DEF Inv, callerVars, WorkerShape, SlotsMatch, Ordered,
           Growing, Below, UpTo, LastTold, NothingLost, Accounted, Superseded,
           SuccessMeansDelivered, WorkerJoined
  <2> QED
      BY <2>1, <2>2
<1>8. CASE SinkCompleted
    BY <1>8, FinishInv DEF SinkCompleted
<1> QED
    BY SMTT(30), <1>1, <1>2, <1>3, <1>4, <1>5, <1>6, <1>7, <1>8 DEF Worker, Sink

\* Every step of callers, Dispose and worker keeps the invariant.
LEMMA NextInv == Inv /\ [Next]_vars => Inv'
<1> SUFFICES ASSUME Inv, [Next]_vars PROVE Inv'
    OBVIOUS
<1>1. ASSUME NEW g \in Generations, NEW kind \in Kinds, TryEnqueue(g, kind)
      PROVE  Inv'
    BY <1>1, TryEnqueueInv
<1>2. CASE CompleteAsync \/ Dispose \/ DisposeJoined
    BY <1>2, CloseInv
<1>3. CASE Worker \/ Sink
    BY <1>3, WorkerInv
<1>4. CASE UNCHANGED vars
    BY <1>4 DEF vars, Inv, TypeOK, WorkerShape, SlotsMatch, Ordered, Growing, Below, UpTo,
       LastTold, NothingLost, Accounted, Superseded, Drained, SuccessMeansDelivered,
       WorkerJoined
<1> QED
    BY <1>1, <1>2, <1>3, <1>4 DEF Next

\* The inductive invariant holds of every behaviour of the queue.
THEOREM Invariance == Spec => []Inv
    BY InitInv, NextInv, PTL DEF Spec

\* Nothing accepted is lost before Dispose or a fault, for every capacity and
\* every number of operations: the outbound queue's promise to the window.
THEOREM NothingIsLost == Spec => []NothingLost
<1>1. Inv => NothingLost
    BY DEF Inv
<1> QED
    BY <1>1, Invariance, PTL

\* The sink sees growing sequence numbers: no reordering, no duplicates.
THEOREM DeliveryInOrder == Spec => []InOrder
<1>1. Inv => InOrder
    BY DEF Inv, Ordered, Growing, InOrder
<1> QED
    BY <1>1, Invariance, PTL

\* A completion that reports success means every accepted operation reached
\* the sink, whatever Dispose did meanwhile.
THEOREM SuccessIsDelivery == Spec => []SuccessMeansDelivered
<1>1. Inv => SuccessMeansDelivered
    BY DEF Inv
<1> QED
    BY <1>1, Invariance, PTL

\* The slot semaphore and the list agree, and Dispose frees the semaphores
\* only after the worker is done.
THEOREM ResourcesAgree == Spec => [](TypeOK /\ SlotsMatch /\ WorkerJoined)
<1>1. Inv => TypeOK /\ SlotsMatch /\ WorkerJoined
    BY DEF Inv
<1> QED
    BY <1>1, Invariance, PTL

\* All of what TryEnqueue and CompleteAsync promise a caller together, for
\* every capacity, set of callers and number of operations.
THEOREM QueueIsSound == Spec => []QueueSound
<1>1. TypeOK /\ SlotsMatch /\ WorkerJoined => SlotsMatch
    OBVIOUS
<1>2. NothingLost /\ InOrder /\ SuccessMeansDelivered /\ SlotsMatch => QueueSound
    BY DEF QueueSound
<1> QED
    BY <1>1, <1>2, NothingIsLost, DeliveryInOrder, SuccessIsDelivery, ResourcesAgree, PTL

-----------------------------------------------------------------------------
(* The queue implements OutboundChannel. *)

\* Every operation in the queue's hands was told, and whatever was told before
\* the operation being written is delivered or superseded.  The second part
\* outlives Dispose, which NothingLost does not.
Recorded(s) == \A i \in DOMAIN s : \E k \in DOMAIN told : told[k] = s[i]
Settled ==
    \A i \in DOMAIN writing, k \in DOMAIN told :
        told[k].seq < writing[i].seq => told[k] \in Range(delivered) \/ Superseded(k)
Traced == Recorded(delivered) /\ Recorded(writing) /\ Recorded(pending) /\ Settled

\* An empty queue has no history.
LEMMA InitTraced == Init => Traced
    BY DEF Init, Traced, Recorded, Settled

\* TryEnqueue tells the operation it puts in the list.
LEMMA TryEnqueueTraced ==
    ASSUME Inv, Traced, NEW g \in Generations, NEW kind \in Kinds, TryEnqueue(g, kind)
    PROVE  Traced'
<1> DEFINE op == [kind |-> kind, seq |-> nextSequence + 1]
<1>0. /\ pending \in Seq(Operation) /\ told \in Seq(Operation) /\ nextSequence \in Nat
      /\ UNCHANGED <<writing, delivered>>
      /\ UpTo(writing, nextSequence) /\ writing \in Seq(Operation)
    BY QueueAssumption DEF Inv, TypeOK, TryEnqueue, Ordered
<1>1. op \in Operation /\ op.seq = nextSequence + 1
    BY <1>0 DEF Operation
<1>2. CASE told' = told /\ pending' = pending
    BY <1>0, <1>2, ZenonT(30) DEF Traced, Recorded, Settled, Superseded
<1>3. CASE /\ told' = Append(told, op)
           /\ pending' = AddLast(pending, op) \/ pending' = ReplaceLast(pending, op)
  <2> HIDE DEF op
  <2>1. /\ DOMAIN told = 1..Len(told) /\ Len(told) \in Nat
        /\ DOMAIN told' = 1..(Len(told) + 1)
        /\ \A k \in 1..Len(told) : told'[k] = told[k]
        /\ told'[Len(told) + 1] = op
      BY <1>0, <1>1, <1>3, AppendProperties, LenProperties
  <2>2. \A k \in DOMAIN told : k \in DOMAIN told' /\ told'[k] = told[k]
      BY <2>1
  <2>3. Recorded(delivered)' /\ Recorded(writing)'
      BY <1>0, <2>2 DEF Traced, Recorded
  <2>4. \A i \in DOMAIN pending' : pending'[i] = op \/ (i \in DOMAIN pending /\ pending'[i] = pending[i])
    <3>1. CASE pending' = AddLast(pending, op)
      <4>1. /\ DOMAIN AddLast(pending, op) = 1..(Len(pending) + 1)
            /\ \A i \in 1..Len(pending) : AddLast(pending, op)[i] = pending[i]
            /\ AddLast(pending, op)[Len(pending) + 1] = op
          BY <1>0, <1>1, AddLastFacts
      <4>2. DOMAIN pending = 1..Len(pending) /\ Len(pending) \in Nat
          BY <1>0, LenProperties
      <4> QED
          BY <3>1, <4>1, <4>2
    <3>2. CASE pending' = ReplaceLast(pending, op)
        BY <3>2 DEF ReplaceLast
    <3> QED
        BY <1>3, <3>1, <3>2
  <2>5. Recorded(pending)'
    <3> SUFFICES ASSUME NEW i \in DOMAIN pending'
                 PROVE  \E k \in DOMAIN told' : told'[k] = pending'[i]
        BY DEF Recorded
    <3>1. Len(told) + 1 \in DOMAIN told' /\ told'[Len(told) + 1] = op
        BY <2>1
    <3>2. CASE pending'[i] = op
        BY <3>1, <3>2
    <3>3. CASE i \in DOMAIN pending /\ pending'[i] = pending[i]
      <4>1. PICK k \in DOMAIN told : told[k] = pending[i]
          BY <3>3 DEF Traced, Recorded
      <4> QED
          BY <2>2, <3>3, <4>1
    <3> QED
        BY <2>4, <3>2, <3>3
  <2>6. Settled'
    <3> SUFFICES ASSUME NEW i \in DOMAIN writing, NEW k \in DOMAIN told',
                        told'[k].seq < writing[i].seq
                 PROVE  told'[k] \in Range(delivered) \/ Superseded(k)'
        BY <1>0 DEF Settled
    <3>1. writing[i].seq \in Nat /\ writing[i].seq <= nextSequence
        BY <1>0, SeqNumber DEF UpTo
    <3>2. k \in DOMAIN told
        BY <1>0, <1>1, <2>1, <3>1
    <3>3. told[k] \in Range(delivered) \/ Superseded(k)
        BY <2>2, <3>2 DEF Traced, Settled
    <3>4. Superseded(k) => Superseded(k)'
        BY <1>0, <1>1, <1>3, <3>2, SupersededStays
    <3> QED
        BY <2>2, <3>2, <3>3, <3>4
  <2> QED
      BY <2>3, <2>5, <2>6 DEF Traced
<1>4. \/ told' = told /\ pending' = pending
      \/ /\ told' = Append(told, op)
         /\ pending' = AddLast(pending, op) \/ pending' = ReplaceLast(pending, op)
    BY DEF TryEnqueue
<1> QED
    BY <1>2, <1>3, <1>4

\* Every step keeps the history consistent.
LEMMA TracedStep == Inv /\ Traced /\ [Next]_vars => Traced'
<1> SUFFICES ASSUME Inv, Traced, [Next]_vars PROVE Traced'
    OBVIOUS
<1>0. <<>> \in Seq(Operation) /\ DOMAIN <<>> = {} /\ Range(<<>>) = {}
    BY EmptySeq DEF Range
<1>1. ASSUME NEW g \in Generations, NEW kind \in Kinds, TryEnqueue(g, kind)
      PROVE  Traced'
    BY <1>1, TryEnqueueTraced
<1>2. ASSUME UNCHANGED <<delivered, told>>, writing' \in {writing, <<>>}, pending' \in {pending, <<>>}
      PROVE  Traced'
    BY <1>0, <1>2 DEF Traced, Recorded, Settled, Superseded
<1>3. CASE CompleteAsync \/ Dispose \/ DisposeJoined
    BY <1>2, <1>3 DEF CompleteAsync, Dispose, DisposeJoined, callerVars
<1>4. ASSUME NEW o, Finish(o) PROVE Traced'
    BY <1>2, <1>4 DEF Finish, callerVars
<1>5. CASE Take
  <2>0. pending \in Seq(Operation) /\ writing = <<>> /\ UNCHANGED <<delivered, told>>
      BY <1>5 DEF Inv, TypeOK, WorkerShape, Take, callerVars
  <2>1. CASE pending = <<>>
      BY <1>2, <1>5, <2>0, <2>1 DEF Take
  <2>2. CASE pending # <<>>
    <3> DEFINE h == Head(pending)
    <3>1. writing' = <<h>> /\ pending' = Tail(pending) /\ ~disposed /\ completion = "Pending"
        BY <1>5, <2>2 DEF Take, Inv, WorkerShape
    <3>2. /\ h = pending[1] /\ h \in Operation
          /\ Len(pending) \in Nat \ {0}
          /\ DOMAIN Tail(pending) = 1..(Len(pending) - 1)
          /\ DOMAIN pending = 1..Len(pending)
          /\ \A i \in 1..(Len(pending) - 1) : Tail(pending)[i] = pending[i + 1]
        BY <2>0, <2>2, TailFacts
    <3> HIDE DEF h
    <3>3. DOMAIN <<h>> = {1} /\ <<h>>[1] = h
        OBVIOUS
    <3>4. Recorded(delivered)' /\ Recorded(writing)' /\ Recorded(pending)'
        BY <2>0, <3>1, <3>2, <3>3 DEF Traced, Recorded
    <3>5. Settled'
      <4> SUFFICES ASSUME NEW k \in DOMAIN told, told[k].seq < h.seq
                   PROVE  told[k] \in Range(delivered) \/ Superseded(k)
          BY <2>0, <3>1, <3>3 DEF Settled, Superseded
      <4>1. told[k] \in Range(delivered) \cup Range(pending) \/ Superseded(k)
          BY <1>0, <2>0, <3>1 DEF Inv, NothingLost, Accounted
      <4>2. told[k] \notin Range(pending)
        <5> SUFFICES ASSUME NEW i \in 1..Len(pending), told[k] = pending[i] PROVE FALSE
            BY <3>2 DEF Range
        <5>1. pending[i].seq \in Nat /\ h.seq \in Nat
            BY <2>0, <3>2, SeqNumber
        <5>2. i = 1 \/ h.seq < pending[i].seq
            BY <3>2 DEF Inv, Ordered, Growing
        <5> QED
            BY <3>2, <5>1, <5>2
      <4> QED
          BY <4>1, <4>2
    <3> QED
        BY <3>4, <3>5 DEF Traced
  <2> QED
      BY <2>1, <2>2
<1>6. CASE SinkWritten
  <2>1. /\ delivered' = delivered \o writing /\ writing' = <<>> /\ UNCHANGED <<told, pending>>
        /\ delivered \in Seq(Operation) /\ writing \in Seq(Operation)
      BY <1>6 DEF SinkWritten, callerVars, Inv, TypeOK
  <2>2. \A i \in DOMAIN delivered' : \/ i \in DOMAIN delivered /\ delivered'[i] = delivered[i]
                                     \/ \E j \in DOMAIN writing : delivered'[i] = writing[j]
      BY <2>1, ConcatProperties, LenProperties
  <2>3. Recorded(delivered)'
      BY <2>1, <2>2 DEF Traced, Recorded
  <2> QED
      BY <1>0, <2>1, <2>3 DEF Traced, Recorded, Settled
<1>7. CASE AcquireAvailable
    BY <1>2, <1>7 DEF AcquireAvailable, callerVars
<1>8. CASE CallSinkComplete
    BY <1>2, <1>4, <1>8 DEF CallSinkComplete, callerVars
<1>9. CASE WaitCancelled \/ SinkWriteFails \/ SinkWriteCancelled \/ SinkCompleted
    BY <1>4, <1>9 DEF WaitCancelled, SinkWriteFails, SinkWriteCancelled, SinkCompleted
<1>10. CASE UNCHANGED vars
    BY <1>2, <1>10 DEF vars
<1> QED
    BY <1>1, <1>3, <1>5, <1>6, <1>7, <1>8, <1>9, <1>10 DEF Next, Worker, Sink
-----------------------------------------------------------------------------
(* Channel steps. *)

\* The channel's Reached is the place in told of the last delivery, and nothing
\* told after it has been delivered.
LEMMA ReachedFacts ==
    ASSUME Inv, Traced
    PROVE  /\ Channel!Reached \in 0..Len(told)
           /\ \A k \in DOMAIN told :
                 k > Channel!Reached => \A i \in DOMAIN delivered : delivered[i].seq < told[k].seq
           /\ \A k \in DOMAIN told :
                 (\A i \in DOMAIN delivered : delivered[i].seq < told[k].seq) => k > Channel!Reached
<1>0. /\ told \in Seq(Operation) /\ delivered \in Seq(Operation)
      /\ DOMAIN told = 1..Len(told) /\ DOMAIN delivered = 1..Len(delivered)
      /\ Len(told) \in Nat /\ Len(delivered) \in Nat
    BY LenProperties DEF Inv, TypeOK
<1>1. CASE delivered = <<>>
  <2>1. Channel!Reached = 0
      BY <1>1 DEF Channel!Reached
  <2>2. DOMAIN delivered = {}
      BY <1>1
  <2> QED
      BY <1>0, <2>1, <2>2
<1>2. CASE delivered # <<>>
  <2> DEFINE l == Len(delivered)
             r == Channel!Reached
  <2>1. l \in DOMAIN delivered
      BY <1>0, <1>2, EmptySeq
  <2>2. \E k \in DOMAIN told : told[k] = delivered[l]
      BY <2>1 DEF Traced, Recorded
  <2>3. r = CHOOSE i \in DOMAIN told : told[i] = delivered[l]
      BY <1>2 DEF Channel!Reached
  <2>4. r \in DOMAIN told /\ told[r] = delivered[l]
      BY Zenon, <2>2, <2>3
  <2> HIDE DEF r
  <2>5. \A i \in DOMAIN delivered : i # l => delivered[i].seq < delivered[l].seq
      BY <1>0, <2>1 DEF Inv, Ordered, Growing
  <2>6. \A i \in DOMAIN delivered : delivered[i].seq \in Nat
      BY <1>0, SeqNumber
  <2>7. \A k \in DOMAIN told : told[k].seq \in Nat
      BY <1>0, SeqNumber
  <2>8. \A k \in DOMAIN told : /\ k > r => told[r].seq < told[k].seq
                               /\ k < r => told[k].seq < told[r].seq
      BY <1>0, <2>4 DEF Inv, Ordered, Growing
  <2> HIDE DEF l
  <2>9. \A k \in DOMAIN told :
            k > r => \A i \in DOMAIN delivered : delivered[i].seq < told[k].seq
      BY <2>1, <2>4, <2>5, <2>6, <2>7, <2>8
  <2>10. \A k \in DOMAIN told :
            (\A i \in DOMAIN delivered : delivered[i].seq < told[k].seq) => k > r
      BY <1>0, <2>1, <2>4, <2>6, <2>7, <2>8
  <2> QED
      BY <1>0, <2>4, <2>9, <2>10 DEF r
<1> QED
    BY <1>1, <1>2

\* Nothing told after Reached is among the delivered operations.
LEMMA BeyondReached ==
    ASSUME Inv, Traced, NEW k \in DOMAIN told, k > Channel!Reached
    PROVE  told[k] \notin Range(delivered)
<1> SUFFICES ASSUME NEW i \in DOMAIN delivered, told[k] = delivered[i] PROVE FALSE
    BY DEF Range
<1>1. delivered[i].seq < told[k].seq
    BY ReachedFacts
<1>2. delivered[i].seq \in Nat
    BY SeqNumber DEF Inv, TypeOK
<1> QED
    BY <1>1, <1>2

\* An accepted offer is a Tell of the channel; a refused one is a stutter.
LEMMA TryEnqueueTells ==
    ASSUME Inv, NEW g \in Generations, NEW kind \in Kinds, TryEnqueue(g, kind)
    PROVE  Channel!Tell \/ UNCHANGED Channel!vars
<1> DEFINE op == [kind |-> kind, seq |-> nextSequence + 1]
<1>0. /\ told \in Seq(Operation) /\ nextSequence \in Nat /\ nextSequence < MaxSequence
      /\ MaxSequence \in Nat /\ UNCHANGED <<delivered, completion>>
      /\ completion = "Pending" /\ UpTo(told, nextSequence)
      /\ told' = told \/ told' = Append(told, op)
    BY QueueAssumption DEF Inv, TypeOK, WorkerShape, Ordered, TryEnqueue
<1>1. CASE told' = told
    BY <1>0, <1>1 DEF Channel!vars
<1>2. CASE told' = Append(told, op)
  <2>1. op \in [kind : Kinds, seq : 1..MaxSequence] /\ op.seq = nextSequence + 1
      BY <1>0
  <2> HIDE DEF op
  <2>2. \A i \in DOMAIN told : told[i].seq < op.seq
      BY <1>0, <2>1, SeqNumber DEF UpTo
  <2> QED
      BY <1>0, <1>2, <2>1, <2>2 DEF Channel!Tell
<1> QED
    BY <1>0, <1>1, <1>2

\* A return of the sink's WriteAsync is a Deliver of the channel.
LEMMA SinkWrittenDelivers ==
    ASSUME Inv, Traced, SinkWritten
    PROVE  Channel!Deliver
<1>0. /\ delivered \in Seq(Operation) /\ writing \in Seq(Operation) /\ told \in Seq(Operation)
      /\ Len(writing) = 1 /\ completion = "Pending"
      /\ delivered' = delivered \o writing /\ UNCHANGED <<told, completion>>
    BY DEF Inv, TypeOK, WorkerShape, SinkWritten, callerVars
<1> DEFINE w == writing[1]
<1>1. w \in Operation /\ writing = <<w>> /\ 1 \in DOMAIN writing /\ w.seq \in Nat
    BY <1>0, ElementOfSeq, LenProperties, SeqNumber
<1>1a. w = writing[1]
    OBVIOUS
<1> HIDE DEF w
<1>2. delivered' = Append(delivered, w)
    BY <1>0, <1>1, AppendIsConcat
<1>3. PICK i \in DOMAIN told : told[i] = w
    BY <1>1, <1>1a DEF Traced, Recorded
<1>4. i > Channel!Reached
  <2>1. \A j \in DOMAIN delivered : delivered[j].seq < told[i].seq
      BY <1>1, <1>3, <1>1a DEF Inv, Ordered, Below
  <2> QED
      BY <2>1, ReachedFacts
<1>5. ASSUME NEW k \in (Channel!Reached + 1)..(i - 1)
      PROVE  Superseded(k)
  <2>1. /\ Channel!Reached \in 0..Len(told) /\ Len(told) \in Nat
        /\ DOMAIN told = 1..Len(told)
      BY <1>0, ReachedFacts, LenProperties
  <2>2. k \in DOMAIN told /\ k > Channel!Reached /\ k < i
      BY <2>1
  <2>3. told[k].seq < w.seq
      BY <1>3, <2>2 DEF Inv, Ordered, Growing
  <2>4. told[k] \in Range(delivered) \/ Superseded(k)
      BY <1>1, <1>1a, <2>2, <2>3 DEF Traced, Settled
  <2> QED
      BY <2>2, <2>4, BeyondReached
<1> QED
    BY <1>0, <1>2, <1>3, <1>4, <1>5 DEF Channel!Deliver, Superseded, Channel!Superseded

\* The end of the worker task is the channel's success or its abandonment.
LEMMA FinishEnds ==
    ASSUME Inv, Traced, NEW o \in {"Result", "Canceled", "Exception"}, Finish(o),
           worker # "Done", o = "Result" => worker = "Completing"
    PROVE  Channel!Succeed \/ Channel!Abandon
<1>0. /\ completion = "Pending" /\ completion' = o /\ UNCHANGED <<told, delivered>>
    BY DEF Inv, WorkerShape, Finish, callerVars
<1>1. CASE o = "Result"
  <2>1. ASSUME NEW k \in (Channel!Reached + 1)..Len(told)
        PROVE  Superseded(k)
    <3>1. /\ Channel!Reached \in 0..Len(told) /\ Len(told) \in Nat
          /\ DOMAIN told = 1..Len(told)
        BY ReachedFacts, LenProperties DEF Inv, TypeOK
    <3>2. k \in DOMAIN told /\ k > Channel!Reached
        BY <3>1
    <3>3. told[k] \in Range(delivered) \/ Superseded(k)
        BY <1>1, <3>2 DEF Inv, Drained, Accounted
    <3> QED
        BY <3>2, <3>3, BeyondReached
  <2> QED
      BY <1>0, <1>1, <2>1 DEF Channel!Succeed, Superseded, Channel!Superseded
<1>2. CASE o # "Result"
    BY <1>0, <1>2 DEF Channel!Abandon
<1> QED
    BY <1>1, <1>2

\* Every step of the queue is a step of the channel or a stutter.
LEMMA ChannelStep == Inv /\ Traced /\ [Next]_vars => [Channel!Next]_(Channel!vars)
<1> SUFFICES ASSUME Inv, Traced, [Next]_vars PROVE Channel!Next \/ UNCHANGED Channel!vars
    OBVIOUS
<1>1. ASSUME NEW g \in Generations, NEW kind \in Kinds, TryEnqueue(g, kind)
      PROVE  Channel!Next \/ UNCHANGED Channel!vars
    BY <1>1, TryEnqueueTells DEF Channel!Next
<1>2. CASE CompleteAsync \/ Dispose \/ DisposeJoined \/ AcquireAvailable \/ Take \/ UNCHANGED vars
    BY <1>2 DEF CompleteAsync, Dispose, DisposeJoined, AcquireAvailable, Take, vars,
       callerVars, Channel!vars
<1>3. CASE SinkWritten
    BY <1>3, SinkWrittenDelivers DEF Channel!Next
<1>4. CASE WaitCancelled \/ SinkWriteFails \/ SinkWriteCancelled
    BY <1>4, FinishEnds DEF WaitCancelled, SinkWriteFails, SinkWriteCancelled,
       Channel!Next
<1>5. CASE SinkCompleted
    BY <1>5, FinishEnds DEF SinkCompleted, Channel!Next
<1>6. CASE CallSinkComplete
  <2>1. CASE disposed
      BY <1>6, <2>1, FinishEnds DEF CallSinkComplete, Channel!Next
  <2>2. CASE ~disposed
      BY <1>6, <2>2 DEF CallSinkComplete, callerVars, Channel!vars
  <2> QED
      BY <2>1, <2>2
<1> QED
    BY <1>1, <1>2, <1>3, <1>4, <1>5, <1>6 DEF Next, Worker, Sink

\* The queue implements the outbound channel, for every capacity and every
\* number of operations: acceptance order is delivery order, only overtaken
\* resizes are skipped, and success means drained, even when Dispose races
\* with an operation inside the sink.
THEOREM QueueImplementsChannel == Spec => ImplementsChannel
<1>1. Init => Channel!Init
    BY DEF Init, Channel!Init
<1> QED
    BY <1>1, InitInv, NextInv, InitTraced, TracedStep, ChannelStep, PTL DEF Spec,
       ImplementsChannel, Channel!Spec
=============================================================================
