------------------------- MODULE RenderThreadProofs -------------------------
(***************************************************************************)
(* The safety of RenderThread, for any number of retries:                  *)
(*   RenderPaintingSafe - what the worker draws with is neither changed    *)
(*     nor removed under it.                                               *)
(* The inductive invariant is about the accesses that the UI thread still  *)
(* has to make.  A pause that is still to come is preceded by the reset of *)
(* _paused and followed by the wait for it, so a set _paused means that    *)
(* the worker has stopped; and the engine is only removed after the join.  *)
(***************************************************************************)
EXTENDS RenderThread, TLAPS

Access ==
    [op : {"set", "reset"}, event : Events]
        \cup [op : {"store"}, names : SUBSET Flags, value : BOOLEAN]
        \cup [op : {"sync"}, value : BOOLEAN]
        \cup [op : {"lock", "unlock", "await", "join", "reconcile", "create", "start"}]

\* The access that requests a pause, and the one that removes the engine.
IsSuspend(a) == a.op = "store" /\ "suspendRequested" \in a.names /\ a.value
IsDetach(a) == a.op = "store" /\ "attached" \in a.names /\ ~a.value

Has(s, a) == \E i \in 1..Len(s) : s[i] = a

\* The UI thread does not set _paused, and waits after it requests a pause.
Sound(s) ==
    \A i \in 1..Len(s) :
        /\ s[i].op = "set" => s[i].event # "paused"
        /\ IsSuspend(s[i]) => \E j \in 1..Len(s) : i < j /\ s[j] = Await

\* It resets _paused before it requests one.
Guarded(s) ==
    \A i \in 1..Len(s) : IsSuspend(s[i]) => i # 1 /\ s[i - 1] = Reset("paused")

RenderType ==
    /\ todo \in Seq(Access) /\ flag \in [Flags -> BOOLEAN]
    /\ late \in BOOLEAN /\ thread \in BOOLEAN

\* A pause that is about to be requested is not acknowledged yet, and one
\* that is acknowledged, or no longer waited for, finds no worker painting.
PauseInv ==
    /\ Sound(todo)
    /\ \A i \in 1..Len(todo) : IsSuspend(todo[i]) =>
         IF i = 1 THEN "paused" \notin signalled \/ flag["suspendRequested"] \/ late
                  ELSE todo[i - 1] = Reset("paused")
    /\ flag["suspendRequested"] /\ ~late /\ ("paused" \in signalled \/ ~Has(todo, Await)) =>
         worker \notin Painting

\* Without an engine there is no worker and none to come; a call that is to
\* remove the engine starts no worker, and joins the one that there is first.
EngineInv ==
    /\ thread <=> worker # "none"
    /\ ~flag["attached"] => ~thread /\ ~Has(todo, Create)
    /\ \A i \in 1..Len(todo) : IsDetach(todo[i]) =>
         /\ ~Has(todo, Create) /\ ~Has(todo, Start)
         /\ thread => \E j \in 1..Len(todo) : j < i /\ todo[j] = Join

RenderInv == RenderType /\ PauseInv /\ EngineInv

-----------------------------------------------------------------------------
\* The accesses, one by one, and the sequences of them.

\* An access that neither pauses, acknowledges, nor touches worker or engine.
Calm(a) ==
    /\ a \in Access /\ ~IsSuspend(a) /\ ~IsDetach(a) /\ a # Create /\ a # Start
    /\ a.op = "set" => a.event # "paused"

\* The stores that are calm.
LEMMA CalmStores ==
    /\ Calm(Store("suspendRequested", FALSE))
    /\ \A f \in Flags \ {"suspendRequested", "attached"}, v \in BOOLEAN : Calm(Store(f, v))
    /\ Calm([op |-> "store", names |-> {"pending", "redraw"}, value |-> TRUE])
    /\ \A v \in BOOLEAN : Calm([op |-> "store", names |-> {"visible", "invalid"}, value |-> v])
    /\ Calm([op |-> "store", names |-> {"attached", "visible", "drawn"}, value |-> TRUE])
<1>1. ASSUME NEW ns \in SUBSET Flags, NEW v \in BOOLEAN,
             "suspendRequested" \notin ns \/ ~v, "attached" \notin ns \/ v
      PROVE  Calm([op |-> "store", names |-> ns, value |-> v])
  <2> DEFINE a == [op |-> "store", names |-> ns, value |-> v]
  <2>1. a \in Access
      BY Zenon DEF Access
  <2>2. a.op = "store" /\ a.names = ns /\ a.value = v
      BY Zenon
  <2>3. ~IsSuspend(a) /\ ~IsDetach(a)
      BY <1>1, <2>2, Zenon DEF IsSuspend, IsDetach
  <2>4. a # Create /\ a # Start
      BY <2>2 DEF Create, Start
  <2>5. a.op # "set"
      BY <2>2
  <2> QED BY <2>1, <2>3, <2>4, <2>5, Zenon DEF Calm
<1>2. ASSUME NEW ns \in SUBSET Flags, "suspendRequested" \notin ns
      PROVE  Calm([op |-> "store", names |-> ns, value |-> TRUE])
    BY <1>1, <1>2, Zenon
<1>3. ASSUME NEW ns \in SUBSET Flags, "attached" \notin ns
      PROVE  Calm([op |-> "store", names |-> ns, value |-> FALSE])
    BY <1>1, <1>3, Zenon
<1>4. /\ {"suspendRequested"} \in SUBSET Flags /\ "attached" \notin {"suspendRequested"}
      /\ {"pending", "redraw"} \in SUBSET Flags
      /\ "suspendRequested" \notin {"pending", "redraw"}
      /\ {"visible", "invalid"} \in SUBSET Flags /\ "attached" \notin {"visible", "invalid"}
      /\ "suspendRequested" \notin {"visible", "invalid"}
      /\ {"attached", "visible", "drawn"} \in SUBSET Flags
      /\ "suspendRequested" \notin {"attached", "visible", "drawn"}
    BY DEF Flags
<1>5. \A f \in Flags \ {"suspendRequested", "attached"} :
          {f} \in SUBSET Flags /\ "suspendRequested" \notin {f} /\ "attached" \notin {f}
    OBVIOUS
<1>6. \A f \in Flags \ {"suspendRequested", "attached"}, v \in BOOLEAN : Calm(Store(f, v))
    BY <1>1, <1>5, Zenon DEF Store
<1>7. \A v \in BOOLEAN : Calm([op |-> "store", names |-> {"visible", "invalid"}, value |-> v])
    BY <1>1, <1>4, Zenon
<1> QED BY <1>2, <1>3, <1>4, <1>6, <1>7, Zenon DEF Store

\* The other calm accesses.
LEMMA CalmAccesses ==
    /\ \A e \in Events \ {"paused"} : Calm(Set(e))
    /\ \A e \in Events : Calm(Reset(e))
    /\ Calm(Lock) /\ Calm(Unlock) /\ Calm(Await) /\ Calm(Join) /\ Calm(Reconcile)
    /\ \A so \in BOOLEAN : Calm(SynchronizedOutputChanged(so))
BY DEF Calm, Access, IsSuspend, IsDetach, Create, Start, Set, Reset, Lock, Unlock, Await,
   Join, Reconcile, SynchronizedOutputChanged

\* The accesses that are not calm.
LEMMA OtherAccesses ==
    /\ Store("suspendRequested", TRUE) \in Access /\ ~IsDetach(Store("suspendRequested", TRUE))
    /\ Store("attached", FALSE) \in Access /\ ~IsSuspend(Store("attached", FALSE))
    /\ Create \in Access /\ ~IsSuspend(Create) /\ ~IsDetach(Create) /\ Create.op # "set"
    /\ Start \in Access /\ ~IsSuspend(Start) /\ ~IsDetach(Start) /\ Start.op # "set"
    /\ Create # Start
BY DEF Access, IsSuspend, IsDetach, Create, Start, Store, Flags

\* Head and tail, by index.
LEMMA HeadTail ==
    ASSUME NEW s \in Seq(Access), s # <<>>
    PROVE  /\ Len(s) \in Nat /\ Len(s) # 0 /\ Head(s) = s[1] /\ Head(s) \in Access
           /\ Tail(s) \in Seq(Access) /\ Len(Tail(s)) = Len(s) - 1
           /\ \A i \in 1..Len(Tail(s)) : i + 1 \in 1..Len(s) /\ Tail(s)[i] = s[i + 1]
           /\ \A i \in 1..Len(s) :
                i # 1 => i - 1 \in 1..Len(Tail(s)) /\ s[i] = Tail(s)[i - 1]
OBVIOUS

\* Concatenation, by index.
LEMMA Concat ==
    ASSUME NEW s \in Seq(Access), NEW t \in Seq(Access)
    PROVE  /\ s \o t \in Seq(Access) /\ Len(s) \in Nat /\ Len(t) \in Nat
           /\ Len(s \o t) = Len(s) + Len(t)
           /\ \A i \in 1..Len(s) : i \in 1..Len(s \o t) /\ (s \o t)[i] = s[i]
           /\ \A i \in 1..Len(t) :
                Len(s) + i \in 1..Len(s \o t) /\ (s \o t)[Len(s) + i] = t[i]
           /\ \A i \in 1..Len(s \o t) :
                \/ i \in 1..Len(s) /\ (s \o t)[i] = s[i]
                \/ i - Len(s) \in 1..Len(t) /\ (s \o t)[i] = t[i - Len(s)]
OBVIOUS

\* A concatenation has the accesses of its parts.
LEMMA ConcatHas ==
    ASSUME NEW s \in Seq(Access), NEW t \in Seq(Access), NEW a
    PROVE  Has(s \o t, a) <=> (Has(s, a) \/ Has(t, a))
<1>1. ASSUME NEW i \in 1..Len(s \o t), (s \o t)[i] = a PROVE Has(s, a) \/ Has(t, a)
  <2>1. \/ i \in 1..Len(s) /\ s[i] = a
        \/ i - Len(s) \in 1..Len(t) /\ t[i - Len(s)] = a
      BY <1>1, Concat
  <2> QED BY <2>1, Zenon DEF Has
<1>2. ASSUME NEW i \in 1..Len(s), s[i] = a PROVE Has(s \o t, a)
  <2>1. i \in 1..Len(s \o t) /\ (s \o t)[i] = a
      BY <1>2, Concat
  <2> QED BY <2>1, Zenon DEF Has
<1>3. ASSUME NEW i \in 1..Len(t), t[i] = a PROVE Has(s \o t, a)
  <2>1. Len(s) + i \in 1..Len(s \o t) /\ (s \o t)[Len(s) + i] = a
      BY <1>3, Concat
  <2> QED BY <2>1, Zenon DEF Has
<1> QED BY <1>1, <1>2, <1>3, Zenon DEF Has

\* A call is a proper sequence of accesses.
Proper(s) == s \in Seq(Access) /\ Sound(s) /\ Guarded(s)
Inert(s) ==
    /\ s \in Seq(Access)
    /\ \A i \in 1..Len(s) : ~IsDetach(s[i]) /\ s[i] # Create /\ s[i] # Start
AllCalm(s) == s \in Seq(Access) /\ \A i \in 1..Len(s) : Calm(s[i])

\* Calm accesses make a proper and inert call.
LEMMA CalmCall ==
    ASSUME NEW s, AllCalm(s)
    PROVE  Proper(s) /\ Inert(s)
BY DEF AllCalm, Calm, Proper, Sound, Guarded, Inert

\* Calls in sequence make a call.
LEMMA CallsConcat ==
    ASSUME NEW s, NEW t
    PROVE  /\ Proper(s) /\ Proper(t) => Proper(s \o t)
           /\ Inert(s) /\ Inert(t) => Inert(s \o t)
           /\ AllCalm(s) /\ AllCalm(t) => AllCalm(s \o t)
<1>1. ASSUME Proper(s), Proper(t) PROVE Proper(s \o t)
  <2> USE <1>1 DEF Proper
  <2>1. Sound(s \o t)
    <3> SUFFICES ASSUME NEW i \in 1..Len(s \o t)
                 PROVE  /\ (s \o t)[i].op = "set" => (s \o t)[i].event # "paused"
                        /\ IsSuspend((s \o t)[i]) =>
                             \E j \in 1..Len(s \o t) : i < j /\ (s \o t)[j] = Await
        BY DEF Sound
    <3>1. CASE i \in 1..Len(s) /\ (s \o t)[i] = s[i]
        BY <3>1, Concat DEF Sound
    <3>2. CASE i - Len(s) \in 1..Len(t) /\ (s \o t)[i] = t[i - Len(s)]
      <4>1. CASE IsSuspend(t[i - Len(s)])
        <5>1. PICK j \in 1..Len(t) : i - Len(s) < j /\ t[j] = Await
            BY <3>2, <4>1 DEF Sound
        <5>2. Len(s) + j \in 1..Len(s \o t) /\ (s \o t)[Len(s) + j] = Await /\ i < Len(s) + j
            BY <3>2, <5>1, Concat, SMTT(30)
        <5>3. t[i - Len(s)].op = "set" => t[i - Len(s)].event # "paused"
            BY <3>2 DEF Sound
        <5> QED BY <3>2, <5>2, <5>3, Zenon
      <4> QED BY <3>2, <4>1 DEF Sound
    <3> QED BY <3>1, <3>2, Concat, SMTT(30)
  <2>2. Guarded(s \o t)
      BY Concat, SMTT(30) DEF Guarded
  <2> QED BY <2>1, <2>2, Concat
<1>2. Inert(s) /\ Inert(t) => Inert(s \o t)
    BY Concat DEF Inert
<1>3. AllCalm(s) /\ AllCalm(t) => AllCalm(s \o t)
    BY Concat DEF AllCalm
<1> QED BY <1>1, <1>2, <1>3

-----------------------------------------------------------------------------
\* The functions of the code.

\* The empty call is calm.
LEMMA CalmNone == AllCalm(<<>>)
BY DEF AllCalm

\* A call that makes one calm access is calm,
LEMMA CalmOne ==
    ASSUME NEW a, Calm(a) PROVE AllCalm(<<a>>)
BY DEF AllCalm, Calm

\* and so is one that makes two,
LEMMA CalmTwo ==
    ASSUME NEW a, NEW b, Calm(a), Calm(b) PROVE AllCalm(<<a, b>>)
BY CalmOne, CallsConcat DEF AllCalm, Calm

\* three
LEMMA CalmThree ==
    ASSUME NEW a, NEW b, NEW c, Calm(a), Calm(b), Calm(c) PROVE AllCalm(<<a, b, c>>)
BY CalmOne, CallsConcat DEF AllCalm, Calm

\* or four.
LEMMA CalmFour ==
    ASSUME NEW a, NEW b, NEW c, NEW d, Calm(a), Calm(b), Calm(c), Calm(d)
    PROVE  AllCalm(<<a, b, c, d>>)
BY CalmOne, CallsConcat DEF AllCalm, Calm

\* The accesses that the functions make.
LEMMA CalmMade ==
    /\ \A f \in {"redraw", "keepRunning", "running", "invalid", "failed", "visible", "syncing"} :
          Calm(Store(f, TRUE)) /\ Calm(Store(f, FALSE))
    /\ \A e \in {"wake", "stop", "outputReady", "enable"} : Calm(Set(e)) /\ Calm(Reset(e))
<1>1. /\ {"redraw", "keepRunning", "running", "invalid", "failed", "visible", "syncing"} \subseteq
            Flags \ {"suspendRequested", "attached"}
      /\ {"wake", "stop", "outputReady", "enable"} \subseteq Events \ {"paused"}
    BY DEF Flags, Events
<1> QED BY <1>1, CalmStores, CalmAccesses, Zenon

\* The calls that only change flags and events.
LEMMA CalmCalls ==
    /\ AllCalm(NotifyPaintFrame) /\ AllCalm(Change) /\ AllCalm(RequestPaint) /\ AllCalm(Resize)
    /\ AllCalm(TriggerTeardown) /\ (thread => Has(TriggerTeardown, Join))
<1>1. /\ Calm(Store("redraw", TRUE)) /\ Calm(Store("keepRunning", FALSE))
      /\ Calm(Store("invalid", TRUE)) /\ Calm(Set("wake")) /\ Calm(Set("stop"))
      /\ Calm(Set("outputReady")) /\ Calm(Set("enable")) /\ Calm(Reset("enable"))
      /\ Calm(Lock) /\ Calm(Unlock) /\ Calm(Join)
      /\ Calm([op |-> "store", names |-> {"pending", "redraw"}, value |-> TRUE])
    BY CalmMade, CalmAccesses, CalmStores, Zenon
<1>2. AllCalm(NotifyPaintFrame)
    BY <1>1, CalmTwo, Zenon DEF NotifyPaintFrame
<1>3. AllCalm(Change)
    BY <1>1, CalmTwo, Zenon DEF Change
<1>4. AllCalm(<<Lock>>) /\ AllCalm(<<Unlock>>) /\ AllCalm(<<Unlock, Store("invalid", TRUE)>>)
      /\ AllCalm(<<Store("keepRunning", FALSE), Set("stop"), Set("outputReady")>>)
      /\ AllCalm(<<Set("enable"), Join>>) /\ AllCalm(<<Reset("enable")>>) /\ AllCalm(<<>>)
    BY <1>1, CalmNone, CalmOne, CalmTwo, CalmThree, Zenon
<1>5. AllCalm(RequestPaint)
    BY <1>3, <1>4, CallsConcat DEF RequestPaint
<1>6. AllCalm(Resize)
    BY <1>3, <1>4, CallsConcat DEF Resize
<1>7. AllCalm(TriggerTeardown)
    BY <1>2, <1>4, CallsConcat DEF TriggerTeardown
<1>8. ASSUME thread PROVE Has(TriggerTeardown, Join)
  <2>1. Has(<<Set("enable"), Join>>, Join)
      BY DEF Has
  <2> QED BY <1>2, <1>4, <1>8, <2>1, CallsConcat, ConcatHas, Zenon DEF TriggerTeardown,
             AllCalm
<1> QED BY <1>2, <1>3, <1>5, <1>6, <1>7, <1>8

\* The beginning of a pause, whose wait has still to come.
Pausing(s) ==
    /\ Inert(s) /\ Guarded(s)
    /\ \A i \in 1..Len(s) : s[i].op = "set" => s[i].event # "paused"

\* The reset comes before the request.
LEMMA PauseBegins ==
    ASSUME NEW p \in Access, p.op = "store", ~IsDetach(p), NEW a, NEW b, Calm(a), Calm(b)
    PROVE  Pausing(<<Reset("paused"), p, a, b>>)
<1>1. PICK r : r = Reset("paused") /\ Calm(r)
    BY CalmAccesses, Zenon DEF Events
<1>2. PICK x : x = <<r, p, a, b>>
    BY Zenon
<1>3. x \in Seq(Access) /\ Len(x) = 4 /\ x[1] = r /\ x[2] = p /\ x[3] = a /\ x[4] = b
    BY <1>1, <1>2 DEF Calm
<1>4. \A i \in 1..Len(x) : (i = 2 /\ x[i] = p) \/ Calm(x[i])
    BY <1>1, <1>3
<1>5. p # Create /\ p # Start
    BY DEF Create, Start
<1>6. Inert(x)
    BY <1>3, <1>4, <1>5 DEF Inert, Calm
<1>7. Guarded(x)
    BY <1>1, <1>3, <1>4 DEF Guarded, Calm
<1>8. \A i \in 1..Len(x) : x[i].op = "set" => x[i].event # "paused"
    BY <1>4 DEF Calm
<1> QED BY <1>1, <1>2, <1>6, <1>7, <1>8, Zenon DEF Pausing

\* A pause goes on until its wait.
LEMMA PauseGoesOn ==
    ASSUME NEW s, NEW t, Pausing(s), AllCalm(t)
    PROVE  Pausing(s \o t) /\ (Has(t, Await) => Proper(s \o t))
<1>1. s \in Seq(Access) /\ t \in Seq(Access) /\ Inert(t)
    BY CalmCall DEF Pausing, Inert, AllCalm
<1>2. \A i \in 1..Len(t) : Calm(t[i])
    BY DEF AllCalm
<1>3. Inert(s \o t)
    BY <1>1, CallsConcat DEF Pausing
<1>4. Guarded(s \o t)
    BY <1>1, <1>2 DEF Pausing, Guarded, Calm
<1>5. \A i \in 1..Len(s \o t) : (s \o t)[i].op = "set" => (s \o t)[i].event # "paused"
    BY <1>1, <1>2 DEF Pausing, Calm
<1>6. ASSUME NEW k \in 1..Len(t), t[k] = Await PROVE Sound(s \o t)
  <2>1. Len(s) + k \in 1..Len(s \o t) /\ (s \o t)[Len(s) + k] = Await
      BY <1>1, <1>6
  <2>2. \A i \in 1..Len(s \o t) : IsSuspend((s \o t)[i]) => i < Len(s) + k
      BY <1>1, <1>2, <1>6 DEF Calm
  <2> QED BY <1>5, <2>1, <2>2, Zenon DEF Sound
<1> QED BY <1>3, <1>4, <1>5, <1>6, Zenon DEF Pausing, Proper, Has, Inert

\* SuspendPainting, alone and in Stop.
LEMMA StopCall ==
    /\ Proper(SuspendPainting) /\ Inert(SuspendPainting)
    /\ Proper(Stop) /\ Inert(Stop)
<1>1. Proper(<<>>) /\ Inert(<<>>)
    BY CalmCall, CalmNone
<1>2. ASSUME thread PROVE Proper(SuspendPainting) /\ Inert(SuspendPainting)
  <2> DEFINE x == <<Reset("paused"), Store("suspendRequested", TRUE), Set("stop"),
                    Set("outputReady")>>
             z == <<Set("enable"), Await>>
  <2>1. Calm(Set("stop")) /\ Calm(Set("outputReady")) /\ Calm(Set("enable")) /\ Calm(Await)
      BY CalmMade, CalmAccesses, Zenon
  <2>2. AllCalm(z) /\ AllCalm(NotifyPaintFrame)
      BY <2>1, CalmTwo, CalmCalls, Zenon
  <2>3. Has(z, Await)
      BY DEF Has
  <2>4. Store("suspendRequested", TRUE).op = "store"
      BY DEF Store
  <2>5. Pausing(x)
      BY <2>1, <2>4, PauseBegins, OtherAccesses, Zenon
  <2> HIDE DEF x, z
  <2>6. Pausing(x \o NotifyPaintFrame)
      BY <2>2, <2>5, PauseGoesOn, Zenon
  <2>7. Pausing(x \o NotifyPaintFrame \o z) /\ Proper(x \o NotifyPaintFrame \o z)
      BY <2>2, <2>3, <2>6, PauseGoesOn, Zenon
  <2>8. SuspendPainting = x \o NotifyPaintFrame \o z
      BY <1>2, Zenon DEF SuspendPainting, x, z
  <2> QED BY <2>7, <2>8, Zenon DEF Pausing
<1>3. ASSUME ~thread PROVE Proper(SuspendPainting) /\ Inert(SuspendPainting)
    BY <1>1, <1>3, Zenon DEF SuspendPainting
<1>4. Proper(SuspendPainting) /\ Inert(SuspendPainting)
    BY <1>2, <1>3, Zenon
<1>5. Calm(Store("running", FALSE))
    BY CalmMade, Zenon
<1>6. Proper(<<Store("running", FALSE)>>) /\ Inert(<<Store("running", FALSE)>>)
    BY <1>5, CalmOne, CalmCall, Zenon
<1> QED BY <1>4, <1>6, CallsConcat, Zenon DEF Stop

\* What a message may begin: the engine goes last, after any join.
Begins(s) ==
    /\ Proper(s) /\ ~Has(s, Create)
    /\ \A i \in 1..Len(s) : IsDetach(s[i]) =>
         ~Has(s, Start) /\ (thread => \E j \in 1..Len(s) : j < i /\ s[j] = Join)

\* An inert call may begin,
LEMMA InertBegins ==
    ASSUME NEW s, Proper(s), Inert(s)
    PROVE  Begins(s)
BY DEF Begins, Inert, Has

\* one after which another may,
LEMMA InertThenBegins ==
    ASSUME NEW s, NEW t, Proper(s), Inert(s), Begins(t)
    PROVE  Begins(s \o t)
<1>1. Proper(s \o t)
    BY CallsConcat DEF Begins
<1>2. s \in Seq(Access) /\ t \in Seq(Access) /\ s \o t \in Seq(Access)
    BY <1>1 DEF Begins, Proper
<1>3. ~Has(s \o t, Create) /\ (Has(s \o t, Start) => Has(t, Start))
  <2>1. ~Has(s, Create) /\ ~Has(s, Start) /\ ~Has(t, Create)
      BY DEF Inert, Has, Begins
  <2> QED BY <1>2, <2>1, ConcatHas, Zenon
<1>4. ASSUME NEW i \in 1..Len(s \o t), IsDetach((s \o t)[i])
      PROVE  ~Has(t, Start) /\ (thread => \E j \in 1..Len(s \o t) : j < i /\ (s \o t)[j] = Join)
  <2>1. i - Len(s) \in 1..Len(t) /\ IsDetach(t[i - Len(s)])
      BY <1>2, <1>4 DEF Inert
  <2>2. ASSUME NEW k \in 1..Len(t), k < i - Len(s), t[k] = Join
        PROVE  Len(s) + k \in 1..Len(s \o t) /\ Len(s) + k < i /\ (s \o t)[Len(s) + k] = Join
      BY <1>2, <2>1, <2>2
  <2> QED BY <2>1, <2>2, Zenon DEF Begins
<1> QED BY <1>1, <1>3, <1>4, Zenon DEF Begins

\* a start
LEMMA StartBegins == Begins(<<Start>>)
<1>1. Proper(<<Start>>)
    BY OtherAccesses DEF Proper, Sound, Guarded
<1> QED BY <1>1, OtherAccesses DEF Begins, Has

\* with a calm access after it,
LEMMA StartThenBegins ==
    ASSUME NEW a, Calm(a)
    PROVE  Begins(<<Start, a>>)
<1>1. PICK x : x = <<Start, a>>
    BY Zenon
<1>2. x \in Seq(Access) /\ Len(x) = 2 /\ x[1] = Start /\ x[2] = a
    BY <1>1, OtherAccesses DEF Calm
<1>3. \A i \in 1..Len(x) : /\ ~IsSuspend(x[i]) /\ ~IsDetach(x[i]) /\ x[i] # Create
                           /\ x[i].op = "set" => x[i].event # "paused"
    BY <1>2, OtherAccesses DEF Calm
<1>4. Proper(x)
    BY <1>2, <1>3 DEF Proper, Sound, Guarded
<1> QED BY <1>1, <1>3, <1>4, Zenon DEF Begins, Has

\* and the removal of the engine after one that joins.
LEMMA DetachBegins ==
    ASSUME NEW s, Proper(s), Inert(s), thread => Has(s, Join)
    PROVE  Begins(s \o <<Store("attached", FALSE)>>)
<1>1. PICK d : d = Store("attached", FALSE)
    BY Zenon
<1>2. d \in Access /\ ~IsSuspend(d) /\ d # Create /\ d # Start /\ d.op # "set"
  <2>1. d.op = "store"
      BY <1>1, Zenon DEF Store
  <2>2. d \in Access /\ ~IsSuspend(d)
      BY <1>1, OtherAccesses, Zenon
  <2> QED BY <2>1, <2>2 DEF Create, Start
<1>3. Proper(<<d>>)
    BY <1>2 DEF Proper, Sound, Guarded
<1>4. Proper(s \o <<d>>)
    BY <1>3, CallsConcat
<1>5. s \in Seq(Access) /\ <<d>> \in Seq(Access)
    BY <1>3 DEF Inert, Proper
<1>6. \A i \in 1..Len(s \o <<d>>) : (s \o <<d>>)[i] # Create /\ (s \o <<d>>)[i] # Start
    BY <1>2, <1>5 DEF Inert
<1>7. \A i \in 1..Len(s \o <<d>>) : IsDetach((s \o <<d>>)[i]) => i = Len(s) + 1
    BY <1>5 DEF Inert
<1>8. ASSUME thread PROVE \E j \in 1..Len(s \o <<d>>) : j < Len(s) + 1 /\ (s \o <<d>>)[j] = Join
  <2>1. PICK j \in 1..Len(s) : s[j] = Join
      BY <1>8 DEF Has
  <2> QED BY <1>5, <2>1
<1> QED BY <1>1, <1>4, <1>6, <1>7, <1>8, Zenon DEF Begins, Has

\* Every message begins such a call.
LEMMA MessageBegins ==
    ASSUME Message
    PROVE  /\ todo = <<>> /\ Begins(todo')
           /\ UNCHANGED <<signalled, flag, lock, thread, worker, attempt, woken, late>>
<1>1. /\ Calm(Store("invalid", TRUE)) /\ Calm(Store("invalid", FALSE)) /\ Calm(Lock)
      /\ Calm(Unlock) /\ Calm(Store("visible", FALSE)) /\ Calm(Store("failed", TRUE))
      /\ Calm(Store("failed", FALSE))
      /\ \A v \in BOOLEAN : Calm([op |-> "store", names |-> {"visible", "invalid"}, value |-> v])
      /\ Calm([op |-> "store", names |-> {"attached", "visible", "drawn"}, value |-> TRUE])
      /\ Calm(SynchronizedOutputChanged(TRUE)) /\ Calm(SynchronizedOutputChanged(FALSE))
    BY CalmMade, CalmAccesses, CalmStores, Zenon
<1>2. \A s, t : AllCalm(s) /\ AllCalm(t) => AllCalm(s \o t)
    BY CallsConcat, Zenon
<1>3. \A s, t : (Proper(s) /\ Inert(s)) /\ (Proper(t) /\ Inert(t)) =>
          Proper(s \o t) /\ Inert(s \o t)
    BY CallsConcat, Zenon
<1>4. \A s : AllCalm(s) => Proper(s) /\ Inert(s)
    BY CalmCall, Zenon
<1>5. ASSUME NEW s, Begin(s), Begins(s)
      PROVE  /\ todo = <<>> /\ Begins(todo')
             /\ UNCHANGED <<signalled, flag, lock, thread, worker, attempt, woken, late>>
    BY <1>5, Zenon DEF Begin
<1>6. CASE Write
  <2>1. PICK mode \in {<<>>, <<SynchronizedOutputChanged(TRUE)>>,
                       <<SynchronizedOutputChanged(FALSE)>>},
             s \in {<<>>, <<Store("invalid", TRUE)>>} :
            Begin(<<Lock>> \o Change \o mode \o <<Unlock>> \o s)
      BY <1>6, Zenon DEF Write
  <2>2. AllCalm(<<Lock>>) /\ AllCalm(<<Unlock>>) /\ AllCalm(Change) /\ AllCalm(mode)
        /\ AllCalm(s)
      BY <1>1, CalmNone, CalmOne, CalmCalls, Zenon
  <2>3. AllCalm(<<Lock>> \o Change \o mode)
      BY <1>2, <2>2, Zenon
  <2>4. AllCalm(<<Lock>> \o Change \o mode \o <<Unlock>> \o s)
      BY <1>2, <2>2, <2>3, Zenon
  <2> QED BY <1>4, <1>5, <2>1, <2>4, InertBegins, Zenon
<1>7. CASE Paint
  <2>1. AllCalm(<<Store("invalid", FALSE)>> \o RequestPaint)
      BY <1>1, <1>2, CalmOne, CalmCalls, Zenon
  <2>2. Begins(<<Store("invalid", FALSE)>> \o RequestPaint \o <<Start>>)
      BY <1>4, <2>1, StartBegins, InertThenBegins, Zenon
  <2> QED BY <1>5, <1>7, <2>2, Zenon DEF Paint
<1>8. CASE Show
  <2> DEFINE n == [op |-> "store", names |-> {"visible", "invalid"}, value |-> TRUE]
  <2>1. Begins(<<Start, n>>)
      BY <1>1, StartThenBegins, Zenon
  <2> QED BY <1>5, <1>8, <2>1, Zenon DEF Show
<1>9. CASE Hide
  <2>1. Proper(<<Store("visible", FALSE)>>) /\ Inert(<<Store("visible", FALSE)>>)
      BY <1>1, <1>4, CalmOne, Zenon
  <2>2. Proper(Stop \o <<Store("visible", FALSE)>>) /\ Inert(Stop \o <<Store("visible", FALSE)>>)
      BY <1>3, <2>1, StopCall, Zenon
  <2> QED BY <1>5, <1>9, <2>2, InertBegins, Zenon DEF Hide
<1>10. CASE SetFont
  <2>1. AllCalm(<<Store("failed", TRUE)>>) /\ AllCalm(Resize) /\ AllCalm(RequestPaint)
      BY <1>1, CalmOne, CalmCalls, Zenon
  <2>2. Begins(Stop \o <<Store("failed", TRUE)>>)
      BY <1>3, <1>4, <2>1, StopCall, InertBegins, Zenon
  <2>3. Proper(Stop \o Resize \o RequestPaint) /\ Inert(Stop \o Resize \o RequestPaint)
      BY <1>3, <1>4, <2>1, StopCall, Zenon
  <2>4. Begins(Stop \o Resize \o RequestPaint \o <<Start>>)
      BY <2>3, StartBegins, InertThenBegins, Zenon
  <2> QED BY <1>5, <1>10, <2>2, <2>4, Zenon DEF SetFont
<1>11. CASE Detach
  <2> DEFINE w == [op |-> "store", names |-> {"visible", "invalid"}, value |-> FALSE]
  <2>1. AllCalm(<<w>>) /\ AllCalm(TriggerTeardown) /\ (thread => Has(TriggerTeardown, Join))
      BY <1>1, CalmOne, CalmCalls, Zenon
  <2>2. Begins(CloseRenderer)
      BY <1>4, <2>1, DetachBegins, Zenon DEF CloseRenderer
  <2>3. Proper(Stop \o Stop \o <<w>>) /\ Inert(Stop \o Stop \o <<w>>)
      BY <1>3, <1>4, <2>1, StopCall, Zenon
  <2>4. Begins(Stop \o Stop \o <<w>> \o CloseRenderer)
      BY <2>2, <2>3, InertThenBegins, Zenon
  <2> QED BY <1>5, <1>11, <2>4, Zenon DEF Detach
<1>12. CASE Attach
  <2> DEFINE n == [op |-> "store", names |-> {"attached", "visible", "drawn"}, value |-> TRUE]
  <2>1. AllCalm(<<n, Store("failed", FALSE)>> \o Resize)
      BY <1>1, <1>2, CalmTwo, CalmCalls, Zenon
  <2> QED BY <1>4, <1>5, <1>12, <2>1, InertBegins, Zenon DEF Attach
<1> QED BY <1>6, <1>7, <1>8, <1>9, <1>10, <1>11, <1>12 DEF Message

-----------------------------------------------------------------------------
\* The steps keep the invariant.

\* What a step of the worker may do to what the UI thread relies on.
LEMMA WorkerFacts ==
    ASSUME RenderType, WorkerStep \/ TimerStep
    PROVE  /\ UNCHANGED <<thread, todo>> /\ flag' \in [Flags -> BOOLEAN] /\ late' \in BOOLEAN
           /\ worker # "none" /\ worker' # "none"
           /\ flag'["suspendRequested"] = flag["suspendRequested"]
           /\ flag'["attached"] = flag["attached"]
           /\ late => late'
           /\ "paused" \in signalled' =>
                 \/ "paused" \in signalled
                 \/ worker' \notin Painting /\ (flag["suspendRequested"] \/ late')
           /\ worker' \in Painting => worker \in Painting \/ ~flag["suspendRequested"]
<1>0. UNCHANGED <<thread, todo>>
    BY DEF WorkerStep, TimerStep
<1> USE <1>0 DEF RenderType, Goto, Painting
<1>1. CASE Loop \/ AwaitEnable \/ Gate \/ Exit \/ TestRedraw \/ TimerExpires
    BY <1>1 DEF Loop, AwaitEnable, Gate, Exit, TestRedraw, TimerExpires
<1>2. CASE Park \/ Acknowledge
  <2>1. late' \in BOOLEAN
      BY <1>2, Zenon DEF Park, Acknowledge
  <2>2. (late => late') /\ (flag["suspendRequested"] \/ late')
      BY <1>2, Zenon DEF Park, Acknowledge
  <2>3. /\ UNCHANGED flag /\ worker # "none" /\ worker' \in {"acknowledge", "loop"}
      BY <1>2 DEF Park, Acknowledge
  <2> QED BY <2>1, <2>2, <2>3
<1>3. CASE AwaitWake \/ Disable
    BY <1>3 DEF AwaitWake, Disable
<1>4. CASE BeginFrame \/ Retry \/ Backoff
    BY <1>4 DEF BeginFrame, Retry, Backoff
<1>5. CASE AwaitOutput
  <2>1. worker = "syncWait" /\ worker' = "syncLock" /\ UNCHANGED <<signalled, flag, late>>
      BY <1>5 DEF AwaitOutput
  <2> QED BY <2>1
<1>6. CASE EndSynchronization \/ Draw \/ Present \/ Report
  <2> DEFINE Kept == /\ flag' \in [Flags -> BOOLEAN] /\ flag'["attached"] = flag["attached"]
                     /\ flag'["suspendRequested"] = flag["suspendRequested"]
  <2>1. /\ UNCHANGED <<signalled, late>> /\ worker \in {"syncLock", "draw", "present", "report"}
        /\ worker' \in {"syncWait", "draw", "present", "retry", "loop"}
      BY <1>6, Zenon DEF EndSynchronization, Draw, Present, Report
  <2>2. ASSUME EndSynchronization PROVE Kept
    <3>1. UNCHANGED flag \/ flag' = [flag EXCEPT !["syncing"] = FALSE]
        BY <2>2, Zenon DEF EndSynchronization
    <3>2. CASE flag' = [flag EXCEPT !["syncing"] = FALSE]
        BY <3>2, Zenon DEF Flags
    <3> QED BY <3>1, <3>2, Zenon
  <2>3. ASSUME Draw PROVE Kept
    <3>1. CASE flag' = [flag EXCEPT !["redraw"] = FALSE]
        BY <3>1, Zenon DEF Flags
    <3>2. CASE flag' = [flag EXCEPT !["redraw"] = FALSE, !["pending"] = FALSE,
                                    !["drawn"] = @ \/ flag["pending"]]
      <4>1. \A v \in BOOLEAN : [flag EXCEPT !["redraw"] = FALSE, !["pending"] = FALSE,
                                          !["drawn"] = v] \in [Flags -> BOOLEAN]
          BY Zenon
      <4>2. flag' \in [Flags -> BOOLEAN]
          BY <3>2, <4>1, Zenon DEF Flags
      <4>3. flag'["attached"] = flag["attached"]
          BY <3>2, Zenon DEF Flags
      <4>4. flag'["suspendRequested"] = flag["suspendRequested"]
          BY <3>2, Zenon DEF Flags
      <4> QED BY <4>2, <4>3, <4>4
    <3> QED BY <2>3, <3>1, <3>2, Zenon DEF Draw
  <2>4. ASSUME Present PROVE Kept
      BY <2>4, Zenon DEF Present, Flags
  <2>5. ASSUME Report PROVE Kept
      BY <2>5, Zenon DEF Report, Flags
  <2> QED BY <1>6, <2>1, <2>2, <2>3, <2>4, <2>5
<1> QED BY <1>1, <1>2, <1>3, <1>4, <1>5, <1>6 DEF WorkerStep, TimerStep

\* A step of the worker keeps the invariant.
LEMMA WorkerKeeps ==
    ASSUME RenderInv, WorkerStep \/ TimerStep
    PROVE  RenderInv'
<1>1. /\ UNCHANGED <<thread, todo>> /\ flag' \in [Flags -> BOOLEAN] /\ late' \in BOOLEAN
      /\ worker # "none" /\ worker' # "none"
      /\ flag'["suspendRequested"] = flag["suspendRequested"]
      /\ flag'["attached"] = flag["attached"]
      /\ late => late'
      /\ "paused" \in signalled' =>
            \/ "paused" \in signalled
            \/ worker' \notin Painting /\ (flag["suspendRequested"] \/ late')
      /\ worker' \in Painting => worker \in Painting \/ ~flag["suspendRequested"]
    BY WorkerFacts DEF RenderInv
<1>2. RenderType'
    BY <1>1 DEF RenderInv, RenderType
<1>3. PauseInv'
    BY <1>1 DEF RenderInv, PauseInv
<1>4. EngineInv'
    BY <1>1 DEF RenderInv, EngineInv
<1> QED BY <1>2, <1>3, <1>4 DEF RenderInv

\* What is left of a call when its first access has been made.
LEMMA TailFacts ==
    ASSUME RenderInv, todo # <<>>
    PROVE  /\ Head(todo) \in Access /\ Tail(todo) \in Seq(Access) /\ Sound(Tail(todo))
           /\ \A i \in 1..Len(Tail(todo)) : IsSuspend(Tail(todo)[i]) =>
                IF i = 1 THEN Head(todo) = Reset("paused")
                         ELSE Tail(todo)[i - 1] = Reset("paused")
           /\ \A a : Has(todo, a) <=> (Head(todo) = a \/ Has(Tail(todo), a))
           /\ IsSuspend(Head(todo)) => Has(Tail(todo), Await)
           /\ \A i \in 1..Len(Tail(todo)) : IsDetach(Tail(todo)[i]) =>
                /\ ~Has(todo, Create) /\ ~Has(todo, Start)
                /\ thread /\ Head(todo) # Join =>
                     \E j \in 1..Len(Tail(todo)) : j < i /\ Tail(todo)[j] = Join
           /\ IsDetach(Head(todo)) => ~thread
<1> DEFINE h == Head(todo)
           t == Tail(todo)
<1>1. /\ todo \in Seq(Access) /\ t \in Seq(Access) /\ h \in Access /\ h = todo[1]
      /\ Len(todo) \in Nat /\ Len(todo) # 0 /\ Len(t) = Len(todo) - 1
      /\ \A i \in 1..Len(t) : i + 1 \in 1..Len(todo) /\ t[i] = todo[i + 1]
      /\ \A i \in 1..Len(todo) : i # 1 => i - 1 \in 1..Len(t) /\ todo[i] = t[i - 1]
    BY HeadTail DEF RenderInv, RenderType
<1> HIDE DEF h, t
<1>2. Sound(todo) /\ 1 \in 1..Len(todo)
    BY <1>1 DEF RenderInv, PauseInv
<1>3. Sound(t)
    BY <1>1, <1>2 DEF Sound
<1>4. \A i \in 1..Len(t) : IsSuspend(t[i]) =>
          IF i = 1 THEN h = Reset("paused") ELSE t[i - 1] = Reset("paused")
    BY <1>1 DEF RenderInv, PauseInv
<1>5. \A a : Has(todo, a) <=> (h = a \/ Has(t, a))
    BY <1>1, <1>2 DEF Has
<1>6. IsSuspend(h) => Has(t, Await)
    BY <1>1, <1>2 DEF Sound, Has
<1>7. ASSUME NEW i \in 1..Len(t), IsDetach(t[i])
      PROVE  /\ ~Has(todo, Create) /\ ~Has(todo, Start)
             /\ thread /\ h # Join => \E j \in 1..Len(t) : j < i /\ t[j] = Join
  <2>1. i + 1 \in 1..Len(todo) /\ IsDetach(todo[i + 1])
      BY <1>1, <1>7
  <2>2. /\ ~Has(todo, Create) /\ ~Has(todo, Start)
        /\ thread => \E j \in 1..Len(todo) : j < i + 1 /\ todo[j] = Join
      BY <2>1 DEF RenderInv, EngineInv
  <2> QED BY <1>1, <2>2
<1>8. IsDetach(h) => ~thread
    BY <1>1, <1>2 DEF RenderInv, EngineInv
<1> QED BY <1>1, <1>3, <1>4, <1>5, <1>6, <1>7, <1>8 DEF h, t

\* Accesses whose kind determines them.
LEMMA Bare ==
    ASSUME NEW a \in Access
    PROVE  /\ a.op = "await" <=> a = Await
           /\ a.op = "join" <=> a = Join
           /\ a.op = "create" <=> a = Create
           /\ a.op = "start" <=> a = Start
           /\ a = Reset("paused") => a.op = "reset"
BY DEF Access, Await, Join, Create, Start, Reset

\* An access is made: what it may do to the flags, the events and the worker.
Made ==
    /\ todo' = Tail(todo) /\ UNCHANGED late /\ flag' \in [Flags -> BOOLEAN]
    /\ flag'["suspendRequested"] => flag["suspendRequested"] \/ IsSuspend(Head(todo))
    /\ ~flag'["attached"] => ~flag["attached"] \/ IsDetach(Head(todo))
    /\ "paused" \in signalled' => "paused" \in signalled /\ Head(todo) # Reset("paused")
    /\ Head(todo) = Await => "paused" \in signalled
    /\ \/ Head(todo) # Join /\ UNCHANGED <<thread, worker>>
       \/ Head(todo) = Create /\ thread' = TRUE /\ worker' = "loop"
       \/ Head(todo) = Join /\ thread' = FALSE /\ worker' = "none"

\* That keeps the invariant.
LEMMA AccessKeeps ==
    ASSUME RenderInv, todo # <<>>, Made
    PROVE  RenderInv'
<1> USE DEF Made
<1>1. PICK h \in Access : h = Head(todo)
    BY TailFacts
<1>2. PICK t \in Seq(Access) : t = Tail(todo)
    BY TailFacts
<1>3. /\ Sound(t)
      /\ \A i \in 1..Len(t) : IsSuspend(t[i]) =>
           IF i = 1 THEN h = Reset("paused") ELSE t[i - 1] = Reset("paused")
      /\ \A a : Has(todo, a) <=> (h = a \/ Has(t, a))
      /\ IsSuspend(h) => Has(t, Await)
    BY <1>1, <1>2, TailFacts
<1>4. /\ \A i \in 1..Len(t) : IsDetach(t[i]) =>
           /\ ~Has(todo, Create) /\ ~Has(todo, Start)
           /\ thread /\ h # Join => \E j \in 1..Len(t) : j < i /\ t[j] = Join
      /\ IsDetach(h) => ~thread
    BY <1>1, <1>2, TailFacts
<1>5. /\ IsSuspend(h) => "paused" \notin signalled \/ flag["suspendRequested"] \/ late
      /\ IsDetach(h) => ~Has(todo, Create)
    BY <1>1, HeadTail DEF RenderInv, RenderType, PauseInv, EngineInv
<1>6. RenderType'
  <2>1. todo' \in Seq(Access) /\ late' \in BOOLEAN
      BY <1>2 DEF RenderInv, RenderType
  <2>2. thread' \in BOOLEAN
      BY Zenon DEF RenderInv, RenderType
  <2> QED BY <2>1, <2>2, Zenon DEF RenderType
<1>7. PauseInv'
  <2>1. \A i \in 1..Len(t) : IsSuspend(t[i]) =>
            IF i = 1 THEN "paused" \notin signalled' ELSE t[i - 1] = Reset("paused")
      BY <1>1, <1>3
  <2>2. ASSUME flag'["suspendRequested"], ~late, "paused" \in signalled' \/ ~Has(t, Await)
        PROVE  worker' \notin Painting
    <3>1. flag["suspendRequested"] /\ ("paused" \in signalled \/ ~Has(todo, Await))
        BY <1>1, <1>3, <1>5, <2>2
    <3>2. worker \notin Painting
        BY <2>2, <3>1 DEF RenderInv, PauseInv
    <3> QED BY <3>2 DEF Painting
  <2> QED BY <1>2, <1>3, <2>1, <2>2 DEF PauseInv
<1>8. EngineInv'
  <2>1. thread' <=> worker' # "none"
      BY DEF RenderInv, EngineInv
  <2>2. ASSUME ~flag'["attached"] PROVE ~thread' /\ ~Has(t, Create)
      BY <1>1, <1>3, <1>4, <1>5, <2>2 DEF RenderInv, EngineInv
  <2>3. ASSUME NEW i \in 1..Len(t), IsDetach(t[i])
        PROVE  /\ ~Has(t, Create) /\ ~Has(t, Start)
               /\ thread' => \E j \in 1..Len(t) : j < i /\ t[j] = Join
    <3>1. /\ ~Has(todo, Create) /\ ~Has(todo, Start)
          /\ thread /\ h # Join => \E j \in 1..Len(t) : j < i /\ t[j] = Join
        BY <1>4, <2>3
    <3>2. ~Has(t, Create) /\ ~Has(t, Start) /\ h # Create
        BY <1>3, <3>1, Zenon
    <3> QED BY <1>1, <3>1, <3>2
  <2> QED BY <1>2, <2>1, <2>2, <2>3 DEF EngineInv
<1> QED BY <1>6, <1>7, <1>8 DEF RenderInv

\* A call that is made of others.
LEMMA CallKeeps ==
    ASSUME RenderInv, todo # <<>>, NEW p, Proper(p), todo' = p \o Tail(todo),
           UNCHANGED <<signalled, flag, thread, worker, late>>,
           Head(todo).op \in {"sync", "start"}, ~Has(p, Start),
           \A i \in 1..Len(p) : ~IsDetach(p[i]),
           Has(p, Create) => flag["attached"] /\ Head(todo) = Start
    PROVE  RenderInv'
<1>1. PICK h \in Access : h = Head(todo)
    BY TailFacts
<1>2. PICK t \in Seq(Access) : t = Tail(todo)
    BY TailFacts, Zenon
<1>3. h # Await /\ h # Join /\ h # Reset("paused")
    BY <1>1, Bare
<1>4. /\ Sound(t) /\ Guarded(t)
      /\ \A a : Has(todo, a) <=> (h = a \/ Has(t, a))
    BY <1>1, <1>2, <1>3, TailFacts DEF Guarded
<1>5. Proper(p \o t)
    BY <1>4, CallsConcat DEF Proper
<1>6. \A a : Has(p \o t, a) <=> (Has(p, a) \/ Has(t, a))
    BY ConcatHas DEF Proper
<1>7. RenderType'
    BY <1>2, <1>5 DEF RenderInv, RenderType, Proper
<1>8. PauseInv'
  <2>1. \A i \in 1..Len(p \o t) : IsSuspend((p \o t)[i]) =>
            i # 1 /\ (p \o t)[i - 1] = Reset("paused")
      BY <1>5, Zenon DEF Proper, Guarded
  <2>2. ~Has(p \o t, Await) => ~Has(todo, Await)
      BY <1>3, <1>4, <1>6
  <2> QED BY <1>2, <1>5, <2>1, <2>2 DEF RenderInv, PauseInv, Proper
<1>9. EngineInv'
  <2>1. ~flag["attached"] => ~Has(p \o t, Create)
      BY <1>4, <1>6 DEF RenderInv, EngineInv
  <2>2. ASSUME NEW i \in 1..Len(p \o t), IsDetach((p \o t)[i])
        PROVE  /\ ~Has(p \o t, Create) /\ ~Has(p \o t, Start)
               /\ thread => \E j \in 1..Len(p \o t) : j < i /\ (p \o t)[j] = Join
    <3>1. p \in Seq(Access) /\ i - Len(p) \in 1..Len(t) /\ IsDetach(t[i - Len(p)])
        BY <2>2 DEF Proper
    <3>2. /\ ~Has(todo, Create) /\ ~Has(todo, Start)
          /\ thread => \E j \in 1..Len(t) : j < i - Len(p) /\ t[j] = Join
      <4>1. \A k \in 1..Len(t) : IsDetach(t[k]) =>
                /\ ~Has(todo, Create) /\ ~Has(todo, Start)
                /\ thread /\ h # Join => \E j \in 1..Len(t) : j < k /\ t[j] = Join
          BY <1>1, <1>2, TailFacts, Zenon
      <4> QED BY <1>3, <3>1, <4>1, Zenon
    <3>3. ~Has(p \o t, Create) /\ ~Has(p \o t, Start)
        BY <1>1, <1>4, <1>6, <3>2, Zenon
    <3>4. ASSUME NEW j \in 1..Len(t), j < i - Len(p), t[j] = Join
          PROVE  Len(p) + j \in 1..Len(p \o t) /\ Len(p) + j < i /\ (p \o t)[Len(p) + j] = Join
        BY <3>1, <3>4
    <3> QED BY <3>2, <3>3, <3>4, Zenon
  <2>3. (thread <=> worker # "none") /\ (~flag["attached"] => ~thread)
      BY DEF RenderInv, EngineInv
  <2>4. PICK s : s = p \o t /\ todo' = s
      BY <1>2, Zenon
  <2> QED BY <2>1, <2>2, <2>3, <2>4, Zenon DEF EngineInv
<1> QED BY <1>7, <1>8, <1>9 DEF RenderInv

\* A call that may be part of a start: it may create the worker.
Enables(s) == Proper(s) /\ \A i \in 1..Len(s) : ~IsDetach(s[i]) /\ s[i] # Start

\* Such calls in sequence,
LEMMA EnablesConcat ==
    ASSUME NEW s, NEW t, Enables(s), Enables(t)
    PROVE  Enables(s \o t)
<1>1. Proper(s \o t)
    BY CallsConcat DEF Enables
<1>2. s \in Seq(Access) /\ t \in Seq(Access)
    BY DEF Enables, Proper
<1> QED BY <1>1, <1>2 DEF Enables

\* and EnablePainting.
LEMMA EnableCall == Enables(EnablePainting)
<1>1. /\ Calm(Store("suspendRequested", FALSE)) /\ Calm(Reset("stop")) /\ Calm(Reconcile)
      /\ Calm(Set("enable")) /\ Calm(Store("keepRunning", TRUE))
    BY CalmMade, CalmAccesses, CalmStores, Zenon
<1>2. \A s : AllCalm(s) => Enables(s)
    BY CalmCall DEF Enables, Inert
<1>3. /\ Enables(<<Store("suspendRequested", FALSE), Reset("stop"), Reconcile, Set("enable")>>)
      /\ Enables(<<>>)
    BY <1>1, <1>2, CalmNone, CalmFour, Zenon
<1>4. Enables(<<Store("keepRunning", TRUE), Reset("stop"), Reconcile, Create>>)
  <2>1. PICK a, b, c : /\ a = Store("keepRunning", TRUE) /\ b = Reset("stop") /\ c = Reconcile
                        /\ Calm(a) /\ Calm(b) /\ Calm(c)
      BY <1>1, Zenon
  <2>2. PICK d, x : /\ d = Create /\ d \in Access /\ ~IsSuspend(d) /\ ~IsDetach(d) /\ d # Start
                     /\ d.op # "set" /\ x = <<a, b, c, d>>
      BY OtherAccesses, Zenon
  <2>a. Calm(a) /\ Calm(b) /\ Calm(c)
      BY <2>1, Zenon
  <2>3. x \in Seq(Access) /\ Len(x) = 4 /\ x[1] = a /\ x[2] = b /\ x[3] = c /\ x[4] = d
      BY <2>a, <2>2 DEF Calm
  <2>4. \A i \in 1..Len(x) : /\ ~IsSuspend(x[i]) /\ ~IsDetach(x[i]) /\ x[i] # Start
                             /\ x[i].op = "set" => x[i].event # "paused"
      BY <2>a, <2>2, <2>3 DEF Calm
  <2>5. Proper(x)
      BY <2>3, <2>4 DEF Proper, Sound, Guarded
  <2> QED BY <2>1, <2>2, <2>4, <2>5, Zenon DEF Enables
<1> QED BY <1>3, <1>4, EnablesConcat, Zenon DEF EnablePainting

\* A step of the UI thread keeps the invariant.
LEMMA UiKeeps ==
    ASSUME RenderInv, UiStep
    PROVE  RenderInv'
<1>0. todo # <<>>
    BY Zenon DEF UiStep, Perform, TakeLock, ReleaseLock, Synchronize, StartPainting,
       CreateThread, JoinThread, Doing
<1>1. Head(todo) \in Access
    BY <1>0, TailFacts
<1>2. /\ Head(todo).op = "await" <=> Head(todo) = Await
      /\ Head(todo).op = "join" <=> Head(todo) = Join
      /\ Head(todo).op = "create" <=> Head(todo) = Create
      /\ Head(todo).op = "start" <=> Head(todo) = Start
      /\ Head(todo) = Reset("paused") => Head(todo).op = "reset"
    BY <1>1, Bare
<1>3. CASE Perform
  <2>1. todo' = Tail(todo) /\ UNCHANGED <<thread, worker, late>>
      BY <1>3 DEF Perform
  <2>2. flag \in [Flags -> BOOLEAN]
      BY DEF RenderInv, RenderType
  <2>3. ASSUME Doing("set"), signalled' = signalled \cup {Head(todo).event}, UNCHANGED flag
        PROVE  Made
    <3>1. Head(todo).event # "paused"
        BY <1>0, <2>3, HeadTail DEF Doing, RenderInv, RenderType, PauseInv, Sound
    <3> QED BY <1>2, <2>1, <2>2, <2>3, <3>1 DEF Made, Doing
  <2>4. ASSUME Doing("reset"), signalled' = signalled \ {Head(todo).event}, UNCHANGED flag
        PROVE  Made
    <3>1. Head(todo) = Reset("paused") => Head(todo).event = "paused"
        BY DEF Reset
    <3> QED BY <1>2, <2>1, <2>2, <2>4, <3>1 DEF Made, Doing
  <2>5. ASSUME Doing("store"), UNCHANGED signalled,
               flag' = [f \in Flags |-> IF f \in Head(todo).names THEN Head(todo).value
                                                                ELSE flag[f]]
        PROVE  Made
    <3>1. PICK names \in SUBSET Flags, value \in BOOLEAN :
              names = Head(todo).names /\ value = Head(todo).value
        BY <1>1, <2>5, Zenon DEF Doing, Access
    <3>2. flag' = [f \in Flags |-> IF f \in names THEN value ELSE flag[f]]
        BY <2>5, <3>1, Zenon
    <3>3. flag' \in [Flags -> BOOLEAN]
        BY <2>2, <3>2, Zenon
    <3>4. flag'["suspendRequested"] => flag["suspendRequested"] \/ IsSuspend(Head(todo))
        BY <2>5, <3>1, <3>2, Zenon DEF IsSuspend, Doing, Flags
    <3>5. ~flag'["attached"] => ~flag["attached"] \/ IsDetach(Head(todo))
        BY <2>5, <3>1, <3>2, Zenon DEF IsDetach, Doing, Flags
    <3>6. Head(todo) # Await /\ Head(todo) # Join /\ Head(todo) # Reset("paused")
        BY <1>2, <2>5 DEF Doing
    <3> QED BY <2>1, <2>5, <3>3, <3>4, <3>5, <3>6, Zenon DEF Made
  <2>6. ASSUME Doing("reconcile"), UNCHANGED flag,
               signalled' \in {signalled \ {"outputReady"}, signalled \cup {"outputReady"}}
        PROVE  Made
      BY <1>2, <2>1, <2>2, <2>6 DEF Made, Doing
  <2>7. ASSUME Doing("await"), "paused" \in signalled, UNCHANGED <<signalled, flag>>
        PROVE  Made
      BY <1>2, <2>1, <2>2, <2>7 DEF Made, Doing
  <2>8. Made
      BY <1>3, <2>3, <2>4, <2>5, <2>6, <2>7, Zenon DEF Perform
  <2> QED BY <1>0, <2>8, AccessKeeps
<1>4. CASE TakeLock \/ ReleaseLock
  <2>1. Made
      BY <1>2, <1>4 DEF TakeLock, ReleaseLock, Doing, RenderInv, RenderType, Made
  <2> QED BY <1>0, <2>1, AccessKeeps
<1>5. CASE CreateThread \/ JoinThread
  <2>1. flag' \in [Flags -> BOOLEAN] /\ UNCHANGED <<signalled, flag, late>>
        /\ todo' = Tail(todo) /\ Head(todo) # Await /\ Head(todo) # Reset("paused")
      BY <1>2, <1>5 DEF CreateThread, JoinThread, Doing, RenderInv, RenderType
  <2>2. Made
      BY <1>2, <1>5, <2>1, Zenon DEF CreateThread, JoinThread, Doing, Made
  <2> QED BY <1>0, <2>2, AccessKeeps
<1>6. CASE Synchronize
  <2>1. PICK p : AllCalm(p) /\ todo' = p \o Tail(todo)
    <3>1. /\ Calm(Store("syncing", TRUE)) /\ Calm(Store("syncing", FALSE)) /\ Calm(Lock)
          /\ Calm(Reset("outputReady")) /\ Calm(Set("outputReady")) /\ Calm(Unlock)
        BY CalmMade, CalmAccesses, Zenon
    <3>2. /\ AllCalm(<<>>) /\ AllCalm(<<Store("syncing", TRUE), Reset("outputReady")>>)
          /\ AllCalm(<<Store("syncing", FALSE), Set("outputReady"), Unlock, Lock>>)
        BY <3>1, CalmNone, CalmTwo, CalmFour, Zenon
    <3> QED BY <1>6, <3>2, Zenon DEF Synchronize
  <2>2. Proper(p) /\ Inert(p)
      BY <2>1, CalmCall
  <2>3. ~Has(p, Start) /\ ~Has(p, Create) /\ \A i \in 1..Len(p) : ~IsDetach(p[i])
      BY <2>2 DEF Inert, Has
  <2>4. Head(todo).op = "sync" /\ UNCHANGED <<signalled, flag, thread, worker, late>>
      BY <1>6 DEF Synchronize, Doing
  <2> QED BY <1>0, <2>1, <2>2, <2>3, <2>4, CallKeeps, Zenon
<1>7. CASE StartPainting
  <2>1. Head(todo) = Start /\ UNCHANGED <<signalled, flag, thread, worker, late>>
      BY <1>2, <1>7 DEF StartPainting, Doing
  <2>2. PICK p : Enables(p) /\ todo' = p \o Tail(todo) /\ (p = <<>> \/ flag["attached"])
    <3>1. Calm(Store("running", TRUE)) /\ Calm(Unlock) /\ Calm(Lock)
        BY CalmMade, CalmAccesses, Zenon
    <3>2. AllCalm(<<>>) /\ AllCalm(<<Lock>>) /\ AllCalm(<<Store("running", TRUE), Unlock>>)
        BY <3>1, CalmNone, CalmOne, CalmTwo, Zenon
    <3>3. \A s : AllCalm(s) => Enables(s)
        BY CalmCall DEF Enables, Inert
    <3>4. Enables(<<>>)
          /\ Enables(<<Lock>> \o EnablePainting \o <<Store("running", TRUE), Unlock>>)
        BY <3>2, <3>3, EnablesConcat, EnableCall, Zenon
    <3> QED BY <1>7, <3>4, Zenon DEF StartPainting
  <2>3. ~Has(p, Start) /\ \A i \in 1..Len(p) : ~IsDetach(p[i])
      BY <2>2 DEF Enables, Has
  <2>4. Has(p, Create) => flag["attached"]
      BY <2>2 DEF Has
  <2>5. Head(todo).op = "start"
      BY <1>2, <2>1
  <2> QED BY <1>0, <2>1, <2>2, <2>3, <2>4, <2>5, CallKeeps, Zenon DEF Enables
<1> QED BY <1>3, <1>4, <1>5, <1>6, <1>7 DEF UiStep

\* A message keeps the invariant.
LEMMA MessageKeeps ==
    ASSUME RenderInv, Message
    PROVE  RenderInv'
<1>1. /\ todo = <<>> /\ Begins(todo')
      /\ UNCHANGED <<signalled, flag, lock, thread, worker, attempt, woken, late>>
    BY MessageBegins
<1>2. ~Has(todo, Await)
    BY <1>1 DEF Has
<1>3. PICK s : s = todo' /\ Proper(s) /\ ~Has(s, Create)
                /\ \A i \in 1..Len(s) : IsDetach(s[i]) =>
                     ~Has(s, Start) /\ (thread => \E j \in 1..Len(s) : j < i /\ s[j] = Join)
    BY <1>1, Zenon DEF Begins
<1>4. RenderType'
    BY <1>1, <1>3 DEF RenderInv, RenderType, Proper
<1>5. PauseInv'
    BY <1>1, <1>2, <1>3 DEF RenderInv, PauseInv, Proper, Guarded
<1>6. EngineInv'
    BY <1>1, <1>3 DEF RenderInv, EngineInv
<1> QED BY <1>4, <1>5, <1>6 DEF RenderInv

\* The inductive invariant.
THEOREM RenderInvariant == Spec => []RenderInv
<1>1. ASSUME Init PROVE RenderInv
  <2>1. flag \in [Flags -> BOOLEAN] /\ late \in BOOLEAN /\ thread \in BOOLEAN
      BY <1>1, Zenon DEF Init
  <2>2. ~flag["suspendRequested"] /\ ~thread /\ worker = "none"
      BY <1>1, Zenon DEF Init, Flags
  <2>3. todo \in Seq(Access) /\ 1..Len(todo) = {}
      BY <1>1 DEF Init
  <2> QED BY <2>1, <2>2, <2>3, Zenon DEF RenderInv, RenderType, PauseInv, EngineInv,
             Sound, Has
<1>2. RenderInv /\ [Next]_vars => RenderInv'
  <2>1. CASE UNCHANGED vars
      BY <2>1 DEF vars, RenderInv, RenderType, PauseInv, EngineInv
  <2> QED BY <2>1, UiKeeps, MessageKeeps, WorkerKeeps DEF Next
<1> QED BY <1>1, <1>2, PTL DEF Spec

\* What the worker draws with is neither changed nor removed under it:
\* after SuspendPainting the worker is outside PaintFrame until painting is
\* enabled, and the engine goes only when there is no worker.
THEOREM RenderPaintingSafe == Spec => []PaintingSafe
<1>1. RenderInv => PaintingSafe
    BY DEF RenderInv, RenderType, PauseInv, EngineInv, PaintingSafe, PausedIsQuiet,
       Paused, EngineOutlivesWorker, Has
<1> QED BY <1>1, RenderInvariant, PTL

=============================================================================
