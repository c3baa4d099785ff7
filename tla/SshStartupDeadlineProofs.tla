---------------------- MODULE SshStartupDeadlineProofs ----------------------
(***************************************************************************)
(* TLAPS proofs about SshStartupDeadline, for every budget and every       *)
(* distance between the watchdog's two readings of the clock.              *)
(***************************************************************************)
EXTENDS SshStartupDeadline, TLAPS

\* Where StartCoreAsync stands determines the phases that can be on.
PhaseFits ==
    /\ startup = "Connect" => phase \in {"Identification", "KeyExchange", "Authentication"}
    /\ startup = "OpenPty" => phase = "Pty"
    /\ startup \in {"Begin", "Prompt", "Review", "Running"} => phase = NoPhase

\* The deadline's clock is the phase's age, as long as a phase is on.
ClockFits == phase # NoPhase => age = elapsed

\* The watchdog cancels on an expiry only, and is stopped at the end only.
WatchFits ==
    /\ watch = "Cancel" => expired # NoPhase
    /\ stopped => startup \in {"Running", "Failed"}

Inv == TypeOK /\ PhaseFits /\ ClockFits /\ WatchFits /\ ExpiryHonest

-----------------------------------------------------------------------------
\* Time that passes stays within its bound, and alike for both clocks.
LEMMA LaterFacts ==
    ASSUME NEW time \in 0..Cap, NEW passed \in Nat
    PROVE  /\ Later(time, passed) \in 0..Cap
           /\ time >= Budget => Later(time, passed) >= Budget
    BY DeadlineAssumption DEF Later, Cap

\* The watchdog's delay is within the budget, or endless.
LEMMA DelayFacts ==
    ASSUME NEW time \in Nat
    PROVE  DelayFor(time) \in 0..Budget \cup {Infinite, Never}
<1> DEFINE remaining == Budget - time
<1>1. remaining \in Int /\ remaining <= Budget /\ 0 \in 0..Budget
    BY DeadlineAssumption
<1>2. remaining > 0 => remaining \in 0..Budget
    BY <1>1, DeadlineAssumption
<1>3. DelayFor(time) \in {Infinite, Never, remaining, 0}
    BY DEF DelayFor
<1>4. CASE remaining > 0
    BY <1>2, <1>3, <1>4, <1>1, Zenon
<1>5. CASE ~(remaining > 0)
  <2>1. DelayFor(time) \in {Infinite, Never, 0}
    BY <1>5 DEF DelayFor
  <2> QED
    BY <1>1, <2>1, Zenon
<1> QED
    BY <1>4, <1>5

\* What Check and TryEnter find out: a live startup has no expiry, and is
\* within its phase's budget if it has one.
LEMMA AliveFacts ==
    ASSUME TypeOK, Alive
    PROVE  /\ expired = NoPhase
           /\ ~stopped /\ phase # NoPhase => elapsed < Budget
    BY DeadlineAssumption DEF TypeOK, Alive, ObserveExpiry, Overdue, Cap, Phases, NoPhase

\* ObserveExpiry keeps an expiry honest.
LEMMA ObserveFacts ==
    ASSUME Inv, ObserveExpiry # NoPhase
    PROVE  ObserveExpiry \in Phases /\ phase = ObserveExpiry /\ age >= Budget
    BY DEF Inv, TypeOK, ExpiryHonest, ClockFits, ObserveExpiry, Overdue

\* The phases of the places StartCoreAsync goes to.
LEMMA PhaseOfFacts ==
    /\ PhaseOf["Resolve"] = "Resolution" /\ PhaseOf["Load"] = "KnownHosts"
    /\ PhaseOf["Prepare"] = "Credentials" /\ PhaseOf["Connect"] = "Identification"
    /\ PhaseOf["Recheck"] = "KnownHosts" /\ PhaseOf["Update"] = "TrustUpdate"
    /\ PhaseOf["OpenPty"] = "Pty"
    BY DEF PhaseOf

\* The invariant holds initially.
LEMMA InitInv == Init => Inv
<1> SUFFICES ASSUME Init PROVE Inv
    OBVIOUS
<1>1. 0 \in 0..Cap
    BY DeadlineAssumption DEF Cap
<1>2. TypeOK
    BY <1>1, Zenon DEF Init, TypeOK
<1> QED
    BY <1>2 DEF Init, Inv, PhaseFits, ClockFits, WatchFits, ExpiryHonest, NoPhase

\* EnterStartupPhase, wherever StartCoreAsync calls it.
LEMMA GoesInv ==
    ASSUME Inv, NEW from, NEW to \in Working, Goes(from, to), prompted' \in BOOLEAN,
           from \notin {"Running", "Failed"}
    PROVE  Inv'
<1>1. expired = NoPhase /\ startup = from /\ startup' = to /\ phase' = PhaseOf[to]
    BY AliveFacts DEF Inv, Goes, TryEnter
<1>2. PhaseOf[to] \in Phases
    BY PhaseOfFacts DEF Working, Phases
<1>0. 0 \in 0..Cap
    BY DeadlineAssumption DEF Cap
<1>a. elapsed' \in 0..Cap /\ age' \in 0..Cap /\ signalled' \in BOOLEAN
    BY <1>0 DEF Inv, TypeOK, Goes, TryEnter
<1>3. TypeOK'
    BY <1>a, <1>1, <1>2, Zenon DEF Inv, TypeOK, Goes, watchVars
<1>4. PhaseFits'
    BY <1>1, PhaseOfFacts DEF PhaseFits, Working
<1>5. ClockFits'
    BY <1>1, <1>2 DEF Inv, ClockFits, Goes, TryEnter
<1>6. WatchFits' /\ ExpiryHonest'
    BY <1>1 DEF Inv, WatchFits, ExpiryHonest, Goes, TryEnter, watchVars
<1> QED
    BY <1>3, <1>4, <1>5, <1>6 DEF Inv

\* A callback of the library, whatever expiry it observes.
LEMMA AdvanceInv ==
    ASSUME Inv, NEW expected \in Phases, NEW next \in Phases, TryAdvance(expected, next),
           <<expected, next>> \in {<<"Identification", "KeyExchange">>, <<"KeyExchange", "Authentication">>},
           startup \in {"Connect", "OpenPty", "Running"},
           expired' \in {expired, ObserveExpiry},
           UNCHANGED <<stopped, caller, token, watchVars, startup, prompted>>
    PROVE  Inv'
<1>0. expected # next /\ expected # "Pty" /\ expected # NoPhase
      /\ next \in {"KeyExchange", "Authentication"}
    BY DEF NoPhase
<1>1. CASE phase = expected /\ Alive /\ ~stopped
  <2>1. expired' = NoPhase /\ phase' = next /\ elapsed' = 0 /\ age' = 0
    BY <1>0, <1>1, AliveFacts DEF Inv, TryAdvance, TryEnter, Alive
  <2>2. startup = "Connect"
    BY <1>0, <1>1 DEF Inv, PhaseFits
  <2>0. 0 \in 0..Cap /\ signalled' \in BOOLEAN
    BY <1>0, <1>1, DeadlineAssumption DEF Cap, TryAdvance, TryEnter
  <2>3. TypeOK'
    BY <2>0, <2>1, Zenon DEF Inv, TypeOK, watchVars
  <2>4. expired = NoPhase
    BY <1>1, AliveFacts DEF Inv
  <2>5. PhaseFits' /\ ClockFits'
    BY <2>1, <2>2, <1>0 DEF PhaseFits, ClockFits
  <2>6. WatchFits' /\ ExpiryHonest'
    BY <2>1, <2>4 DEF Inv, WatchFits, ExpiryHonest, watchVars
  <2> QED
    BY <2>3, <2>5, <2>6 DEF Inv
<1>2. CASE ~(phase = expected /\ Alive /\ ~stopped)
  <2>1. UNCHANGED <<phase, elapsed, age, signalled>>
    BY <1>2 DEF TryAdvance
  <2>2. expired' # NoPhase => expired' \in Phases /\ phase = expired' /\ age >= Budget
    BY ObserveFacts DEF Inv, TypeOK, ExpiryHonest
  <2>3. expired # NoPhase => expired' # NoPhase
    BY DEF ObserveExpiry
  <2>4. TypeOK'
    BY <2>1, <2>2 DEF Inv, TypeOK, watchVars
  <2> QED
    BY <2>1, <2>2, <2>3, <2>4 DEF Inv, PhaseFits, ClockFits, WatchFits, ExpiryHonest,
       watchVars
<1> QED
    BY <1>1, <1>2

\* The watchdog.
LEMMA WatchdogInv ==
    ASSUME Inv, Watchdog
    PROVE  Inv'
<1>1. ASSUME NEW skew \in 0..MaxSkew, WatchLook(skew) PROVE Inv'
  <2>1. /\ elapsed' \in 0..Cap /\ age' \in 0..Cap
        /\ age >= Budget => age' >= Budget
        /\ age = elapsed => age' = elapsed'
    <3>1. elapsed \in 0..Cap /\ age \in 0..Cap /\ skew \in Nat
      BY DeadlineAssumption DEF Inv, TypeOK
    <3>2. elapsed' = Later(elapsed, skew) /\ age' = Later(age, skew)
      BY <1>1 DEF WatchLook
    <3> QED
      BY <3>1, <3>2, LaterFacts
  <2>2. delay' \in 0..Budget \cup {Infinite, Never}
    BY <1>1, <2>1, DelayFacts, DeadlineAssumption DEF WatchLook, Cap
  <2>3. TypeOK'
    BY <1>1, <2>1, <2>2, Zenon DEF WatchLook, Inv, TypeOK
  <2> QED
    BY <1>1, <2>1, <2>3 DEF WatchLook, Inv, PhaseFits, ClockFits, WatchFits, ExpiryHonest
<1>2. CASE WatchExpires
  <2>1. TypeOK'
    BY <1>2, ObserveFacts DEF WatchExpires, Inv, TypeOK
  <2> QED
    BY <1>2, <2>1, ObserveFacts DEF WatchExpires, Inv, PhaseFits, ClockFits, WatchFits,
       ExpiryHonest
<1>3. CASE WatchWakes \/ WatchCancels \/ WatchReturns
  <2>1. TypeOK'
    BY <1>3 DEF WatchWakes, WatchCancels, WatchReturns, Inv, TypeOK, clockVars
  <2> QED
    BY <1>3, <2>1 DEF WatchWakes, WatchCancels, WatchReturns, Inv, PhaseFits, ClockFits,
       WatchFits, ExpiryHonest, clockVars
<1> QED
    BY <1>1, <1>2, <1>3 DEF Watchdog

\* Pause, by a prompt or by the start of Running.
LEMMA PauseInv ==
    ASSUME Inv, Alive, Pause, startup \in {"Connect", "OpenPty"}, prompted' \in BOOLEAN,
           startup' \in {"Prompt", "Review", "Running"},
           UNCHANGED <<stopped, caller, token, watchVars>>
    PROVE  Inv'
<1>1. expired' = NoPhase /\ phase' = NoPhase
    BY AliveFacts DEF Inv, Pause
<1>2. TypeOK'
    BY <1>1, DeadlineAssumption DEF Inv, TypeOK, Pause, watchVars, Cap, Working
<1> QED
    BY <1>1, <1>2, AliveFacts DEF Inv, PhaseFits, ClockFits, WatchFits, ExpiryHonest,
       Pause, watchVars

\* Every step of the deadline keeps the invariant.
LEMMA NextInv == Inv /\ [Next]_vars => Inv'
<1> SUFFICES ASSUME Inv, [Next]_vars PROVE Inv'
    OBVIOUS
<1>1. CASE Tick
  <2>1. /\ elapsed' \in 0..Cap /\ age' \in 0..Cap
        /\ age >= Budget => age' >= Budget
        /\ age = elapsed => age' = elapsed'
    BY <1>1, LaterFacts DEF Tick, Inv, TypeOK
  <2>2. delay' \in 0..Budget \cup {Infinite, Never}
    BY <1>1, DeadlineAssumption DEF Tick, Inv, TypeOK, Infinite, Never
  <2>3. TypeOK'
    BY <1>1, <2>1, <2>2 DEF Tick, Inv, TypeOK
  <2> QED
    BY <1>1, <2>1, <2>3 DEF Tick, Inv, PhaseFits, ClockFits, WatchFits, ExpiryHonest
<1>2. CASE Step
  <2>1. PICK from \in {"Begin", "Resolve", "Load", "Prepare", "Connect", "Recheck", "Update"},
             to \in Working : Goes(from, to)
    BY <1>2 DEF Step, Working
  <2> QED
    BY <1>2, <2>1, GoesInv DEF Step, Inv, TypeOK
<1>3. CASE Run
    BY <1>3, PauseInv DEF Run, Inv, TypeOK
<1>4. CASE Fails
  <2>1. TypeOK'
    BY <1>4, ObserveFacts DEF Fails, Inv, TypeOK, watchVars
  <2> QED
    BY <1>4, <2>1, ObserveFacts DEF Fails, Inv, PhaseFits, ClockFits, WatchFits,
       ExpiryHonest, watchVars, ObserveExpiry
<1>5. CASE StopAsync \/ Cancel
  <2>1. TypeOK'
    BY <1>5 DEF StopAsync, Cancel, Inv, TypeOK, watchVars, clockVars
  <2> QED
    BY <1>5, <2>1 DEF StopAsync, Cancel, Inv, PhaseFits, ClockFits, WatchFits,
       ExpiryHonest, watchVars, clockVars
<1>6. ASSUME NEW place \in {"Prompt", "Review"}, Ask(place) PROVE Inv'
    BY <1>6, PauseInv DEF Ask
<1>7. ASSUME NEW place \in {"Recheck", "Update"}, Answer(place) PROVE Inv'
    BY <1>7, GoesInv DEF Answer, Working, Inv, TypeOK
<1>8. CASE OnServerIdentification
    BY <1>8, AdvanceInv DEF OnServerIdentification, Phases
<1>9. CASE OnHostKeyReceived
    BY <1>9, AdvanceInv DEF OnHostKeyReceived, Phases
<1>10. CASE Watchdog
    BY <1>10, WatchdogInv
<1>11. CASE UNCHANGED vars
    BY <1>11 DEF vars, clockVars, watchVars, Inv, TypeOK, PhaseFits, ClockFits, WatchFits,
       ExpiryHonest
<1> QED
    BY <1>1, <1>2, <1>3, <1>4, <1>5, <1>6, <1>7, <1>8, <1>9, <1>10, <1>11 DEF Next

\* The strengthened invariant of a startup and its watchdog.
THEOREM Invariance == Spec => []Inv
    BY InitInv, NextInv, PTL DEF Spec

\* For every budget: an expiry that SshStartupDeadline reports names the phase
\* that is on and has overrun.
THEOREM ExpiriesAreHonest == Spec => [](TypeOK /\ ExpiryHonest)
<1>1. Inv => TypeOK /\ ExpiryHonest
    BY DEF Inv
<1> QED
    BY <1>1, Invariance, PTL

-----------------------------------------------------------------------------
\* A step that changes the phase is one of StartCoreAsync, on a live startup,
\* or a callback's, on a live startup that is connecting.
LEMMA PhaseSteps ==
    ASSUME Inv, [Next]_vars, phase' # phase
    PROVE  /\ Alive /\ ~stopped
           /\ \/ startup' # startup
              \/ /\ startup = "Connect"
                 /\ <<phase, phase'>> \in {<<"Identification", "KeyExchange">>,
                                           <<"KeyExchange", "Authentication">>}
<1>1. CASE Step
  <2>1. PICK from \in {"Begin", "Resolve", "Load", "Prepare", "Connect", "Recheck", "Update"},
             to \in Working : from # to /\ Goes(from, to)
    BY <1>1 DEF Step, Working
  <2> QED
    BY <2>1 DEF Goes, Inv, WatchFits
<1>2. CASE Run
    BY <1>2 DEF Run, Inv, WatchFits
<1>3. ASSUME NEW place \in {"Prompt", "Review"}, Ask(place) PROVE Alive /\ ~stopped /\ startup' # startup
    BY <1>3 DEF Ask, Inv, WatchFits
<1>4. ASSUME NEW place \in {"Recheck", "Update"}, Answer(place)
      PROVE  Alive /\ ~stopped /\ startup' # startup
    BY <1>4 DEF Answer, Goes, Inv, WatchFits
<1>5. CASE OnServerIdentification
  <2>1. phase = "Identification" /\ Alive /\ ~stopped /\ phase' = "KeyExchange"
    BY <1>5 DEF OnServerIdentification, TryAdvance, TryEnter
  <2> QED
    BY <1>5, <2>1 DEF OnServerIdentification, Inv, PhaseFits, NoPhase
<1>6. CASE OnHostKeyReceived
  <2>1. phase = "KeyExchange" /\ Alive /\ ~stopped /\ phase' = "Authentication"
    BY <1>6 DEF OnHostKeyReceived, TryAdvance, TryEnter
  <2> QED
    BY <1>6, <2>1 DEF OnHostKeyReceived, Inv, PhaseFits, NoPhase
<1>7. CASE Tick \/ Fails \/ StopAsync \/ Cancel \/ Watchdog \/ UNCHANGED vars
    BY <1>7 DEF Tick, Fails, StopAsync, Cancel, Watchdog, WatchLook, WatchExpires,
       WatchWakes, WatchCancels, WatchReturns, vars, clockVars
<1> QED
    BY <1>1, <1>2, <1>3, <1>4, <1>5, <1>6, <1>7 DEF Next

\* For every budget: no phase is left after its time, by StartCoreAsync or by
\* a callback, although the watchdog that would have cancelled it is late.
THEOREM ProgressInTime == Spec => NoLateProgress
<1>1. Inv /\ [Next]_vars => [phase # NoPhase /\ phase' # phase => age < Budget]_vars
  <2> SUFFICES ASSUME Inv, [Next]_vars, phase # NoPhase, phase' # phase PROVE age < Budget
    OBVIOUS
  <2> QED
    BY PhaseSteps, AliveFacts DEF Inv, ClockFits
<1> QED
    BY <1>1, Invariance, PTL DEF Spec, NoLateProgress

\* Callbacks of SSH.NET, repeated key exchanges among them, only ever advance
\* a connecting startup by one phase.
THEOREM CallbacksOnlyAdvance == Spec => CallbacksForward
<1> DEFINE Forward ==
        startup' = startup /\ phase' # phase =>
            /\ startup = "Connect"
            /\ <<phase, phase'>> \in {<<"Identification", "KeyExchange">>,
                                      <<"KeyExchange", "Authentication">>}
<1>1. Inv /\ [Next]_vars => [Forward]_vars
    BY PhaseSteps
<1> QED
    BY <1>1, Invariance, PTL DEF Spec, CallbacksForward

\* The watchdog never cancels a connection that SshNetTransport has published
\* as Running.
THEOREM RunningIsLeftAlone == Spec => RunningUndisturbed
<1>1. Inv /\ [Next]_vars => [startup = "Running" /\ ~caller' => token' = token]_vars
  <2> SUFFICES ASSUME Inv, [Next]_vars, startup = "Running", ~caller' PROVE token' = token
    OBVIOUS
  <2>1. phase = NoPhase /\ expired = NoPhase /\ watch # "Cancel"
    BY DEF Inv, TypeOK, PhaseFits, ExpiryHonest, WatchFits
  <2>2. ~Cancel /\ ~WatchCancels
    BY <2>1 DEF Cancel, WatchCancels
  <2> QED
    BY <2>2 DEF Next, Tick, Step, Goes, Run, Fails, StopAsync, Ask, Answer,
       OnServerIdentification, OnHostKeyReceived, Watchdog, WatchLook, WatchExpires,
       WatchWakes, WatchReturns, vars
<1> QED
    BY <1>1, Invariance, PTL DEF Spec, RunningUndisturbed

\* The race of StartCoreAsync, SSH.NET's callbacks and WatchAsync for the
\* phase keeps it orderly, for every budget.
THEOREM PhaseIsOrderly == Spec => PhaseOrderly
    BY ProgressInTime, CallbacksOnlyAdvance, RunningIsLeftAlone DEF PhaseOrderly
=============================================================================
