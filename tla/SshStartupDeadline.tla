------------------------- MODULE SshStartupDeadline -------------------------
(***************************************************************************)
(* The start of an SSH connection (SshNetTransport.StartCoreAsync) under   *)
(* its watchdog (VT7.Host/SshStartupDeadline.cs): the thread that goes     *)
(* through the phases, the callbacks of the SSH library that move a phase  *)
(* on, the person who may be asked about a host key, and the watchdog.     *)
(* Time is counted in milliseconds, from the entry of the phase, and not   *)
(* beyond Cap; a lock's critical section takes no time, but for the        *)
(* watchdog's, which reads the clock twice: up to MaxSkew passes between   *)
(* its two readings.                                                       *)
(***************************************************************************)
EXTENDS Integers

CONSTANTS
    Budget,     \* _budget
    MaxSkew

ASSUME DeadlineAssumption == Budget \in Nat \ {0} /\ MaxSkew \in Nat

\* No operation tells times from here on apart.
Cap == Budget + MaxSkew + 2

Phases == {"Resolution", "KnownHosts", "Credentials", "Identification", "KeyExchange",
           "Authentication", "Pty", "TrustUpdate"}
NoPhase == "None"

\* Timeout.InfiniteTimeSpan, in milliseconds, as what remains of a phase can
\* come to; and the same where no phase is on, kept apart for StartupEnds.
Infinite == -1
Never == -2

VARIABLES
    phase,      \* _phase
    elapsed,    \* _clock.Elapsed - _entered
    age,        \* history: for how long the phase has been what it is
    expired,    \* the phase _expired names
    stopped,    \* _stopped
    caller,     \* the caller's token is cancelled
    token,      \* Token is cancelled
    signalled,  \* the _changed the watchdog waits for is complete
    watch,      \* the watchdog's place
    delay,      \* what is left of its delay, or Infinite or Never
    startup,    \* StartCoreAsync's place
    prompted    \* the person has been asked

clockVars == <<phase, elapsed, age, expired, signalled>>
watchVars == <<watch, delay>>
vars == <<clockVars, stopped, caller, token, watchVars, startup, prompted>>

Init ==
    /\ phase = NoPhase /\ elapsed = 0 /\ age = 0 /\ expired = NoPhase
    /\ stopped = FALSE /\ caller = FALSE /\ token = FALSE /\ signalled = FALSE
    /\ watch = "Look" /\ delay = Never
    /\ startup = "Begin" /\ prompted = FALSE

Later(time, passed) == IF time + passed > Cap THEN Cap ELSE time + passed

Tick ==
    /\ elapsed' = Later(elapsed, 1) /\ age' = Later(age, 1)
    /\ delay' = IF delay > 0 THEN delay - 1 ELSE delay
    /\ UNCHANGED <<phase, expired, signalled, stopped, caller, token, watch, startup, prompted>>

-----------------------------------------------------------------------------
\* The deadline's operations.

Overdue == phase # NoPhase /\ elapsed >= Budget

\* ObserveExpiry, which every operation does first.
ObserveExpiry == IF ~stopped /\ expired = NoPhase /\ Overdue THEN phase ELSE expired

\* Check returns and does not throw.
Alive == ObserveExpiry = NoPhase /\ ~token

TryEnterKeepsClock(p) ==
    /\ phase' = p
    /\ IF phase = p THEN UNCHANGED <<elapsed, age, signalled>>
       ELSE age' = 0 /\ signalled' = TRUE /\ UNCHANGED elapsed
TryEnterUnsignalled(p) ==
    /\ phase' = p
    /\ IF phase = p THEN UNCHANGED <<elapsed, age>>
       ELSE elapsed' = 0 /\ age' = 0
    /\ UNCHANGED signalled
\* TryEnter on a live startup: a phase that is entered already keeps its
\* clock.
TryEnter(p) ==
    /\ phase' = p
    /\ IF phase = p THEN UNCHANGED <<elapsed, age, signalled>>
       ELSE elapsed' = 0 /\ age' = 0 /\ signalled' = TRUE

\* TryAdvance, from a callback: the phase must be the expected one, and the
\* startup live.
TryAdvanceAlways(expected, next) ==
    IF Alive /\ ~stopped THEN TryEnter(next)
    ELSE UNCHANGED <<phase, elapsed, age, signalled>>
TryAdvance(expected, next) ==
    IF phase = expected /\ Alive /\ ~stopped THEN TryEnter(next)
    ELSE UNCHANGED <<phase, elapsed, age, signalled>>

Pause ==
    /\ phase' = NoPhase /\ age' = 0 /\ signalled' = TRUE
    /\ UNCHANGED <<elapsed, expired>>

-----------------------------------------------------------------------------
\* StartCoreAsync.

\* What each place of the startup does, by the phase it is entered with.
PhaseOf == [Resolve |-> "Resolution", Load |-> "KnownHosts", Prepare |-> "Credentials",
            Connect |-> "Identification", Recheck |-> "KnownHosts",
            Update |-> "TrustUpdate", OpenPty |-> "Pty"]

GoesUnchecked(from, to) ==
    /\ startup = from
    /\ expired = NoPhase /\ ~token
    /\ startup' = to
    /\ TryEnter(PhaseOf[to])
    /\ UNCHANGED <<expired, stopped, caller, token, watchVars>>
\* The work of one place is done: the startup is checked and the next phase
\* entered.
Goes(from, to) ==
    /\ startup = from
    /\ Alive
    /\ startup' = to
    /\ TryEnter(PhaseOf[to])
    /\ UNCHANGED <<expired, stopped, caller, token, watchVars>>

Step ==
    /\ \/ Goes("Begin", "Resolve") \/ Goes("Resolve", "Load") \/ Goes("Load", "Prepare")
       \/ Goes("Prepare", "Connect")
       \/ phase = "Authentication" /\ Goes("Connect", "OpenPty")
       \/ Goes("Recheck", "Load") \/ Goes("Update", "Load")
    /\ UNCHANGED prompted

\* The attempt failed over the host key: the clock is paused and the person
\* asked, once, whether to trust an unknown one or to review a changed one.
Ask(place) ==
    /\ startup = "Connect"
    /\ place = "Prompt" => ~prompted
    /\ Alive
    /\ Pause
    /\ startup' = place /\ prompted' = TRUE
    /\ UNCHANGED <<stopped, caller, token, watchVars>>

\* The person decides: the connection goes on with a pin or a new record.
Answer(place) ==
    /\ Goes("Prompt", place)
    /\ UNCHANGED prompted

\* The last check and Running are one critical section of the transport.
RunUnpaused ==
    /\ startup = "OpenPty" /\ Alive /\ ~caller
    /\ startup' = "Running"
    /\ UNCHANGED <<clockVars, stopped, caller, token, watchVars, prompted>>
Run ==
    /\ startup = "OpenPty" /\ Alive /\ ~caller
    /\ Pause
    /\ startup' = "Running"
    /\ UNCHANGED <<stopped, caller, token, watchVars, prompted>>

Working == {"Resolve", "Load", "Prepare", "Connect", "Recheck", "Update", "OpenPty"}

\* A check throws, the work itself fails, or the person declines.  FinishAsync
\* ends what was opened.
Fails ==
    /\ startup \in Working \cup {"Begin", "Prompt", "Review"}
    /\ startup' = "Failed"
    /\ expired' = ObserveExpiry
    /\ UNCHANGED <<phase, elapsed, age, signalled, stopped, caller, token, watchVars,
                   prompted>>

\* Token-aware work that Token cancels.
Cancelled == startup \in {"Resolve", "Connect"} /\ token /\ Fails

\* Work that takes no token comes to an end on its own and is then checked.
Joined == startup \in Working \ {"Resolve", "Connect"} /\ (Step \/ Run \/ Fails)

\* StopAsync, in the finally clause.
StopAsync ==
    /\ startup \in {"Running", "Failed"} /\ ~stopped
    /\ stopped' = TRUE /\ signalled' = TRUE
    /\ UNCHANGED <<phase, elapsed, age, expired, caller, token, watchVars, startup,
                   prompted>>

\* The server identified itself; its host key is trusted, in the first
\* exchange or in a later one.  The callbacks come while the client lives.
OnServerIdentification ==
    /\ startup \in {"Connect", "OpenPty", "Running"}
    /\ TryAdvance("Identification", "KeyExchange")
    /\ expired' = IF phase = "Identification" THEN ObserveExpiry ELSE expired
    /\ UNCHANGED <<stopped, caller, token, watchVars, startup, prompted>>

\* It asks for the expiry whether or not it advances.
OnHostKeyReceived ==
    /\ startup \in {"Connect", "OpenPty"}
    /\ TryAdvance("KeyExchange", "Authentication")
    /\ expired' = ObserveExpiry
    /\ UNCHANGED <<stopped, caller, token, watchVars, startup, prompted>>

\* The caller, or the transport's close, cancels.
Cancel ==
    /\ ~caller
    /\ caller' = TRUE /\ token' = TRUE
    /\ UNCHANGED <<clockVars, stopped, watchVars, startup, prompted>>

-----------------------------------------------------------------------------
\* WatchAsync.

\* The delay for what remains at the second reading of the clock.
DelayFor(time) ==
    LET remaining == Budget - time
    IN  IF phase = NoPhase THEN Never
        ELSE IF remaining > 0 \/ remaining = Infinite THEN remaining ELSE 0

WatchLook(skew) ==
    /\ watch = "Look" /\ ~stopped /\ ObserveExpiry = NoPhase
    /\ elapsed' = Later(elapsed, skew) /\ age' = Later(age, skew)
    /\ delay' = DelayFor(elapsed')
    /\ signalled' = FALSE /\ watch' = "Wait"
    /\ UNCHANGED <<phase, expired, stopped, caller, token, startup, prompted>>

WatchExpires ==
    /\ watch = "Look" /\ ~stopped /\ ObserveExpiry # NoPhase
    /\ expired' = ObserveExpiry
    /\ watch' = "Cancel"
    /\ UNCHANGED <<phase, elapsed, age, signalled, stopped, caller, token, delay, startup,
                   prompted>>

\* The change, the delay or the stop ends the wait.
WatchWakes ==
    /\ watch = "Wait"
    /\ signalled \/ stopped \/ delay = 0
    /\ watch' = IF stopped THEN "Done" ELSE "Look"
    /\ UNCHANGED <<clockVars, stopped, caller, token, delay, startup, prompted>>

WatchCancels ==
    /\ watch = "Cancel"
    /\ token' = TRUE
    /\ watch' = "Done"
    /\ UNCHANGED <<clockVars, stopped, caller, delay, startup, prompted>>

WatchReturns ==
    /\ watch = "Look" /\ stopped
    /\ watch' = "Done"
    /\ UNCHANGED <<clockVars, stopped, caller, token, delay, startup, prompted>>

Watchdog ==
    \/ (\E skew \in 0..MaxSkew : WatchLook(skew))
    \/ WatchExpires \/ WatchWakes \/ WatchCancels \/ WatchReturns

Next ==
    \/ Tick \/ Step \/ Run \/ Fails \/ StopAsync \/ Cancel
    \/ \E place \in {"Prompt", "Review"} : Ask(place)
    \/ \E place \in {"Recheck", "Update"} : Answer(place)
    \/ OnServerIdentification \/ OnHostKeyReceived
    \/ Watchdog

Spec == Init /\ [][Next]_vars

\* Time passes, the watchdog's thread runs, the startup begins, heeds its
\* token and stops its watchdog, and work without a token returns.  A server
\* need never answer, and neither need the person.
FairSpec ==
    /\ Spec
    /\ WF_vars(Tick) /\ WF_vars(Watchdog)
    /\ WF_vars(startup = "Begin" /\ (Step \/ Fails))
    /\ WF_vars(Cancelled) /\ WF_vars(Joined) /\ WF_vars(StopAsync)

-----------------------------------------------------------------------------
\* Properties.

\* The clock, the phases and the places of the two threads; the watchdog's
\* delay is at most the budget.
TypeOK ==
    /\ elapsed \in 0..Cap /\ age \in 0..Cap
    /\ phase \in Phases \cup {NoPhase} /\ expired \in Phases \cup {NoPhase}
    /\ stopped \in BOOLEAN /\ caller \in BOOLEAN /\ token \in BOOLEAN /\ signalled \in BOOLEAN
    /\ watch \in {"Look", "Wait", "Cancel", "Done"} /\ delay \in 0..Budget \cup {Infinite, Never}
    /\ startup \in Working \cup {"Begin", "Prompt", "Review", "Running", "Failed"}
    /\ prompted \in BOOLEAN

\* No phase is left for another, for the person's decision or for Running
\* after its budget is spent, whoever moves the startup on and whether or
\* not the watchdog has looked yet.
NoLateProgress == [][phase # NoPhase /\ phase' # phase => age < Budget]_vars

\* An expiry names the phase that is on and has overrun: never one that was
\* left in time, and never the time a person takes to decide.
ExpiryHonest == expired # NoPhase => phase = expired /\ age >= Budget

\* The library's callbacks, of whichever attempt and however late, move the
\* phase of a connection forward only: a key exchange that is repeated gives
\* neither authentication nor the terminal's allocation more time.
CallbacksForward ==
    [][startup' = startup /\ phase' # phase =>
        /\ startup = "Connect"
        /\ <<phase, phase'>> \in {<<"Identification", "KeyExchange">>,
                                 <<"KeyExchange", "Authentication">>}]_vars

\* The watchdog does not cancel the connection it has let through.
RunningUndisturbed == [][startup = "Running" /\ ~caller' => token' = token]_vars

\* Startup, callbacks and watchdog race for the phase, and none of them takes
\* it where the others do not expect it: late, backwards, or after the start.
PhaseOrderly == NoLateProgress /\ CallbacksForward /\ RunningUndisturbed

\* A server that stalls in any phase does not hold the startup: it ends,
\* unless a person is being asked.  The one exception is a second reading of
\* the clock so late that what remains is the sentinel of an endless delay.
StartupEnds ==
    []<>(\/ startup \in {"Running", "Failed", "Prompt", "Review"}
         \/ watch = "Wait" /\ delay = Infinite /\ Overdue)
=============================================================================
