---------------------------- MODULE RenderThread ----------------------------
(***************************************************************************)
(* The renderer's worker thread and the UI thread that owns it: the        *)
(* VT7_CORE build of renderer/base/renderer.cpp, and the calls that        *)
(* VT7.Native/surface.cpp makes to it.  All the surface's entry points     *)
(* and window messages run on the thread that created the document; the    *)
(* worker is the only other thread.                                        *)
(*                                                                         *)
(* The two communicate through kernel events, atomic flags and the core    *)
(* lock, so each of those accesses is a step.  What the UI thread still    *)
(* has to do is the sequence of accesses `todo': a function of the code    *)
(* is the sequence of the accesses it makes, and a call is \o.             *)
(***************************************************************************)
EXTENDS Naturals, Sequences

CONSTANT MaxRetries   \* maxRetriesForRenderEngine, 5 in the code

ASSUME MaxRetriesAssumption == MaxRetries \in Nat

VARIABLES
    signalled,   \* the events that are set
    flag,        \* the flags of the renderer, the surface and the window
    lock,        \* who holds the core lock
    thread,      \* is there a worker (_thread)
    worker,      \* where the worker is
    attempt,     \* the number of the paint attempt
    woken,       \* what _outputReady.wait returned to _synchronizeWithOutput
    todo,        \* what the UI thread's current call has still to do
    late         \* history: the worker has acted on a pause that was over

vars == <<signalled, flag, lock, thread, worker, attempt, woken, todo, late>>

Events == {"enable", "wake", "outputReady", "stop", "paused"}

(* redraw, keepRunning, suspendRequested and syncing are the renderer's;   *)
(* running, failed (lastError) and attached (atlas) are the surface's;     *)
(* visible and invalid the window's.  pending: the core has changed since  *)
(* it was last drawn.  drawn: a drawn change has not reached the screen.   *)
Flags == {"redraw", "keepRunning", "suspendRequested", "syncing", "running",
          "failed", "attached", "visible", "invalid", "pending", "drawn"}

(* The places of the worker between the start of PaintFrame and its end.   *)
Painting == {"lock", "syncWait", "syncLock", "draw", "present", "retry",
             "backoff", "disable", "report"}

-----------------------------------------------------------------------------
(* The accesses, and the functions of the code as sequences of them.       *)

Set(e) == [op |-> "set", event |-> e]
Reset(e) == [op |-> "reset", event |-> e]
Store(f, v) == [op |-> "store", names |-> {f}, value |-> v]
SynchronizedOutputChanged(so) == [op |-> "sync", value |-> so]
Lock == [op |-> "lock"]
Unlock == [op |-> "unlock"]
Await == [op |-> "await"]
Join == [op |-> "join"]
Reconcile == [op |-> "reconcile"]
Create == [op |-> "create"]
Start == [op |-> "start"]

NotifyPaintFrame == <<Store("redraw", TRUE), Set("wake")>>

EnablePainting ==
    <<Store("suspendRequested", FALSE), Reset("stop"), Reconcile, Set("enable")>>
        \o IF thread THEN <<>>
           ELSE <<Store("keepRunning", TRUE), Reset("stop"), Reconcile, Create>>

SuspendWithoutReset ==
    IF thread
    THEN <<Store("suspendRequested", TRUE), Set("stop"), Set("outputReady")>>
             \o NotifyPaintFrame \o <<Set("enable"), Await>>
    ELSE <<>>

SuspendWithoutNotify ==
    IF thread
    THEN <<Reset("paused"), Store("suspendRequested", TRUE), Set("stop"), Set("outputReady"),
           Set("enable"), Await>>
    ELSE <<>>

SuspendPainting ==
    IF thread
    THEN <<Reset("paused"), Store("suspendRequested", TRUE), Set("stop"), Set("outputReady")>>
             \o NotifyPaintFrame \o <<Set("enable"), Await>>
    ELSE <<>>

TeardownWithoutEnable ==
    (IF thread
     THEN <<Store("keepRunning", FALSE), Set("stop"), Set("outputReady")>>
              \o NotifyPaintFrame \o <<Join>>
     ELSE <<>>) \o <<Reset("enable")>>

TriggerTeardown ==
    (IF thread
     THEN <<Store("keepRunning", FALSE), Set("stop"), Set("outputReady")>>
              \o NotifyPaintFrame \o <<Set("enable"), Join>>
     ELSE <<>>) \o <<Reset("enable")>>

Stop == SuspendPainting \o <<Store("running", FALSE)>>

(* Between Lock and Unlock: the core changes and asks for a frame.         *)
Change == <<[op |-> "store", names |-> {"pending", "redraw"}, value |-> TRUE], Set("wake")>>

RequestPaint == <<Lock>> \o Change \o <<Unlock>>

(* Surface::Resize: the core reflows under the lock, the window is invalid. *)
Resize == <<Lock>> \o Change \o <<Unlock, Store("invalid", TRUE)>>

CloseEngineFirst == <<Store("attached", FALSE)>> \o TriggerTeardown

CloseRenderer == TriggerTeardown \o <<Store("attached", FALSE)>>

-----------------------------------------------------------------------------
(* The UI thread performs the next access.                                 *)

Doing(o) == todo # <<>> /\ Head(todo).op = o

Perform ==
    /\ \/ /\ Doing("set")
          /\ signalled' = signalled \cup {Head(todo).event}
          /\ UNCHANGED flag
       \/ /\ Doing("reset")
          /\ signalled' = signalled \ {Head(todo).event}
          /\ UNCHANGED flag
       \/ /\ Doing("store")
          /\ flag' = [f \in Flags |-> IF f \in Head(todo).names THEN Head(todo).value ELSE flag[f]]
          /\ UNCHANGED signalled
       \/ /\ Doing("reconcile")  \* EnablePainting agrees _outputReady with the core's mode
          /\ signalled' = IF flag["syncing"] THEN signalled \ {"outputReady"}
                                             ELSE signalled \cup {"outputReady"}
          /\ UNCHANGED flag
       \/ /\ Doing("await")      \* _paused.wait()
          /\ "paused" \in signalled
          /\ UNCHANGED <<signalled, flag>>
    /\ todo' = Tail(todo)
    /\ UNCHANGED <<lock, thread, worker, attempt, woken, late>>

TakeLock ==
    /\ Doing("lock")
    /\ lock = "free"
    /\ lock' = "ui"
    /\ todo' = Tail(todo)
    /\ UNCHANGED <<signalled, flag, thread, worker, attempt, woken, late>>

ReleaseLock ==
    /\ Doing("unlock")
    /\ lock' = "free"
    /\ todo' = Tail(todo)
    /\ UNCHANGED <<signalled, flag, thread, worker, attempt, woken, late>>

(* SynchronizedOutputChanged, called by the dispatcher with the lock held. *)
Synchronize ==
    /\ Doing("sync")
    /\ LET so == Head(todo).value IN
       todo' = (IF flag["syncing"] = so THEN <<>>
                ELSE IF so THEN <<Store("syncing", TRUE), Reset("outputReady")>>
                ELSE <<Store("syncing", FALSE), Set("outputReady"), Unlock, Lock>>)
               \o Tail(todo)
    /\ UNCHANGED <<signalled, flag, lock, thread, worker, attempt, woken, late>>

(* Surface::Start tests its condition, and enables under the core lock.    *)
StartPainting ==
    /\ Doing("start")
    /\ todo' = (IF flag["attached"] /\ ~flag["running"] /\ ~flag["failed"] /\ flag["visible"]
                THEN <<Lock>> \o EnablePainting \o <<Store("running", TRUE), Unlock>>
                ELSE <<>>)
               \o Tail(todo)
    /\ UNCHANGED <<signalled, flag, lock, thread, worker, attempt, woken, late>>

CreateThread ==
    /\ Doing("create")
    /\ thread' = TRUE
    /\ worker' = "loop"
    /\ todo' = Tail(todo)
    /\ UNCHANGED <<signalled, flag, lock, attempt, woken, late>>

JoinThread ==
    /\ Doing("join")
    /\ worker = "done"
    /\ thread' = FALSE
    /\ worker' = "none"
    /\ todo' = Tail(todo)
    /\ UNCHANGED <<signalled, flag, lock, attempt, woken, late>>

-----------------------------------------------------------------------------
(* The calls and messages the UI thread takes when it is idle.             *)

Begin(calls) ==
    /\ todo = <<>>
    /\ todo' = calls
    /\ UNCHANGED <<signalled, flag, lock, thread, worker, attempt, woken, late>>

(* Output is written to the core; it may turn synchronized output on or    *)
(* off (DECSET 2026).  The window is then invalidated.                     *)
Write ==
    \E mode \in {<<>>, <<SynchronizedOutputChanged(TRUE)>>, <<SynchronizedOutputChanged(FALSE)>>} :
        Begin(<<Lock>> \o Change \o mode \o <<Unlock>>
                  \o (IF flag["attached"] THEN <<Store("invalid", TRUE)>> ELSE <<>>))

(* WM_PAINT.                                                               *)
Paint ==
    /\ flag["invalid"]
    /\ flag["attached"]
    /\ Begin(<<Store("invalid", FALSE)>> \o RequestPaint \o <<Start>>)

(* WM_SHOWWINDOW comes before the window's visibility changes; a window    *)
(* that has been shown is invalid.                                         *)
Show ==
    /\ flag["attached"]
    /\ ~flag["visible"]
    /\ Begin(<<Start, [op |-> "store", names |-> {"visible", "invalid"}, value |-> TRUE]>>)

Hide ==
    /\ flag["attached"]
    /\ flag["visible"]
    /\ Begin(Stop \o <<Store("visible", FALSE)>>)

(* SetFont parks the worker, changes the metrics under the lock, reflows,  *)
(* and starts again; a failure after the pause is recorded as lastError.   *)
SetFont ==
    /\ flag["attached"]
    /\ ~flag["failed"]
    /\ \/ Begin(Stop \o Resize \o RequestPaint \o <<Start>>)
       \/ Begin(Stop \o <<Store("failed", TRUE)>>)

(* VT7_DetachTerminalView: Stop, DestroyWindow, whose WM_DESTROY stops     *)
(* again, and CloseRenderer.                                               *)
Detach ==
    /\ flag["attached"]
    /\ Begin(Stop \o Stop \o <<[op |-> "store", names |-> {"visible", "invalid"}, value |-> FALSE]>>
                 \o CloseRenderer)

(* VT7_CreateTerminalView: a new surface, with its own error and running   *)
(* state, over the document's renderer.  The window is created visible.    *)
Attach ==
    /\ ~flag["attached"]
    /\ Begin(<<[op |-> "store", names |-> {"attached", "visible", "drawn"}, value |-> TRUE],
               Store("failed", FALSE)>> \o Resize)

-----------------------------------------------------------------------------
(* The worker: _renderThread, _waitUntilTimerOrRedraw, PaintFrame,         *)
(* _PaintFrame and _synchronizeWithOutput.                                 *)

Goto(from, to) == worker = from /\ worker' = to

(* The test of the loop.                                                   *)
Loop ==
    /\ Goto("loop", IF flag["keepRunning"] THEN "enable" ELSE "exit")
    /\ UNCHANGED <<signalled, flag, lock, attempt, woken, late>>

AwaitEnable ==
    /\ Goto("enable", "gate")
    /\ "enable" \in signalled
    /\ UNCHANGED <<signalled, flag, lock, attempt, woken, late>>

(* The tests after each of the loop's two long waits.                      *)
Gate ==
    /\ \/ Goto("gate", IF ~flag["keepRunning"] THEN "exit"
                       ELSE IF flag["suspendRequested"] THEN "park" ELSE "redraw")
       \/ Goto("recheck", IF ~flag["keepRunning"] THEN "exit"
                          ELSE IF flag["suspendRequested"] THEN "park" ELSE "lock")
    /\ UNCHANGED <<signalled, flag, lock, attempt, woken, late>>

Park ==
    /\ Goto("park", "acknowledge")
    /\ signalled' = signalled \ {"enable"}
    /\ late' = (late \/ ~flag["suspendRequested"])
    /\ UNCHANGED <<flag, lock, attempt, woken>>

Acknowledge ==
    /\ Goto("acknowledge", "loop")
    /\ signalled' = signalled \cup {"paused"}
    /\ late' = (late \/ ~flag["suspendRequested"])
    /\ UNCHANGED <<flag, lock, attempt, woken>>

(* _waitUntilTimerOrRedraw reads the flag, and then the timers' deadlines  *)
(* under the core lock; a timer that is due ends the wait at once.         *)
TestRedraw ==
    /\ \/ Goto("redraw", "recheck") /\ flag["redraw"]
       \/ Goto("redraw", "wake") /\ ~flag["redraw"] /\ lock = "free"
       \/ Goto("redraw", "recheck") /\ ~flag["redraw"] /\ lock = "free"
    /\ UNCHANGED <<signalled, flag, lock, attempt, woken, late>>

AwaitWake ==
    /\ Goto("wake", "redraw")
    /\ "wake" \in signalled
    /\ signalled' = signalled \ {"wake"}   \* an auto-reset event
    /\ UNCHANGED <<flag, lock, attempt, woken, late>>

(* The next timer expires; with no timer running it never does.            *)
TimerExpires ==
    /\ Goto("wake", "recheck")
    /\ "wake" \notin signalled
    /\ UNCHANGED <<signalled, flag, lock, attempt, woken, late>>

(* _PaintFrame takes the lock; while output is synchronized it releases it *)
(* again and waits.                                                        *)
BeginFrame ==
    /\ lock = "free"
    /\ \/ Goto("lock", "syncWait") /\ flag["syncing"] /\ UNCHANGED lock
       \/ Goto("lock", "draw") /\ ~flag["syncing"] /\ lock' = "worker"
    /\ UNCHANGED <<signalled, flag, attempt, woken, late>>

(* The wait ends with the event or after 100 ms.                           *)
AwaitOutput ==
    /\ Goto("syncWait", "syncLock")
    /\ woken' \in {"outputReady" \in signalled, FALSE}
    /\ UNCHANGED <<signalled, flag, lock, attempt, late>>

(* With the lock again: another wait if the output has been synchronized   *)
(* anew and time is left, and otherwise the mode is cleared.               *)
EndSynchronization ==
    /\ lock = "free"
    /\ \/ /\ Goto("syncLock", "syncWait")
          /\ woken /\ flag["syncing"] /\ flag["keepRunning"] /\ ~flag["suspendRequested"]
          /\ UNCHANGED <<lock, flag>>
       \/ /\ Goto("syncLock", "draw")
          /\ lock' = "worker"
          /\ flag' = [flag EXCEPT !["syncing"] = FALSE]
    /\ woken' = FALSE
    /\ UNCHANGED <<signalled, attempt, late>>

(* The rest of _PaintFrame up to the release of the lock: the timers tick, *)
(* _redraw is cleared, and the engine draws what the core holds, or fails. *)
Draw ==
    /\ \/ /\ Goto("draw", "present")
          /\ flag' = [flag EXCEPT !["redraw"] = FALSE, !["pending"] = FALSE,
                                  !["drawn"] = @ \/ flag["pending"]]
       \/ /\ Goto("draw", "retry")
          /\ flag' = [flag EXCEPT !["redraw"] = FALSE]
    /\ lock' = "free"
    /\ UNCHANGED <<signalled, attempt, woken, late>>

PresentThenClear ==
    /\ Goto("present", "loop")
    /\ flag' = [flag EXCEPT !["drawn"] = FALSE, !["redraw"] = FALSE]
    /\ attempt' = 0
    /\ UNCHANGED <<signalled, lock, woken, late>>

(* AtlasEngine::Present: nothing to do for a window that is not visible;   *)
(* otherwise all that is drawn reaches the screen, or the device fails.    *)
Present ==
    /\ \/ /\ Goto("present", "loop")
          /\ flag' = IF flag["visible"] THEN [flag EXCEPT !["drawn"] = FALSE] ELSE flag
          /\ attempt' = 0
       \/ /\ Goto("present", "retry")
          /\ flag["visible"]
          /\ UNCHANGED <<flag, attempt>>
    /\ UNCHANGED <<signalled, lock, woken, late>>

Retry ==
    /\ \/ /\ attempt < MaxRetries
          /\ Goto("retry", "backoff")
          /\ attempt' = attempt + 1
       \/ /\ attempt = MaxRetries
          /\ Goto("retry", "disable")
          /\ attempt' = 0
    /\ UNCHANGED <<signalled, flag, lock, woken, late>>

(* _stop.wait: a stop ends the painting, and time the pause.               *)
Backoff ==
    /\ \/ Goto("backoff", "loop") /\ "stop" \in signalled /\ attempt' = 0
       \/ Goto("backoff", "lock") /\ UNCHANGED attempt
    /\ UNCHANGED <<signalled, flag, lock, woken, late>>

(* Stop trying: _disablePainting, and the callback that sets lastError.    *)
Disable ==
    /\ Goto("disable", "report")
    /\ signalled' = signalled \ {"enable"}
    /\ UNCHANGED <<flag, lock, attempt, woken, late>>

Report ==
    /\ Goto("report", "loop")
    /\ flag' = [flag EXCEPT !["failed"] = TRUE]
    /\ UNCHANGED <<signalled, lock, attempt, woken, late>>

Exit ==
    /\ Goto("exit", "done")
    /\ UNCHANGED <<signalled, flag, lock, attempt, woken, late>>

-----------------------------------------------------------------------------
Init ==
    /\ signalled = {}
    /\ flag = [f \in Flags |-> FALSE]
    /\ lock = "free"
    /\ thread = FALSE
    /\ worker = "none"
    /\ attempt = 0
    /\ woken = FALSE
    /\ todo = <<>>
    /\ late = FALSE

UiStep == Perform \/ TakeLock \/ ReleaseLock \/ Synchronize \/ StartPainting
              \/ CreateThread \/ JoinThread

Message == Write \/ Paint \/ Show \/ Hide \/ SetFont \/ Detach \/ Attach

WorkerStep ==
    /\ \/ Loop \/ AwaitEnable \/ Gate \/ Park \/ Acknowledge \/ TestRedraw \/ AwaitWake
       \/ BeginFrame \/ AwaitOutput \/ EndSynchronization \/ Draw \/ Present \/ Retry
       \/ Backoff \/ Disable \/ Report \/ Exit
    /\ UNCHANGED <<thread, todo>>

TimerStep == TimerExpires /\ UNCHANGED <<thread, todo>>

Next == UiStep \/ Message \/ WorkerStep \/ TimerStep

(* Both threads are scheduled, the window's paint message is delivered.    *)
(* No timer has to run.                                                    *)
Spec == Init /\ [][Next]_vars /\ WF_vars(UiStep) /\ WF_vars(WorkerStep) /\ WF_vars(Paint)

-----------------------------------------------------------------------------
(* A call of SuspendPainting or TriggerTeardown is waiting.                *)
Suspending == todo # <<>> /\ Head(todo) = Await
Joining == todo # <<>> /\ Head(todo) = Join

(* SuspendPainting has returned, and EnablePainting has not been called.   *)
Paused == flag["suspendRequested"] /\ \A i \in 1..Len(todo) : todo[i] # Await

(* Once SuspendPainting has returned, and until painting is enabled again, *)
(* the worker is not inside a frame: SetFont changes the metrics that the  *)
(* worker draws with, and the window is destroyed, on the strength of it.  *)
(* The exception is a worker that was slow to act on an earlier pause.     *)
PausedIsQuiet == Paused /\ ~late => worker \notin Painting

(* The same without the exception: settings are changed "with rendering    *)
(* parked before font/metric mutation".  It fails, and no run checks it.   *)
RenderingParked == Paused => worker \notin Painting

(* The engine is removed from the renderer only when no worker can use it. *)
EngineOutlivesWorker == ~flag["attached"] => worker = "none"

(* What the worker draws with is neither changed nor removed under it.     *)
PaintingSafe == PausedIsQuiet /\ EngineOutlivesWorker

(* The join of the teardown ends, wherever the worker is when it begins:   *)
(* parked, waiting for output, backing off, or asleep.                     *)
TeardownEnds == Joining ~> ~Joining

(* A pause is acknowledged unless the last retry has failed.               *)
PauseEnds == Suspending ~> (~Suspending \/ flag["failed"])

(* Whatever the UI thread waits for the worker to do, the worker does:     *)
(* neither thread waits for the other one's event, lock or exit for good.  *)
WaitsEnd == TeardownEnds /\ PauseEnds

(* A hidden worker "parks and acknowledges pause".                         *)
PauseAcknowledged == Suspending ~> ~Suspending

(* Once the UI thread falls quiet, what the core holds is on the screen of *)
(* a surface that is painting, unless rendering has failed or the worker   *)
(* was slow to act on a pause.                                             *)
ChangesReachScreen ==
    <>[](todo = <<>>)
        => <>[](\/ ~flag["pending"] /\ ~flag["drawn"]
                \/ ~flag["running"] \/ flag["failed"] \/ late)

=============================================================================
