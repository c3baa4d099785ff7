# VT7: TLA+ models, model checks and proofs

VT7 is a terminal for Windows 7: a WPF host (`src/vt7/VT7.Host`), a native
document and surface over the Windows Terminal core (`src/vt7/VT7.Native`,
`VT7.Core`, `VT7.Renderer`), and a small `ssh` program that the shell runs in
place of the system's client (`src/vt7/VT7.SshShim`). This directory models two
things. One is the concurrent part: what happens between a key, a transport,
the document, the painting thread, the known-hosts file and a typed `ssh`
command when tasks, callbacks, deadlines, failures and closes interleave. The
other is the path of output inside the Windows Terminal core that VT7 builds
on: from bytes through the decoder and the parser to the rows of the screen.

## The system

| Part | Code | State | Operations |
|---|---|---|---|
| Outbound queue | `SessionOutboundQueue.cs` | pending list, two semaphores, accepting/disposed, completion, one worker task | `TryEnqueue`, `CompleteAsync`, `ProcessAsync`, `Dispose` |
| Output pump | `SessionOutputPump.cs` | queued chunks, slot semaphore, drain flag, failure, completion | `WriteAsync`, `CompleteAsync`, `Drain`, `Fail`, `Dispose` |
| Document stream | `surface.cpp`, `utf8_terminal_stream.hpp`, `TerminalDocument.cs` | stream generation, last sequence per producer, reply queue, decoder | begin, write, end, read reply |
| Session | `TerminalSession.cs` | state, root, overlay, starting overlay, current queue, lifetime token, completion, barrier waiters and tails | start, start/stop overlay, resume, close, monitor, accept output, dispose |
| Coordinator | `SshOverlayCoordinator.cs` | broker, session | handle an accepted request, disconnect, resume after completion |
| Broker and shim | `SshShimBroker.cs`, `VT7.SshShim/main.cpp` | one pipe instance, connection, place in the exchange, exit status | hello, challenge, request, decision, barrier, completion, fallback |
| Startup deadline | `SshStartupDeadline.cs`, `SshNetTransport.StartCoreAsync` | phase, entry time, expiry, cancellation, watchdog task | enter, advance, pause, check, stop, watch |
| Transports | `SshNetTransport.cs`, `WinPtyTransport.cs` | state, close reason, tokens, what is open, write and finish gates, tasks, completion | start, write, resize, read, finish, close, dispose |
| Known hosts | `OpenSshKnownHosts*.cs`, `SshNetTransport.cs` | files, mutex, snapshots | load, resolve, decide, add, remove |
| Renderer | `renderer/base/renderer.cpp`, `surface.cpp` | five events, the redraw flag, the lock, the thread | enable, suspend, notify, tear down, paint a frame |
| Decoder, parser, macros | `til/u8u16convert.h`, `stateMachine.cpp`, `MacroBuffer.cpp` | partial code point, parser state and parameters, string handler, macros | write, end, abandon, reset |
| Screen | `adaptDispatch.cpp`, `textBuffer.cpp`, `Row.cpp`, `Terminal.cpp` | rows in circular storage, page, cursor, margins, modes, alternate buffer | print, move, scroll, erase, reset, resize |
| Window | `MainWindow.xaml.cs` | active and pending session, prompt generation | switch profile, prompt, close |

How they meet: views enqueue on the session's current queue, whose worker writes
to the root or the overlay transport. Each transport's reader hands blocks to
`AcceptOutputAsync`, which writes them through the pump (on the dispatcher) to
the document, then drains the document's replies and writes each to the
transport that caused it. A typed `ssh` runs the shim, which asks the broker
over a pipe; if the broker accepts, the shim prints a barrier line, and when the
session has committed that line to the document the coordinator starts an SSH
overlay on the session. When the overlay ends, the broker sends the shim its
exit status and reopens root input. What the document commits is decoded,
parsed and applied to the screen under the terminal's lock; each write wakes the
painting thread, which takes the same lock for the length of a frame's
preparation. An SSH connection's key is judged by the known-hosts store, and a
person's answer may add a record to it, which another VT7 process, another
program or the management dialog may do or undo at the same time.

What is hard: all of these run on different threads and every `await` is a
place where a close, a failure or another request can intervene. `PROJECT.json`
lists the hazards with their lines and the properties that watch them.

## Modules

| Module | Models | Variables and actions |
|---|---|---|
| `SessionOutboundQueue` | the queue | one variable per field and semaphore, `worker` for the place in `ProcessAsync`; the histories `told` and `delivered` |
| `OutboundChannel` | what the queue promises | accepted and delivered operations only; resizes may be skipped when followed by a resize |
| `SessionOutboundQueueProofs`, `SessionOutputProofs` (with the pump's), `TerminalSessionProofs`, `TransportsProofs`, `SshShimBrokerProofs`, `SshStartupDeadlineProofs`, `KnownHostsProofs`, `RenderThreadProofs` | theorems about the module each is named after | |
| `DocumentStream` | the native stream, by the chunk a write commits and the replies it causes | no next-state relation of its own; its operations are conjuncts of the pump's actions |
| `SessionOutputPump` | the pump, extending `DocumentStream` | `caller[o]` is the place of each origin's `WriteAsync`; `posted`, `drain`, `current` are the dispatcher's callback |
| `SessionOutput` | `AcceptOutputAsync`, extending the pump | `collected[o]`: replies that a reader has drained and not forwarded |
| `TerminalSession` | the session with its coordinator and callers | `handler`, `closer`, `monitor`, `start` are the places of the four async methods; a step is the code between two awaits |
| `TerminalTransport` | what a transport promises a session | state, start and result only: created, starting, running, closing, ended |
| `SshNetTransport` | the SSH transport | `start`, `reader`, `writer`, `close`, `dispose` are the places of its threads; `ending` says who is in `FinishAsync` with which result, `cleanup` how far the one inside has got |
| `WinPtyTransport` | the local shell's transport | `closer[c]` is the place of each `CloseAsync`, which are not joined into one here; `owned` is what is open |
| `Transports` | one or the other, with the properties that a session relies on in both | |
| `SshShimBroker` | the broker, the pipe, the shims and the barrier waiter | `toHost`, `toShim` are the frames in the pipe; each deadline is a step that can happen whenever its wait is on |
| `SshStartupDeadline` | the deadline, its watchdog and the start of a connection | `elapsed` is time since the phase was entered, as `_clock.Elapsed - _entered`; `age` is the same measured independently |
| `RenderThread` | the painting thread and the window's calls on it | `worker` is the place in `_renderThread` and `PaintFrame`, `todo` the rest of the window's call; `signalled` and `flag` are the events and flags of renderer, surface and window |
| `Utf8TerminalStream` | `til::u8u16` with its partials | operators only; `MultiByteToWideChar` is external, with well-formed and malformed input |
| `MacroBuffer` | DECDMAC's buffer | operators on a record with the fields of the class |
| `StateMachine` | the VT parser, its states and limits | one operator per `_Action…` and `_Event…`; an engine that records what it is told |
| `TerminalStream` | decoder, parser, macros and the stream's begin, write, end and abandon together | the histories `received` and `written` are what the properties read again by another rule |
| `KnownHosts` | the store, the trust decision, the writer and the file | `pc[p]` is the place of each process in its connection or removal; `primary` the user's file, `backup` its `.old`, `snap` and `fresh` the snapshots a process holds |
| `TextBuffer` | rows, wide glyphs and circular storage | operators; a row is its cells, its wrap flag and its rendition |
| `Reflow` | `TextBuffer::Reflow` and the cursor in it | recursive operators over logical lines |
| `AdaptDispatch` | the dispatcher's operations on the active buffer | operators on the terminal's record |
| `Screen` | the terminal: one action per control function, resize, view and key | `term` is the terminal, `op` the last function; `family` and `steps` bound the sequences |

`MC*` modules give the constants their values. Data are abstracted: an operation
is its kind and number, a chunk its origin and number, a frame its kind, a record
of a known-hosts file its key, a glyph its identity and width.
Authentication of a request, eligibility, a person's answer and a peer's
behaviour are choices. `TerminalSession` represents the queue by the interface
that `SessionOutboundQueue` is checked to provide (it accepts, delivers in
order, and its completion follows its worker) and transports by what
`TerminalTransport` says, which both transports are checked, and proved, to
implement.

External behaviour, modelled from its use: the dispatcher (runs posted callbacks
one at a time, may shut down), the clock, and the named pipe. Of the pipe,
`broken` says that the server stream has met a client which is gone and reports
itself as not connected. Whether it does is left open (`MeetsClient`); `RunAsync`
disconnects only a stream that says it is connected.

## Runs

Passing runs, with the number of distinct states:

| Run | Shows | Bounds |
|---|---|---|
| `outbound_queue` (71,006) | `QueueSound`: nothing accepted is lost, reordered or reported as delivered when it was not, and the semaphores agree with the list; `ClosingEnds`: the task of a closing queue ends and Dispose returns, if the sink returns to the worker; the queue implements `OutboundChannel` | 2 slots, 6 offers, a stale generation: full, coalescing, refused and drained queues all occur |
| `output_pump` (62,742) | `OutputCommitted`: chunks are committed in admission order with no gap, success means committed, an ended stream is complete, no text enters a later stream; `CallsAccounted`: slots are neither lost nor released twice and no writer is orphaned; `CallsReturn`: writers and completion end | 3 writers on 2 slots, so that one waits; 1 reply of room, so that the reply queue overflows; a second stream |
| `session_output` (650,332) | a reply reaches its transport at most once and only if the document made it | 2 readers with 2 chunks each |
| `terminal_session` (457,672) | `InputFollowsState`: a queue accepts exactly while the session says so, and one queue at a time writes; `CloseReleasesAll`: overlays have an owner until they have ended, and a finished close leaves nothing running; `SessionEnds`: a closing session is not revived, the close ends, the root's end ends the session; `InputReopens`: a failed or ended overlay leads back to input | 2 requests in turn and 2 inputs, so that a late step of the first meets the second; the root's and both overlays' peers may stop reading |
| `transports` (189,109) | each transport implements `TerminalTransport`; `CloseSettles`: a close that has returned leaves nothing open, starting or being written, and a result; `UsedAlive`: neither pty nor input pipe is freed under a thread that uses it, and what Dispose frees nobody is left to use, but for those it names; `ResultHonest`: every result has its cause; `CloseReturns` | the queue's worker and a reader with a reply write; a close as Failed or Cancelled, beside the caller's token (SSH) and beside Dispose (both); neither transport tells Normal, Replaced and Failed apart, and the proofs are for all four; runs with the four reasons (368,415 states), with 1 writer and 2 closes, and with 2 of each but without `CloseReturns`, show the same and take longer |
| `ssh_shim` (29,776) | no command becomes two clients, the handler follows the barrier, status 0 is earned; `NoneStranded`: every command ends, root input is reopened, and the pipe is freed unless its stream is broken | 2 shims: one being served while the other waits, or meets the first one's leftover waiter |
| `startup_deadline` (12,400) | expiry names the phase that overran; `PhaseOrderly`: no progress after expiry, callbacks only advance, a running connection is not cancelled; a stalled start ends | budget 3, clock readings up to 2 apart |
| `render_thread` (303,646) | nothing is painted behind an acknowledged pause, the engine outlives the thread that uses it, teardown and pause end, and a change reaches the screen | 1 retry of a failed frame (the code has 5: one is enough for a frame that fails, is retried and gives up) |
| `vt_stream` (200,000) | cutting well-formed output into writes changes nothing; control, OSC and DCS sequences mean what their text says; the parser resynchronises after CAN or `ESC \`; a string handler is never called after its reset; macros respect space, depth and length; a new stream starts without the old one's modes | five alphabets of 5 to 17 bytes (`MCMaxBytes`); limits scaled down so that each is passed: 3 parameters, 1 sub-parameter, values to 15, macro space 11, depth 3 |
| `known_hosts` (1,740,915) | lines of others survive, a removal takes exactly what was selected, trust rests on a record or an answer, and two processes do not both record a first key | 2 processes, 2 keys, 1 edit by another program, deaths anywhere; processes are symmetric |
| `screen` (125,868) | printing ends and does not depend on how text is cut; no half glyphs; the cursor stays in the page; scrollback is what scrolled off; operations on a region leave the rest; the view stays where the user put it; reflow keeps the text; leaving the alternate screen restores the main one | pages of 2 or 3 rows and 2 to 4 columns with 2 rows of scrollback; five families of operations, each to a depth of 3 or 4 from one or two screens that text has filled (`MCStarts`) |

A merged property is the conjunction of the definitions that the table names in
words; each conjunct has its own comment, and most have a mutant of their own.

Deadlock checking is off because every one of these systems stops: a session is
closed, a stream is over, the typed commands have ended.

Every property has a mutant: a changed definition, such as a dropped guard, under
which the property fails (`PROJECT.json`, "mutants").

### Fairness

Weak fairness, with two exceptions, and only for what the code's scheduling
promises: a task whose await is complete is run, the dispatcher runs what is
posted until it shuts down, time passes, a wait with a deadline ends, the window's
thread and the painting thread run when they can, and an invalidated window is
sent WM_PAINT. Strong fairness is for those who wait for a semaphore, which serves
its waiters in turn: the threads at the WinPTY transport's write gate, and the
calls of the output pump at its slots. No timer of the renderer is assumed to
expire. Nothing is assumed of people, of peers (who may never read, answer or end)
or of callers; a property that needs them says so. `ClosingEnds` of the outbound
queue supposes that the sink returns to the worker (`SinkReturns`): a write into a
pipe or a window that nobody empties waits with its token cancelled. `CallsReturn`
of the pump does not promise an end for writers stranded by
a dispatcher that has shut down until somebody disposes of the pump; the model
names that state (`Stranded`). `SessionEnds` and `InputReopens` of the session
are promised if every write to a transport ends (`WritesEnd`): a peer that stops
reading can hold a write for good. `InputReopens` also supposes that every startup
ends (`StartsEnd`): its deadlines are paused while a person is asked about a host
key (`SshNetTransport.cs:235`, `:270`). A close needs no such assumption, since
cancelling the start closes the dialog.
`CloseReturns` of the transports excepts a writer or a flush that waits for its
peer while it holds the gate.
`WaitsEnd` of the renderer excepts a pause after the last retry has failed, where
`PauseAcknowledged` does not hold; `PausedIsQuiet` excepts a worker that acts
on a pause after it is over (`late`), which `RenderingParked` includes.

### Where the code and its documents differ

One of them is a run that TLC must find violated; `PROJECT.json` quotes the
comment.

| Run | What happens |
|---|---|
| `erase_scrollback` | ED 3 copies the page to the start of the storage row by row; when the page wraps around the storage's end, rows still to be copied are overwritten, and `Wwg / h` becomes `Wwg / Wwg` |

The following definitions state what a document says and the code does not keep.
No configuration names them; naming one in the configuration of its module's run
shows the counterexample.

| Definition | What happens |
|---|---|
| `RepliesInOrder` (`SessionOutput`) | two readers each drain the reply queue and forward their part, and a later reply overtakes an earlier one |
| `CloseBounded` (`TerminalSession`) | the close waits for the queue's worker, which waits in a write that only the transport's close would end |
| `OverlayReleased` (`TerminalSession`) | an overlay transport made for a session that has left `RunningRoot` is never closed or disposed |
| `OutcomeDistinct` (`TerminalSession`) | output in flight during an orderly close makes the root's result a connection failure |
| `SequentialAccepted` (`SshShimBroker`) | the waiter of a timed-out barrier refuses the next request |
| `LostPipeFreed` (`SshShimBroker`) | a stream that has met that its client is gone reports itself as not connected, is therefore not disconnected (`SshShimBroker.cs:121`), and every later wait for a connection throws; `SshOverlayCoordinator.cs:11` has the broker accept "sequential invocations" |
| `CleanEndIsZero` (`SshShimBroker`) | the completion frame is discarded by the disconnect that follows it, and the shim exits with 255 |
| `CancelledStartNoFailure` (`Transports`) | a start notices `_closeReason` before `_lifetime` is cancelled, and the catch block, which asks the token, reports a connection failure (`SshNetTransport.cs:301`, `:310`; `SshLifecycleChecks.cs:338` expects none) |
| `ClosedIsFinal` (`Transports`) | the state is set in the lock and the result after it; a `CloseAsync` in between sets the state back to Closing for good (`SshNetTransport.cs:398`, `:765`; `SshLifecycleChecks.cs:258` expects Closed) |
| `PauseAcknowledged` (`RenderThread`) | a frame that fails for the last time disables painting just after a pause has been requested; the painting thread then waits to be enabled and the window's thread waits for its acknowledgement (`renderer.cpp:469`; the development handoff of 2026-10-12, line 451, says a hidden worker "parks and acknowledges pause") |
| `RenderingParked` (`RenderThread`) | a font is changed while the painting thread is not parked (`surface_settings.inl:3`) |
| `DcsControlsIgnored` (`TerminalStream`) | `stateMachine.cpp:1774` begins a new `if`, so a control or DEL among DCS parameters, which the comment at 1753 has ignored, is also dispatched as the final character |
| `FreshStream` (`TerminalStream`) | no reset returns the parser to ANSI mode from VT52 mode |
| `SplitIrrelevant` (`TerminalStream`) | malformed UTF-8 decodes differently when it is cut |
| `TruncatedUnreadable`, `FailureKeepsOriginal`, `SaveFailureUntrusted` (`KnownHosts`) | part of a record can be read as a record; a removal that reports failure may have replaced the file; a trust whose saving failed may have been recorded |

The models also show the following.

- A reader fails when another transport's reply cannot be forwarded.
- Closing during an overlay's start cancels the token that closes the root.
- A cancelled start publishes the completion before the close has released the
  root.
- Root input is reopened before the shim has exited.
- What remains of a phase, read a second time, can equal
  `Timeout.InfiniteTimeSpan`, and the delay is then without end. It takes a
  reading exactly one millisecond late; `StartupEnds` excepts that state.
- SSH.NET connections that a session closes as Failed or Replaced are reported as
  a clean end: `CloseCoreAsync` tells only Cancelled apart (`ResultHonest`).
- A WinPTY reader that outlives the five seconds of a close meets, after Dispose,
  a gate that is gone: it throws and the completion is never set. `UsedAlive`
  excepts it (`GaveUp`).
- The second wait for the gate in `WinPtyTransport.CloseAsync` protects nothing
  that the first has not: no resize begins once the state is Closing.
- Sub-parameters of a parameter past the limit attach to the last one kept.
- `ROW::CopyFrom` copies the readable columns only, so a padded or double-width
  row keeps a stale last column; `RegionKept` excepts such rows.
- `ResizeTraditional` can leave the cursor outside the page, and a restart keeps
  it there; `CursorStaysInPage` excepts the operations that inherit it.
- A reflow broken off at the limit of the new storage adds one row too many, and
  text below the page is dropped at the second resize. A reflow to one column
  never gets past a wide glyph: columns stay at two or more here.
- ED 2 takes a page with one glyph in its first cell for an empty one; ED 3
  leaves the user's scroll offset; RIS leaves the alternate screen's saved
  cursor; a second `1049h` with a resize pending makes an alternate buffer of
  the old size.

## Proofs

`SessionOutboundQueueProofs` proves, for every capacity, every set of caller
generations and every number of operations (from `QueueAssumption`: at least one
slot, and the queue's generation is among those callers hold):

- `QueueIsSound`: `QueueSound`, the conjunction of the following, is an invariant;
- `NothingIsLost`, `DeliveryInOrder`, `SuccessIsDelivery`: `NothingLost`,
  `InOrder` and `SuccessMeansDelivered` are invariants;
- `ResourcesAgree`: so are `TypeOK`, `SlotsMatch` and `WorkerJoined`.

None of them is inductive alone. `NothingLost` says that an accepted operation is
delivered, being written, pending, or a resize directly followed by another; for
a coalesced resize to keep this, the operation it replaces must be the last one
that was accepted (`LastTold`), and for the order of deliveries the sequence
numbers must grow through delivered, writing and pending taken together
(`Ordered`). `SuccessMeansDelivered` needs what the worker knew when it left its
loop (`WorkerShape`, `Drained`). `Inv` is their conjunction; there is a lemma for
each action.

- `QueueImplementsChannel`: the specification implies `OutboundChannel`'s
  (`ImplementsChannel`), under the identity on told, delivered and completion.

A write that returns after Dispose must still be a `Deliver` of the channel, and
`NothingLost` says nothing then. `Traced` carries what was true when the worker
took the operation past that point: all that was told before it is delivered or
superseded (`Settled`), and all that the queue holds was told (`Recorded`).
`ReachedFacts` places the channel's last delivery among what was told.

`SshShimBrokerProofs` proves, for every number of typed commands (from
`ShimAssumption`: `NoShim` is not one of them):

- `OneClientEach`: `TypeOK` and `NoSecondClient` are invariants;
- `BarrierIsFirst`, `ZeroOnlyEarned`: so are `BarrierFirst` and `ZeroIsEarned`.

`NoSecondClient` is about two programs that share only a pipe, so its invariant
is about what is in the pipe: a barrier frame comes from a shim that has passed
its last fallback (`BarrierFits`), no handler has run for the client of a request
before its barrier is in, and none for a shim that was not accepted
(`ResultFits`). A `0` in the pipe is the handler's and the broker is then past
the request (`CompletionFits`); a stopped broker leaves an empty pipe
(`PipeFits`). There is a lemma for each group of actions, and three for what
reading and writing do to the frames in the pipe.

`SshStartupDeadlineProofs` proves, for every budget and every distance between
two readings of the clock (from `DeadlineAssumption`):

- `ExpiriesAreHonest`: `TypeOK` and `ExpiryHonest` are invariants;
- `ProgressInTime`, `CallbacksOnlyAdvance`, `RunningIsLeftAlone`: the action
  properties `NoLateProgress`, `CallbacksForward` and `RunningUndisturbed` hold,
  and with them their conjunction `PhaseOrderly` (`PhaseIsOrderly`).

`SessionOutputProofs` proves, for every finite set of readers, every number of
slots and all bounds on chunks, replies and streams (from `PumpAssumption` and
`DocumentAssumption`):

- `PumpCallsAccounted`, `PumpOutputCommitted`: `CallsAccounted` and
  `OutputCommitted` are invariants of the pump;
- `SessionRepliesOnce`: `RepliesOnce` is an invariant of `AcceptOutputAsync` over
  the pump, and `SessionOutputCommitted`: the pump keeps its promises there.

For the pump, a chunk in the queue or in Drain's hands is the one its caller
waits for (`HeldInv`); nothing is queued without a Drain to come (`QueueInv`);
until something fails, what was admitted is what is parsed, being parsed and
queued, in that order (`OrderInv`), so a caller that has returned finds its chunks
in the text (`CallerInv`) and an ended stream is complete (`EndInv`). The slots
are counted with the cardinality of the set of calls that hold one (`Holders`).
`ReplyInv` says of the replies that those in the document are in the order of
their numbers and after all that have left it, and that no two sequences of
replies that have left it, collected or received, share one.

`TerminalSessionProofs` proves, for every number of requests and inputs, and
whichever transports may block (from `SessionAssumption`):

- `SessionInputFollowsState`, `SessionCloseReleasesAll`: `InputFollowsState` and
  `CloseReleasesAll` are invariants;
- `SessionNeverRevives`: the action property `NoRevival`, a part of `SessionEnds`;
- `SessionKeepsContract`: the action property `ContractKept`, that every step of
  the session makes each transport take a step of `TerminalTransport`, or none (a
  transport is made as in its `Init`, and one that ends of its own accord takes
  Close and End at once). With `TransportsImplement` it says that the contract the
  session relies on is the one the transports are proved to implement.

`State`, the handler and the closer move independently, and `IInv` ties them
together: while nobody closes, state and handler know each other's place, and a
close that meets a busy handler has taken its overlay (`PhaseInv`, `HandlerInv`);
a queue whose worker has not ended is the session's, or the handler or the closer
waits for it (`QueueInv`); what the closer has passed has ended (`CloseInv`); a
live overlay is the one of the request being handled (`TransportInv`). `QuietStep`
is the argument for everything that transports and workers do by themselves.
`ContractKept` needs `ResultInv` beside it: a transport has a result exactly when
it has ended, and its start is over by then, so that ending it again changes
nothing. TLC has checked `ContractKept` and `ResultInv` on the instance of
`terminal_session`, too, where neither is listed with the run.

`TransportsProofs` proves, of both transports, for every set of writers, of calls
of CloseAsync and of reasons they give (from `TransportsAssumption`: the queue's
worker is a writer, the names of the other threads are not among them, and the
reasons are of the four of `TerminalCloseReason`):

- `TransportsImplement`: each specification implies `TerminalTransport`'s
  (`ImplementsTransport`), with the state, the start's task and the result mapped
  as in `Status`, `StartTask` and `Outcome`;
- `TransportsCloseSettles`, `TransportsUsedAlive`, `TransportsResultHonest`:
  `CloseSettles`, `UsedAlive` and `ResultHonest` are invariants.

The step of the refinement that has to be earned is the start's, from opened to
running. For SSH, `SshLife` says why: until a close has come, nobody but the start
can be in `FinishAsync`, since readers and writers come after it; whoever is in
there is alone, and publishes a result only behind a final state. For WinPTY
(`WinPtyLife`) a pending start has the state to itself, and every close and every
completing reader acts on a transport that is closing. Nothing is freed under its
user because a writer inside the gate holds it, and whoever frees takes the gate
(`SshGate`, `WinPtyGate`); once a close is past the gate, no writer gets further
than its wait (`Passive`). A close that has returned has joined what it says it
has (`SshJoin`, `WinPtyJoin`), and whoever is in FinishAsync is at the place that
says so (`SshCalls`), so that nobody is when all are joined. For `ResultHonest`,
every kind of result that somebody carries to FinishAsync, to the reader's end or
to a close has its cause already, and causes do not go away (`SshEnds`,
`WinPtyEnds`); that a start is cancelled only by a close or its caller needs the
state of a transport that nobody has ended yet (`SshFresh`).

`KnownHostsProofs` proves, for any clients, keys, initial files and number of
edits (from `HostsAssumption`: `None` is neither a client nor a file's content):

- `RemovalsAreExact`: `RemovalExact` is an invariant;
- `LinesAreKept`: the action property `LinesSurvive`;
- `TrustIsSound`: `TrustSound`, an invariant and an action property.

`HostsInv` says what each client can rely on at each place: the mutex, and a fresh
snapshot equal to the one the person saw, from the comparison to the end of the
write (`HoldsInv`); a file without a record of the host while the handle that
shares no writing is open (`AddInv`); a pin only for the store and key that were
shown, once (`PinInv`). A removal's is the part that is not local to the program:
another program may save the file between the last comparison and `File.Replace`,
so what was taken is known from the backup alone, and is what was selected only
once the backup has been compared (`TookInv`).

`RenderThreadProofs` proves, for every number of retries:

- `RenderPaintingSafe`: `PaintingSafe` is an invariant.

The window's thread is a sequence of accesses still to be made, `todo`, and
`RenderInv` is about that sequence. A pause that is still to be requested is
preceded by the reset of `_paused` and followed by the wait for it (`PauseInv`),
so that a set `_paused` is the worker's answer to this pause; and a call that is
to remove the engine starts no worker and joins the one there is first
(`EngineInv`). Each call of the window is shown to have that shape once, by
lemmas on concatenated calls.

TLC has checked each of these inductive invariants on the instance of its run, with
the same number of states as in the table.

Only model-checked:

- everything under fairness (`ClosingEnds`, `CallsReturn`, `SessionEnds`,
  `InputReopens`, `NoneStranded`, `StartupEnds`, `WaitsEnd`, `ChangesReachScreen`,
  `CloseReturns`): liveness is out of the prover's reach;
- all of the parser and the screen (`vt_stream`, `screen`, `erase_scrollback`).
  What they say is about the result of reading or printing a text, which their
  modules compute with recursive operators, and the prover has neither those nor
  induction over data.

## Abstractions

- `KnownHosts` loads all sources in one step, takes the three read-only sources
  as one, of which the load fails or not, and takes `File.Replace` as atomic. A process that trusts a key is
  `connected`; what follows is the SSH library's. Host patterns, hashed names
  and certificates are left out: there is one host.
- `RenderThread` takes drawing as one step and presenting as one that succeeds or
  fails; a change is a flag until a frame that includes it is presented.
- `SshNetTransport` takes the phases of a start as open, connecting and opened
  (`SshStartupDeadline` has them), what it owns as a set, and the release of it
  in `FinishAsync` as one step, of which any part may fail. `WinPtyTransport`
  takes opening the console and spawning the shell as one step that succeeds or
  is undone.
- `StateMachine` keeps the states of the output engine; the SS3 states belong to
  the input engine.
- `Screen` keeps characters, widths, wrap flags and line renditions. Colours,
  hyperlinks, images and combining characters are left out, and with them what
  only they tell apart (selective erase, attribute changes). There is no
  selection, which `_PreserveUserScrollOffset` also asks for: VT7 has no means to
  make one (`VT7.Core/README.md:115`).

## Not modelled

- The SSH library, WinPTY and its agent: external, by what the transports see.
- Switching profiles in the window and the generations of its prompts.
- The shim protocol's encoding and the grammar of `ssh` command lines: stateless.
- Of the terminal: tab stops, pages, DECCOLM, rectangular operations, reports,
  soft fonts, sixel images, selection and search, and the conhost side of the
  vendored tree, which VT7 does not build.
- Drawing, fonts, input translation, settings and dialogs: no concurrent state
  beyond a call, or out of a model checker's reach.
- Most of the vendored repository is not part of VT7's program at all: the
  Windows Terminal application, conhost, its tools, tests and samples.

## Plan

1. `MainWindow`: the pending session beside the active one, prompt generations.
2. Tab stops, pages and rectangular operations in `Screen`.
3. Proofs about single operations of `TextBuffer` and `MacroBuffer` that need no
   recursion, once they are in modules of their own.
