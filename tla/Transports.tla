----------------------------- MODULE Transports -----------------------------
(***************************************************************************)
(* The transports a session may be given, an SSH connection or a local     *)
(* shell, and what a session relies on in either.                          *)
(***************************************************************************)
CONSTANTS Writers, Worker, Closers, CloseReasons

VARIABLES kind, State, result, closeReason, lifetime, owned, writeGate, start, reader,
          writer, dispose,
          callerToken, finishGate, cleanup, failed, ending, close, remote, shellClosed,
          closer, childExited

sshOnly == <<callerToken, finishGate, cleanup, failed, ending, close, remote, shellClosed>>
winPtyOnly == <<closer, childExited>>
vars == <<kind, State, result, closeReason, lifetime, owned, writeGate, start, reader,
          writer, dispose, sshOnly, winPtyOnly>>

Ssh == INSTANCE SshNetTransport
WinPty == INSTANCE WinPtyTransport

ASSUME TransportsAssumption ==
    Worker \in Writers /\ Ssh!SshAssumption /\ WinPty!WinPtyAssumption

\* The variables of the transport that is not there have one value.
SshAbsent ==
    /\ callerToken = FALSE /\ finishGate = "NoOne" /\ cleanup = "None" /\ failed = FALSE
    /\ ending = "None" /\ close = "None" /\ remote = "Open" /\ shellClosed = FALSE
WinPtyAbsent == closer = "None" /\ childExited = FALSE

Init ==
    \/ kind = "Ssh" /\ Ssh!Init /\ WinPtyAbsent
    \/ kind = "WinPty" /\ WinPty!Init /\ SshAbsent

IsSsh == kind = "Ssh" /\ UNCHANGED <<kind, winPtyOnly>>
IsWinPty == kind = "WinPty" /\ UNCHANGED <<kind, sshOnly>>

Next ==
    \/ IsSsh /\ Ssh!Next
    \/ IsWinPty /\ WinPty!Next

Spec == Init /\ [][Next]_vars

\* Threads go on, a start takes its token, a sink returns (CallsReturn), and
\* delays end; the gate serves whoever waits for it in turn.  A peer need not
\* read what is written to it, nor anyone close.
FairSpec ==
    /\ Spec
    /\ WF_vars(IsSsh /\ Ssh!Starter) /\ WF_vars(IsSsh /\ Ssh!Finishing)
    /\ WF_vars(IsSsh /\ Ssh!Reader) /\ WF_vars(IsSsh /\ Ssh!Closer)
    /\ WF_vars(IsSsh /\ Ssh!DisposeJoined)
    /\ \A w \in Writers : WF_vars(IsSsh /\ Ssh!WriterRuns(w))
    /\ WF_vars(IsWinPty /\ (WinPty!StartRuns \/ WinPty!StartThrows))
    /\ SF_vars(IsWinPty /\ WinPty!Reader) /\ SF_vars(IsWinPty /\ WinPty!Disposing)
    /\ \A w \in Writers : WF_vars(IsWinPty /\ WinPty!Writer(w))
    /\ \A c \in Closers \cup {"Disposer"} : SF_vars(IsWinPty /\ WinPty!Closer(c))

-----------------------------------------------------------------------------
Contract ==
    INSTANCE TerminalTransport WITH
        status <- IF kind = "Ssh" THEN Ssh!Status ELSE WinPty!Status,
        start <- IF kind = "Ssh" THEN Ssh!StartTask ELSE start,
        outcome <- IF kind = "Ssh" THEN Ssh!Outcome ELSE WinPty!Outcome

\* Each transport is what TerminalSession takes it for: whichever of start,
\* reader, writer and close gets there first, it never runs again once it is
\* closing, and its one result is final.
ImplementsTransport == Contract!Spec

Busy(w) == writer[w] \in {"Writing", "Resizing"}

\* When a close has returned, nothing is open, nothing is being started or
\* written, and the result is out (CloseAsync and CloseCoreAsync join the
\* start, the writer and, where they can, the reader).
SshSettled ==
    close = "Done" =>
        /\ owned = {} /\ result # "None" /\ Ssh!StartEnded
        /\ \A w \in Writers : ~Busy(w) /\ writer[w] # "Finishing"
WinPtySettled ==
    \A c \in DOMAIN closer : closer[c].at = "Done" =>
        owned = {} /\ result # "None" /\ reader.at \in {"None", "Done"}
CloseSettles == IF kind = "Ssh" THEN SshSettled ELSE WinPtySettled

\* A native pty and an input pipe are not freed under a resize or a write.
\* When Dispose frees the token and the gates everything else is released,
\* and of the threads that could use them only these are left: for SSH, a
\* write whose wait the token has cancelled, and a flush of the worker, which
\* waits without the token; for WinPTY, a write that has not reached the pipe
\* or the pty and calls of CloseAsync beside Dispose's, which nobody joins,
\* and a reader if a close gave up waiting for it.  Start, SSH reader, other
\* writers and FinishAsync are through.
Passive(w, place) ==
    \/ place \in {"Idle", "Waiting"}
    \/ w = Worker /\ place \in {"FlushWaiting", "Flushing", "Leaving"}
GaveUp == \E c \in DOMAIN closer : closer[c].at = "Threw"
SshUsed == Ssh!Gone =>
    /\ owned = {} /\ lifetime /\ Ssh!StartEnded /\ Ssh!ReaderEnded
    /\ finishGate = "NoOne" /\ \A a \in Ssh!Finishers : ending[a] = "None"
    /\ \A w \in Writers : Passive(w, writer[w])
WinPtyUsed ==
    /\ WinPty!HandlesAlive
    /\ WinPty!Gone => /\ owned = {} /\ start # "Pending"
                      /\ \A w \in Writers : writer[w] \in {"Idle", "Waiting", "Holding"}
                      /\ reader.at \in {"None", "Done"} \/ GaveUp
UsedAlive == IF kind = "Ssh" THEN SshUsed ELSE WinPtyUsed

\* A result has its cause, whichever thread settles it.  An SSH connection
\* ends cleanly only if the remote shell closed its channel or VT7 closed it
\* for a reason other than cancellation, which includes "Failed" and
\* "Replaced": CloseCoreAsync tells only Cancelled apart.  A local shell that
\* reports an exit or a clean end has exited.  Neither is reported as
\* cancelled or terminated unless somebody has closed it, or cancelled the
\* start.
SshExplains(k) ==
    /\ k = "CleanEof" => remote = "Closed" \/ closeReason \notin {"None", "Cancelled"}
    /\ k = "ForcedTermination" => closeReason # "None"
    /\ k = "Cancelled" => closeReason # "None" \/ callerToken
WinPtyExplains(k) ==
    /\ k \in {"ReportedExit", "CleanEof"} => childExited
    /\ k \in {"Cancelled", "ForcedTermination"} => closeReason # "None"
SshHonest == SshExplains(result)
WinPtyHonest == WinPtyExplains(result)
ResultHonest == IF kind = "Ssh" THEN SshHonest ELSE WinPtyHonest

\* A close returns, unless a writer waits for a peer that does not read.
CloseReturns ==
    []<>(\/ \E w \in Writers : writer[w] \in {"Writing", "Flushing"}
         \/ kind = "Ssh" /\ close \in {"None", "Done"}
         \/ kind = "WinPty" /\ \A c \in DOMAIN closer :
                                closer[c].at \in {"None", "Done", "Threw"})

\* A start that gives up because of a close is not a connection failure.  It
\* does not hold, and no run checks it: the close is noticed before the token
\* that the catch block asks is cancelled.
CancelledStartNoFailure ==
    [][kind = "Ssh" /\ start = "Withdrawn" /\ start' # start => ending'["Start"] = "Cancelled"]_vars

\* After a close the state is final.  It does not hold, and no run checks it:
\* the state is set under the lock and the result outside it, and a CloseAsync
\* between the two sets the state to Closing for good.
ClosedIsFinal == kind = "Ssh" /\ close = "Done" => State \in {"Closed", "Failed"}
=============================================================================
