-------------------------- MODULE TerminalTransport --------------------------
(***************************************************************************)
(* What ITerminalTransport promises a session (VT7.Host/TerminalSession.cs *)
(* uses no more of it): a transport starts once, runs only out of its      *)
(* start, never comes back from closing, and publishes one result, after   *)
(* which nothing about it changes.  TerminalSession moves its transports   *)
(* by these steps, an end of its own accord being Close and End at once;   *)
(* SshNetTransport and WinPtyTransport implement them.                     *)
(***************************************************************************)

VARIABLES
    status,   \* "Created", "Starting", "Running", "Closing" or "Ended"
    start,    \* StartAsync's task: "None", "Pending", "Ok" or "Threw"
    outcome   \* Completion: "None", "Failure" or "Other"

vars == <<status, start, outcome>>

Init == status = "Created" /\ start = "None" /\ outcome = "None"

StartAsync ==
    /\ status = "Created"
    /\ status' = "Starting" /\ start' = "Pending"
    /\ UNCHANGED outcome

Run ==
    /\ status = "Starting"
    /\ status' = "Running" /\ start' = "Ok"
    /\ UNCHANGED outcome

\* CloseAsync is called, or the transport gives up by itself.
Close ==
    /\ status \in {"Created", "Starting", "Running"}
    /\ status' = "Closing"
    /\ UNCHANGED <<start, outcome>>

End ==
    /\ status \in {"Starting", "Closing"}
    /\ status' = "Ended" /\ outcome' \in {"Failure", "Other"}
    /\ start' = IF start = "Pending" THEN "Threw" ELSE start

Next == StartAsync \/ Run \/ Close \/ End

Spec == Init /\ [][Next]_vars
=============================================================================
