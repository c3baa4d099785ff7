----------------------------- MODULE KnownHosts -----------------------------
(***************************************************************************)
(* The user's OpenSSH known_hosts file as VT7 reads and changes it:        *)
(* loading and trust (OpenSshKnownHostsStore.cs, OpenSshKnownHosts.cs),    *)
(* adding a record and removing records (OpenSshKnownHostsWriter.cs), and  *)
(* the connection that does so (SshNetTransport.StartAsync).  The clients  *)
(* are connections of one or several VT7 processes to one host; any of     *)
(* them may crash, and other programs edit the files beside them.          *)
(*                                                                         *)
(* A line is <<kind, key>>: a record of the host, a revocation, a line     *)
(* that concerns the host and cannot be parsed, or any other line.         *)
(***************************************************************************)
EXTENDS Naturals, Sequences, FiniteSets, Functions

CONSTANTS
    Clients,      \* connections that are started
    Keys,         \* host keys a server may present
    Fingerprints, \* what the user may expect: keys, or NoKey for no fingerprint
    NoKey,
    None,
    InitialLines, \* what the user's file may hold at first
    MaxEdits      \* bound: edits by other programs

Lines == {"record", "revoked", "malformed", "other"} \X (Keys \cup {NoKey})

ASSUME HostsAssumption ==
    /\ InitialLines \subseteq Seq(Lines) /\ None \notin Clients /\ None \notin Seq(Lines)

VARIABLES
    primary,      \* the user's known_hosts file
    other,        \* the sources that VT7 only reads, as one
    backup,       \* the lines of known_hosts.old, or None
    edits,        \* how many edits other programs have made
    mutex,        \* holder of the writers' named mutex, or None
    pc,           \* where each client is
    expected,     \* ExpectedHostKeyFingerprint
    snap,         \* _knownHosts: the snapshot of the attempt
    presented,    \* _presentedHostKey
    pin,          \* _oneConnectionPin: key and store, or None
    prompted,
    fresh,        \* the snapshot loaded under the mutex
    selection,    \* the lines selected for removal, by number
    asked,        \* history: the store and key the user was last shown, and agreed to
    took          \* history: the lines a removal took out of the file

files == <<primary, other, backup>>
local == <<expected, snap, presented, pin, prompted, fresh, selection, asked, took>>
vars == <<files, edits, mutex, pc, local>>

-----------------------------------------------------------------------------
\* A source: open says that its last line has no newline, stamp is the time of
\* the last write, and fatal a source that could not be read.
Source == [exists |-> TRUE, lines |-> <<>>, open |-> FALSE, stamp |-> 0, fatal |-> FALSE]
Failed == [Source EXCEPT !.fatal = TRUE]
Missing == [Source EXCEPT !.exists = FALSE]

\* A file that has been written again.
Written(file, lines, unterminated) ==
    [file EXCEPT !.lines = lines, !.open = unterminated, !.stamp = @ + 1]

\* Load: LoadSource for every source.  A file may be unreadable, and one that
\* changes during the load counts as such.
Loads == [primary : {primary, Failed}, other : {other, Failed}]

\* KnownHostTrustResolver.Resolve for a key that is no certificate.
Resolve(snapshot, key) ==
    LET lines == Range(snapshot.primary.lines) \cup Range(snapshot.other.lines)
        records == {line \in lines : line[1] = "record"}
    IN  CASE <<"revoked", key>> \in lines -> "Revoked"
          [] OTHER ->
               IF \/ snapshot.primary.fatal \/ snapshot.other.fatal
                  \/ \E line \in lines : line[1] = "malformed"
               THEN "Unreadable"
               ELSE IF <<"record", key>> \in records THEN "Matching"
               ELSE IF records # {} THEN "Changed" ELSE "Unknown"

\* KnownHostTrustPolicy.Decide: CanTrust.
CanTrustAnyKey(p, key) ==
    LET state == Resolve(snap[p], key)
        mismatch == expected[p] # NoKey /\ expected[p] # key
    IN  \/ state = "Matching" /\ ~mismatch
        \/ state = "Unknown" /\ ~mismatch /\ pin[p] # None /\ pin[p].store = snap[p]
CanTrust(p, key) ==
    LET state == Resolve(snap[p], key)
        mismatch == expected[p] # NoKey /\ expected[p] # key
    IN  \/ state = "Matching" /\ ~mismatch
        \/ /\ state = "Unknown" /\ ~mismatch
           /\ pin[p] # None /\ pin[p].key = key /\ pin[p].store = snap[p]

\* BuildAddition: a newline before the record where the file lacks one.
AppendGlued(file, line) ==
    Written(file, IF file.open
                  THEN [file.lines EXCEPT ![Len(file.lines)] = <<"malformed", NoKey>>]
                  ELSE Append(file.lines, line), FALSE)
AppendRecord(file, line) == Written(file, Append(file.lines, line), FALSE)

\* What a write that is cut off leaves: nothing, only the newline, or a line
\* cut inside the host's name, the key's type or the key, or at its end.  Base64
\* cut at a whole group is a shorter key.
Torn(file, key) ==
    {file, Written(file, file.lines, FALSE)}
    \cup {Written(file, Append(file.lines, line), TRUE) :
             line \in {<<"other", NoKey>>, <<"malformed", NoKey>>, <<"record", NoKey>>,
                       <<"record", key>>}}

\* The lines a removal keeps: the k-th is the one that makes k of them.
Retained(lines, numbers) ==
    LET kept == DOMAIN lines \ numbers
        Upto(i) == Cardinality(kept \cap 1..i)
    IN  [k \in 1..Cardinality(kept) |-> lines[CHOOSE i \in kept : Upto(i) = k]]

Init ==
    /\ \/ primary = Missing
       \/ \E l \in InitialLines, unterminated \in BOOLEAN :
            primary = [Source EXCEPT !.lines = l, !.open = unterminated]
    /\ other = Source /\ backup = None /\ edits = 0 /\ mutex = None
    /\ pc = [p \in Clients |-> "load"]
    /\ expected \in [Clients -> Fingerprints]
    /\ snap = [p \in Clients |-> None] /\ fresh = [p \in Clients |-> None]
    /\ presented = [p \in Clients |-> NoKey] /\ pin = [p \in Clients |-> None]
    /\ prompted = [p \in Clients |-> FALSE]
    /\ selection = [p \in Clients |-> {}]
    /\ asked = [p \in Clients |-> None] /\ took = [p \in Clients |-> {}]

Goto(p, label) == pc' = [pc EXCEPT ![p] = label]
\* The finally block: the mutex is released when the update is over.
Finish(p, label) == Goto(p, label) /\ mutex' = None

-----------------------------------------------------------------------------
\* The connection: StartAsync from the snapshot to the decision.
LoadStore(p) ==
    /\ pc[p] = "load"
    /\ \E s \in Loads : snap' = [snap EXCEPT ![p] = s]
    /\ Goto(p, "attempt")
    /\ UNCHANGED <<files, edits, mutex, expected, presented, pin, prompted, fresh, selection,
                   asked, took>>

\* OnHostKeyReceived, and what StartAsync does when the attempt has failed.
HostKeyReceived(p) ==
    /\ pc[p] = "attempt"
    /\ \E key \in Keys :
          LET state == Resolve(snap[p], key)
          IN  /\ presented' = [presented EXCEPT ![p] = key]
              /\ Goto(p, CASE CanTrust(p, key) -> "connected"
                           [] ~CanTrust(p, key) /\ ~prompted[p] /\ state = "Unknown"
                              /\ expected[p] \in {NoKey, key} -> "prompt"
                           [] state = "Changed" -> "review"
                           [] OTHER -> "failed")
    /\ UNCHANGED <<files, edits, mutex, expected, snap, pin, prompted, fresh, selection, asked,
                   took>>

Cancel(p) ==
    /\ pc[p] = "prompt" /\ Goto(p, "failed")
    /\ UNCHANGED <<files, edits, mutex, local>>

\* Connect once: the store must still be the one the prompt was about.
ConnectOnce(p) ==
    /\ pc[p] = "prompt"
    /\ asked' = [asked EXCEPT ![p] = [store |-> snap[p], key |-> presented[p]]]
    /\ \E s \in Loads :
          IF s = snap[p]
          THEN /\ pin' = [pin EXCEPT ![p] = [key |-> presented[p], store |-> snap[p]]]
               /\ prompted' = [prompted EXCEPT ![p] = TRUE]
               /\ Goto(p, "load")
          ELSE Goto(p, "failed") /\ UNCHANGED <<pin, prompted>>
    /\ UNCHANGED <<files, edits, mutex, expected, snap, presented, fresh, selection, took>>

TrustAndConnect(p) ==
    /\ pc[p] = "prompt" /\ Goto(p, "add-wait")
    /\ asked' = [asked EXCEPT ![p] = [store |-> snap[p], key |-> presented[p]]]
    /\ UNCHANGED <<files, edits, mutex, expected, snap, presented, pin, prompted, fresh,
                   selection, took>>

\* The management dialog after a changed key: records of the user's file.
Choose(p) ==
    /\ pc[p] = "review"
    /\ \E numbers \in (SUBSET {i \in DOMAIN snap[p].primary.lines :
                                  snap[p].primary.lines[i][1] = "record"}) :
          /\ selection' = [selection EXCEPT ![p] = numbers]
          /\ Goto(p, IF numbers = {} THEN "failed" ELSE "remove-wait")
    /\ UNCHANGED <<files, edits, mutex, expected, snap, presented, pin, prompted, fresh, asked,
                   took>>

-----------------------------------------------------------------------------
\* AddPrimaryUserRecord and RemovePrimaryUserRecords: the mutex, then a fresh
\* snapshot that has to be the one the user decided on.
Acquire(p) ==
    /\ pc[p] \in {"add-wait", "remove-wait"} /\ mutex = None
    /\ mutex' = p
    /\ Goto(p, IF pc[p] = "add-wait" THEN "add-load" ELSE "remove-load")
    /\ UNCHANGED <<files, edits, local>>

AcquireTimesOut(p) ==
    /\ pc[p] \in {"add-wait", "remove-wait"} /\ mutex # None
    /\ Goto(p, "failed")
    /\ UNCHANGED <<files, edits, mutex, local>>

LoadFresh(p) ==
    /\ pc[p] \in {"add-load", "remove-load"}
    /\ \E s \in Loads :
          IF s = snap[p]
          THEN /\ fresh' = [fresh EXCEPT ![p] = s]
               /\ Goto(p, IF pc[p] = "add-load" THEN "add-open" ELSE "remove-open")
               /\ UNCHANGED mutex
          ELSE Finish(p, "failed") /\ UNCHANGED fresh
    /\ UNCHANGED <<files, edits, expected, snap, presented, pin, prompted, selection, asked, took>>

\* PrimaryMatchesFresh: content, not time; a missing file was just created.
MatchesFresh(p) ==
    IF fresh[p].primary.exists
    THEN primary.exists /\ primary.lines = fresh[p].primary.lines
         /\ primary.open = fresh[p].primary.open
    ELSE ~primary.exists

\* OpenPrimary, the comparison and Resolve: from here the handle shares reading
\* only.  A missing file is created empty, also when the rest then fails.
OpenPrimary(p) ==
    /\ pc[p] = "add-open"
    /\ primary' = IF primary.exists THEN primary ELSE [Source EXCEPT !.stamp = primary.stamp + 1]
    /\ IF MatchesFresh(p) /\ Resolve([primary |-> primary', other |-> fresh[p].other],
                                     presented[p]) = "Unknown"
       THEN Goto(p, "add-write") /\ UNCHANGED mutex
       ELSE Finish(p, "failed")
    /\ UNCHANGED <<other, backup, edits, local>>

\* The write and the flush through the handle, which is then closed.
WriteRecord(p) ==
    /\ pc[p] = "add-write"
    /\ primary' = AppendRecord(primary, <<"record", presented[p]>>)
    /\ Goto(p, "add-verify")
    /\ UNCHANGED <<other, backup, edits, mutex, local>>

\* The disk refuses a part of it.
WriteFails(p) ==
    /\ pc[p] = "add-write"
    /\ primary' \in Torn(primary, presented[p])
    /\ Finish(p, "failed")
    /\ UNCHANGED <<other, backup, edits, local>>

\* The read-back: the expected content, the other sources as before, Matching.
VerifyAdded(p) ==
    /\ pc[p] = "add-verify"
    /\ \E s \in Loads :
          LET wanted == IF fresh[p].primary.exists THEN fresh[p].primary ELSE Source
          IN  IF /\ s.primary.lines = Append(wanted.lines, <<"record", presented[p]>>)
                 /\ ~s.primary.open
                 /\ s.other = fresh[p].other
                 /\ Resolve(s, presented[p]) = "Matching"
              THEN /\ prompted' = [prompted EXCEPT ![p] = TRUE]
                   /\ pin' = [pin EXCEPT ![p] = None]
                   /\ Finish(p, "load")
              ELSE Finish(p, "failed") /\ UNCHANGED <<pin, prompted>>
    /\ UNCHANGED <<files, edits, expected, snap, presented, fresh, selection, asked, took>>

\* The removal reads through a handle that also lets others replace the file,
\* and writes the retained lines to a temporary file.
OpenSource(p) ==
    /\ pc[p] = "remove-open"
    /\ IF primary.exists /\ MatchesFresh(p)
       THEN Goto(p, "remove-check") /\ UNCHANGED mutex
       ELSE Finish(p, "failed")
    /\ UNCHANGED <<files, edits, local>>

\* The final comparison, times included.
CheckFinal(p) ==
    /\ pc[p] = "remove-check"
    /\ \E s \in Loads : IF s = snap[p] THEN Goto(p, "remove-replace") /\ UNCHANGED mutex
                        ELSE Finish(p, "failed")
    /\ UNCHANGED <<files, edits, local>>

\* File.Replace puts the file of that moment away as .old.
Replace(p) ==
    /\ pc[p] = "remove-replace"
    /\ LET lines == Retained(fresh[p].primary.lines, selection[p])
       IN  /\ primary' = Written(primary, lines,
                                 fresh[p].primary.open /\ lines # <<>>
                                 /\ Len(fresh[p].primary.lines) \notin selection[p])
           /\ took' = [took EXCEPT ![p] = Range(primary.lines) \ Range(lines)]
    /\ backup' = primary.lines
    /\ Goto(p, "remove-verify")
    /\ UNCHANGED <<other, edits, mutex, expected, snap, presented, pin, prompted, fresh,
                   selection, asked>>

\* A step of the removal fails before the file is replaced.
RemoveFails(p) ==
    /\ pc[p] \in {"remove-check", "remove-replace"}
    /\ Finish(p, "failed")
    /\ UNCHANGED <<files, edits, local>>

\* The read-back: the retained lines, the other sources, and the backup.
VerifyPrimaryOnly(p) ==
    /\ pc[p] = "remove-verify"
    /\ \E s \in Loads :
          Finish(p, IF /\ ~s.primary.fatal
                       /\ s.primary.lines = Retained(fresh[p].primary.lines, selection[p])
                       /\ s.other = fresh[p].other
                    THEN "removed" ELSE "failed")
    /\ UNCHANGED <<files, edits, local>>
VerifyRemoved(p) ==
    /\ pc[p] = "remove-verify"
    /\ \E s \in Loads :
          Finish(p, IF /\ ~s.primary.fatal
                       /\ s.primary.lines = Retained(fresh[p].primary.lines, selection[p])
                       /\ s.other = fresh[p].other
                       /\ backup = fresh[p].primary.lines
                    THEN "removed" ELSE "failed")
    /\ UNCHANGED <<files, edits, local>>

-----------------------------------------------------------------------------
\* A crash abandons the mutex, and may cut a write off.  What the process knew
\* goes with it.
Crash(p) ==
    /\ pc[p] \notin {"connected", "failed", "removed", "crashed"}
    /\ primary' \in IF pc[p] = "add-write" THEN Torn(primary, presented[p]) ELSE {primary}
    /\ mutex' = IF mutex = p THEN None ELSE mutex
    /\ Goto(p, "crashed")
    /\ snap' = [snap EXCEPT ![p] = None] /\ fresh' = [fresh EXCEPT ![p] = None]
    /\ presented' = [presented EXCEPT ![p] = NoKey] /\ pin' = [pin EXCEPT ![p] = None]
    /\ prompted' = [prompted EXCEPT ![p] = FALSE]
    /\ selection' = [selection EXCEPT ![p] = {}]
    /\ asked' = [asked EXCEPT ![p] = None] /\ took' = [took EXCEPT ![p] = {}]
    /\ UNCHANGED <<other, backup, edits, expected>>

\* What the open handles permit.  FileShare.Read keeps others from writing and
\* from replacing; FileShare.Read | FileShare.Delete lets a copy be saved over.
ReplaceableAlways == TRUE
Replaceable == \A p \in Clients : pc[p] # "add-write"

EditLines == {<<"record", k>> : k \in Keys} \cup {<<"revoked", k>> : k \in Keys}
               \cup {<<"other", NoKey>>}

Saved(file, line) == Written(file, Append(file.lines, line), FALSE)

\* Another program saves a copy with one more line over the file.
Edit ==
    /\ edits < MaxEdits /\ edits' = edits + 1
    /\ primary.exists /\ Replaceable
    /\ \E line \in EditLines : primary' = Saved(primary, line)
    /\ UNCHANGED <<other, backup, mutex, pc, local>>

\* An administrator revokes a key in a system file.
Revoke ==
    /\ edits < MaxEdits /\ edits' = edits + 1
    /\ \E k \in Keys : other' = Saved(other, <<"revoked", k>>)
    /\ UNCHANGED <<primary, backup, mutex, pc, local>>

Client(p) ==
    \/ LoadStore(p) \/ HostKeyReceived(p) \/ Cancel(p) \/ ConnectOnce(p) \/ TrustAndConnect(p)
    \/ Choose(p) \/ Acquire(p) \/ AcquireTimesOut(p) \/ LoadFresh(p)
    \/ OpenPrimary(p) \/ WriteRecord(p) \/ WriteFails(p) \/ VerifyAdded(p)
    \/ OpenSource(p) \/ CheckFinal(p) \/ Replace(p) \/ RemoveFails(p) \/ VerifyRemoved(p)
Next == Edit \/ Revoke \/ \E p \in Clients : Client(p) \/ Crash(p)
Spec == Init /\ [][Next]_vars

-----------------------------------------------------------------------------
(* LinesSurvive: no step of an addition or a removal, a crash or a full    *)
(* disk in the middle of it included, takes a line from the user's file    *)
(* without leaving it in known_hosts.old; only File.Replace takes any.     *)
LinesSurvive ==
    [][/\ \A line \in Range(primary.lines) :
            line \in Range(primary'.lines) \cup (IF backup' = None THEN {} ELSE Range(backup'))
       /\ \/ Range(primary.lines) \subseteq Range(primary'.lines)
          \/ \E p \in Clients : pc[p] = "remove-replace" /\ pc'[p] = "remove-verify"]_vars

(* RemovalExact: a removal that reports success took exactly the records   *)
(* the user had selected in the file the user had reviewed, although       *)
(* another program may save the file between the final comparison and      *)
(* File.Replace.                                                           *)
RemovalExact ==
    \A p \in Clients : pc[p] = "removed" =>
        took[p] = {snap[p].primary.lines[i] : i \in selection[p]}
                     \ Range(Retained(snap[p].primary.lines, selection[p]))

(* TrustEarned: a connection goes on only with a key that the store it     *)
(* loaded records, or with the very key the user agreed to while the store *)
(* was the same, however the server changes keys between attempts and      *)
(* others edit the files during the prompt; never with a key that is       *)
(* revoked there or is not the expected one.                               *)
TrustEarned ==
    \A p \in Clients : pc[p] = "connected" =>
        /\ \/ <<"record", presented[p]>> \in Range(snap[p].primary.lines) \cup Range(snap[p].other.lines)
           \/ asked[p] = [store |-> snap[p], key |-> presented[p]]
        /\ <<"revoked", presented[p]>> \notin
               Range(snap[p].primary.lines) \cup Range(snap[p].other.lines)
        /\ expected[p] \in {NoKey, presented[p]}

(* FirstKeyOnly: a record is only ever appended to a file without a record *)
(* of the host, its revocation or a line that might be one, with two       *)
(* clients and other programs writing at the same time.                    *)
FirstKeyOnly ==
    [][\A p \in Clients : pc[p] = "add-write" /\ pc'[p] = "add-verify" =>
          \A i \in DOMAIN primary.lines : /\ primary.lines[i][1] \notin {"record", "malformed"}
                                          /\ primary.lines[i] # <<"revoked", presented[p]>>]_vars

(* TrustSound: no key is used or recorded that was not earned, whatever    *)
(* the other process and other programs write between load and use.        *)
TrustSound == []TrustEarned /\ FirstKeyOnly

-----------------------------------------------------------------------------
(* Three sentences of the known-hosts specification that the code does not *)
(* keep; no run checks them.                                               *)

(* SaveFailureUntrusted: a save failure leaves the host untrusted.         *)
SaveFailureUntrusted ==
    \A p \in Clients : (pc[p] = "failed" /\ asked[p] # None /\ fresh[p] # None) =>
        <<"record", asked[p].key>> \notin Range(primary.lines) \ Range(snap[p].primary.lines)

(* TruncatedUnreadable: the host's line that the death of the process cut  *)
(* off, a record with a part of the key, is reported as unreadable by the  *)
(* next load.                                                              *)
TruncatedUnreadable ==
    <<"record", NoKey>> \in Range(primary.lines) =>
        \A key \in Keys : Resolve([primary |-> primary, other |-> other], key)
                             \in {"Unreadable", "Revoked"}

(* FailureKeepsOriginal: a removal that fails leaves the original file     *)
(* authoritative.                                                          *)
FailureKeepsOriginal ==
    \A p \in Clients : pc[p] = "failed" => took[p] = {}
=============================================================================
