-------------------------- MODULE KnownHostsProofs --------------------------
(***************************************************************************)
(* Proofs about KnownHosts, for any connections, keys, files and edits.    *)
(* The three properties rest on one inductive invariant: what each         *)
(* connection knows agrees with the files for as long as it needs to,      *)
(* because of the mutex, the sharing mode of the open handle, or the       *)
(* comparison with the snapshot.                                           *)
(***************************************************************************)
EXTENDS KnownHosts, FiniteSetTheorems, TLAPS

SourceRecord ==
    [exists : BOOLEAN, lines : Seq(Lines), open : BOOLEAN, stamp : Nat, fatal : BOOLEAN]
Snapshot == [primary : SourceRecord, other : SourceRecord]
Decision == [store : Snapshot, key : Keys \cup {NoKey}]

Removing == {"remove-open", "remove-check", "remove-replace", "remove-verify"}
Updating == {"add-open", "add-write", "add-verify"} \cup Removing
Critical == {"add-load", "remove-load"} \cup Updating
Opened == {"add-write", "add-verify", "remove-check", "remove-replace", "remove-verify"}
Adding == {"add-wait", "add-load", "add-open", "add-write", "add-verify"}
Loaded == {"attempt", "prompt", "review", "add-wait", "remove-wait", "connected", "removed"}
            \cup Critical
Labels == {"load", "failed", "crashed"} \cup Loaded

\* The files, and the values of the connections' fields.
FilesOK ==
    /\ primary \in SourceRecord /\ other \in SourceRecord
    /\ ~primary.exists => primary.lines = <<>>
    /\ backup \in Seq(Lines) \cup {None}
    /\ mutex \in Clients \cup {None}

TypeOK ==
    /\ FilesOK
    /\ pc \in [Clients -> Labels]
    /\ snap \in [Clients -> Snapshot \cup {None}] /\ fresh \in [Clients -> Snapshot \cup {None}]
    /\ presented \in [Clients -> Keys \cup {NoKey}]
    /\ pin \in [Clients -> Decision \cup {None}] /\ asked \in [Clients -> Decision \cup {None}]
    /\ prompted \in [Clients -> BOOLEAN]
    /\ selection \in [Clients -> SUBSET Nat] /\ took \in [Clients -> SUBSET Lines]

\* No line of the file is a record of the host, might be one, or revokes key.
NoRecord(lines, key) ==
    \A i \in DOMAIN lines : /\ lines[i][1] \notin {"record", "malformed"}
                            /\ lines[i] # <<"revoked", key>>

\* What a removal of the numbered lines takes out.
TakenOut(lines, kept) == Range(lines) \ Range(kept)

\* Where p is, it has what it needs: its snapshot; the mutex; a fresh snapshot
\* that is the one the user saw; a file that exists, once it has been opened;
\* and a selection of that snapshot's lines.
HoldsInv(p) ==
    /\ pc[p] \in Loaded => snap[p] \in Snapshot
    /\ pc[p] \in Critical => mutex = p
    /\ pc[p] \in Updating => fresh[p] = snap[p]
    /\ pc[p] \in Opened => primary.exists
    /\ pc[p] \in Removing \cup {"remove-wait", "remove-load", "removed"} =>
         selection[p] \subseteq DOMAIN snap[p].primary.lines

\* A key is pinned for the store and the key that the user agreed to, once.
PinInv(p) ==
    /\ pin[p] # None => prompted[p] /\ asked[p] = [store |-> pin[p].store, key |-> pin[p].key]
    /\ pc[p] \in {"prompt"} \cup Adding => ~prompted[p]

\* An open handle keeps the file as Resolve found it.
AddInv(p) == pc[p] = "add-write" => NoRecord(primary.lines, presented[p])

\* What a removal took is what its backup lacks now, and what it is meant to
\* take once the backup has been compared.
TookInv(p) ==
    /\ pc[p] = "remove-verify" =>
         /\ backup \in Seq(Lines)
         /\ took[p] = TakenOut(backup, Retained(snap[p].primary.lines, selection[p]))
    /\ pc[p] = "removed" =>
         took[p] = TakenOut(snap[p].primary.lines, Retained(snap[p].primary.lines, selection[p]))

\* The key a connection goes on with has been earned.
TrustInv(p) ==
    pc[p] = "connected" =>
        /\ \/ <<"record", presented[p]>>
                \in Range(snap[p].primary.lines) \cup Range(snap[p].other.lines)
           \/ asked[p] = [store |-> snap[p], key |-> presented[p]]
        /\ <<"revoked", presented[p]>> \notin
               Range(snap[p].primary.lines) \cup Range(snap[p].other.lines)
        /\ expected[p] \in {NoKey, presented[p]}

ClientInv(p) == HoldsInv(p) /\ PinInv(p) /\ AddInv(p) /\ TookInv(p) /\ TrustInv(p)

HostsInv == TypeOK /\ \A p \in Clients : ClientInv(p)

-----------------------------------------------------------------------------
\* The operators of the model.

\* A file that is written again keeps its type, and exists as before.
LEMMA WrittenFacts ==
    ASSUME NEW file \in SourceRecord, NEW lines \in Seq(Lines), NEW unterminated \in BOOLEAN
    PROVE  /\ Written(file, lines, unterminated) \in SourceRecord
           /\ Written(file, lines, unterminated).lines = lines
           /\ Written(file, lines, unterminated).exists = file.exists
<1>1. file.stamp + 1 \in Nat
    BY DEF SourceRecord
<1> QED BY <1>1, Zenon DEF Written, SourceRecord

\* The sources a load may find when it reads none.
LEMMA SourceFacts ==
    /\ Source \in SourceRecord /\ Failed \in SourceRecord /\ Missing \in SourceRecord
    /\ Source.lines = <<>> /\ Missing.lines = <<>> /\ Source.exists
<1>1. <<>> \in Seq(Lines) /\ 0 \in Nat
    OBVIOUS
<1> QED BY <1>1, Zenon DEF Source, Failed, Missing, SourceRecord

\* A load returns a snapshot.
LEMMA LoadsFacts ==
    ASSUME FilesOK
    PROVE  \A s \in Loads : s \in Snapshot
BY SourceFacts DEF FilesOK, Loads, Snapshot

\* The lines of a snapshot are sequences of lines.
LEMMA SnapshotFacts ==
    ASSUME NEW s \in Snapshot
    PROVE  s.primary.lines \in Seq(Lines) /\ s.other.lines \in Seq(Lines)
BY Zenon DEF Snapshot, SourceRecord

\* Appending a line takes none away.
LEMMA AppendKeeps ==
    ASSUME NEW lines \in Seq(Lines), NEW line \in Lines
    PROVE  /\ Append(lines, line) \in Seq(Lines)
           /\ Range(lines) \subseteq Range(Append(lines, line))
BY DEF Range

\* A write that is cut off takes no line away.
LEMMA TornFacts ==
    ASSUME NEW file \in SourceRecord, NEW key \in Keys \cup {NoKey}, NEW f \in Torn(file, key)
    PROVE  /\ f \in SourceRecord /\ f.exists = file.exists
           /\ Range(file.lines) \subseteq Range(f.lines)
<1>1. file.lines \in Seq(Lines)
    BY Zenon DEF SourceRecord
<1>2. {<<"other", NoKey>>, <<"malformed", NoKey>>, <<"record", NoKey>>, <<"record", key>>}
        \subseteq Lines
    BY DEF Lines
<1>3. CASE f = file
    BY <1>3
<1>4. CASE f = Written(file, file.lines, FALSE)
    BY <1>1, <1>4, WrittenFacts, Zenon
<1>5. ASSUME NEW line \in {<<"other", NoKey>>, <<"malformed", NoKey>>, <<"record", NoKey>>,
                           <<"record", key>>},
             f = Written(file, Append(file.lines, line), TRUE)
      PROVE  /\ f \in SourceRecord /\ f.exists = file.exists
             /\ Range(file.lines) \subseteq Range(f.lines)
    BY <1>1, <1>2, <1>5, AppendKeeps, WrittenFacts, Zenon
<1> QED BY <1>3, <1>4, <1>5, Zenon DEF Torn

\* Counting the numbers of a finite set up to each of them tells them apart.
LEMMA CountingTellsApart ==
    ASSUME NEW kept \in SUBSET Nat, IsFiniteSet(kept), 0 \notin kept
    PROVE  \A i \in kept :
              /\ Cardinality(kept \cap 1..i) \in 1..Cardinality(kept)
              /\ \A j \in kept : Cardinality(kept \cap 1..j) = Cardinality(kept \cap 1..i) => j = i
<1>1. \A i \in kept : kept \cap 1..i \in SUBSET kept /\ i \in kept \cap 1..i
    OBVIOUS
<1>2. \A i \in kept : /\ IsFiniteSet(kept \cap 1..i)
                      /\ Cardinality(kept \cap 1..i) <= Cardinality(kept)
    BY <1>1, FS_Subset
<1>3. ASSUME NEW i \in kept
      PROVE  Cardinality(kept \cap 1..i) \in 1..Cardinality(kept)
  <2>1. Cardinality(kept \cap 1..i) # 0
      BY <1>1, <1>2, FS_EmptySet, Zenon
  <2>2. Cardinality(kept \cap 1..i) \in Nat /\ Cardinality(kept) \in Nat
      BY <1>2, FS_CardinalityType, Zenon
  <2> QED BY <1>2, <2>1, <2>2
<1>4. ASSUME NEW i \in kept, NEW j \in kept, i < j
      PROVE  Cardinality(kept \cap 1..j) # Cardinality(kept \cap 1..i)
  <2>1. kept \cap 1..i \in SUBSET (kept \cap 1..j)
      BY <1>4
  <2>2. j \in kept \cap 1..j /\ j \notin kept \cap 1..i
      BY <1>1, <1>4
  <2> QED BY <1>2, <2>1, <2>2, FS_Subset, Zenon
<1>5. ASSUME NEW i \in kept, NEW j \in kept,
             Cardinality(kept \cap 1..j) = Cardinality(kept \cap 1..i)
      PROVE  j = i
  <2>1. ~(i < j) /\ ~(j < i)
      BY <1>4, <1>5, Zenon
  <2> QED BY <2>1
<1> QED BY <1>3, <1>5, Zenon

\* So they count from 1 to the number of them, without a gap.
LEMMA CountingIsOnto ==
    ASSUME NEW kept \in SUBSET Nat, IsFiniteSet(kept), 0 \notin kept,
           NEW k \in 1..Cardinality(kept)
    PROVE  \E i \in kept : Cardinality(kept \cap 1..i) = k
<1> DEFINE n == Cardinality(kept)
           upto == [i \in kept |-> Cardinality(kept \cap 1..i)]
<1>1. n \in Nat
    BY FS_CardinalityType
<1>2. IsFiniteSet(1..n) /\ Cardinality(1..n) = n
    BY <1>1, FS_Interval
<1>3. upto \in [kept -> 1..n]
    BY CountingTellsApart
<1>4. \A i, j \in kept : upto[i] = upto[j] => i = j
    BY CountingTellsApart, Zenon
<1>5. upto \in Injection(kept, 1..n)
    BY <1>3, <1>4, Zenon DEF Injection, IsInjective
<1>6. upto \in Surjection(kept, 1..n)
    BY <1>2, <1>5, FS_Injection, Zenon
<1> QED BY <1>6, Zenon DEF Surjection

\* The retained lines are lines of the file, and no line that is to be kept
\* is lost among them.
LEMMA RetainedFacts ==
    ASSUME NEW lines \in Seq(Lines), NEW numbers
    PROVE  /\ Retained(lines, numbers) \in Seq(Lines)
           /\ Range(Retained(lines, numbers)) \subseteq Range(lines)
           /\ \A i \in DOMAIN lines \ numbers : lines[i] \in Range(Retained(lines, numbers))
<1> DEFINE kept == DOMAIN lines \ numbers
           At(k) == CHOOSE j \in kept : Cardinality(kept \cap 1..j) = k
<1>1. /\ kept \in SUBSET Nat /\ 0 \notin kept /\ kept \in SUBSET (1..Len(lines))
      /\ kept \subseteq DOMAIN lines
    OBVIOUS
<1>2. IsFiniteSet(kept)
  <2>1. IsFiniteSet(1..Len(lines))
      BY FS_Interval
  <2> QED BY <1>1, <2>1, FS_Subset, Zenon
<1>3. Retained(lines, numbers) = [k \in 1..Cardinality(kept) |-> lines[At(k)]]
    BY DEF Retained
<1>4. Cardinality(kept) \in Nat
    BY <1>2, FS_CardinalityType
<1> HIDE DEF kept
<1>5. ASSUME NEW i \in kept
      PROVE  lines[i] \in Range(Retained(lines, numbers))
  <2> DEFINE k == Cardinality(kept \cap 1..i)
  <2>1. k \in 1..Cardinality(kept)
      BY <1>1, <1>2, CountingTellsApart, Zenon
  <2>2. At(k) = i
      BY <1>1, <1>2, CountingTellsApart, Zenon
  <2>3. /\ DOMAIN Retained(lines, numbers) = 1..Cardinality(kept)
        /\ Retained(lines, numbers)[k] = lines[i]
      BY <1>3, <2>1, <2>2, Zenon
  <2> QED BY <2>1, <2>3, Zenon DEF Range
<1>6. ASSUME NEW k \in 1..Cardinality(kept)
      PROVE  At(k) \in kept
  <2>1. \E j \in kept : Cardinality(kept \cap 1..j) = k
      BY <1>1, <1>2, CountingIsOnto, Zenon
  <2> QED BY <2>1, Zenon
<1> HIDE DEF At
<1>7. \A k \in 1..Cardinality(kept) : At(k) \in DOMAIN lines /\ lines[At(k)] \in Lines
  <2>1. \A i \in DOMAIN lines : lines[i] \in Lines
      OBVIOUS
  <2> QED BY <1>1, <1>6, <2>1, Zenon
<1>8. Retained(lines, numbers) \in Seq(Lines)
  <2>1. Retained(lines, numbers) \in [1..Cardinality(kept) -> Lines]
      BY <1>3, <1>7, Zenon
  <2> QED BY <1>4, <2>1
<1>9. Range(Retained(lines, numbers)) \subseteq Range(lines)
    BY <1>3, <1>7, Zenon DEF Range
<1> QED BY <1>5, <1>8, <1>9, Zenon DEF kept

\* With a selection among the lines, what goes is the selected lines, but for
\* those of which a copy is retained.
LEMMA TakenOutExact ==
    ASSUME NEW lines \in Seq(Lines), NEW numbers \in SUBSET DOMAIN lines
    PROVE  TakenOut(lines, Retained(lines, numbers))
             = {lines[i] : i \in numbers} \ Range(Retained(lines, numbers))
<1>1. \A i \in DOMAIN lines \ numbers : lines[i] \in Range(Retained(lines, numbers))
    BY RetainedFacts
<1> QED BY <1>1, Zenon DEF TakenOut, Range

\* What a verdict of Resolve says about the lines of the snapshot.
LEMMA ResolveFacts ==
    ASSUME NEW s, NEW key
    PROVE  LET lines == Range(s.primary.lines) \cup Range(s.other.lines)
           IN  /\ Resolve(s, key) \in {"Matching", "Unknown"} => <<"revoked", key>> \notin lines
               /\ Resolve(s, key) = "Matching" => <<"record", key>> \in lines
               /\ Resolve(s, key) = "Unknown" =>
                    \A line \in lines : line[1] \notin {"record", "malformed"}
<1> DEFINE lines == Range(s.primary.lines) \cup Range(s.other.lines)
           records == {line \in lines : line[1] = "record"}
<1>1. CASE <<"revoked", key>> \in lines
    BY <1>1 DEF Resolve
<1>2. CASE <<"revoked", key>> \notin lines
  <2>1. Resolve(s, key) =
          IF s.primary.fatal \/ s.other.fatal \/ \E line \in lines : line[1] = "malformed"
          THEN "Unreadable"
          ELSE IF <<"record", key>> \in records THEN "Matching"
          ELSE IF records # {} THEN "Changed" ELSE "Unknown"
      BY <1>2 DEF Resolve
  <2> QED BY <1>2, <2>1
<1> QED BY <1>1, <1>2

\* A key that may be trusted is recorded, or pinned for this very store.
LEMMA CanTrustFacts ==
    ASSUME NEW p \in Clients, NEW key, CanTrust(p, key)
    PROVE  LET lines == Range(snap[p].primary.lines) \cup Range(snap[p].other.lines)
           IN  /\ <<"revoked", key>> \notin lines /\ expected[p] \in {NoKey, key}
               /\ \/ <<"record", key>> \in lines
                  \/ pin[p] # None /\ pin[p].key = key /\ pin[p].store = snap[p]
BY ResolveFacts DEF CanTrust

-----------------------------------------------------------------------------
\* Nothing of q changes.
Same(q) ==
    /\ pc'[q] = pc[q] /\ expected'[q] = expected[q] /\ snap'[q] = snap[q]
    /\ presented'[q] = presented[q] /\ pin'[q] = pin[q] /\ prompted'[q] = prompted[q]
    /\ fresh'[q] = fresh[q] /\ selection'[q] = selection[q] /\ asked'[q] = asked[q]
    /\ took'[q] = took[q]

\* A connection keeps what it knows if it stands still, and if the files are
\* left alone while it holds the mutex.
LEMMA StandingStill ==
    ASSUME NEW q \in Clients, ClientInv(q), Same(q),
           pc[q] \in Critical => mutex' = mutex,
           primary.exists => primary'.exists,
           pc[q] = "add-write" => primary' = primary,
           pc[q] = "remove-verify" => backup' = backup
    PROVE  ClientInv(q)'
<1>1. HoldsInv(q)'
    BY DEF Same, ClientInv, HoldsInv
<1>2. PinInv(q)'
    BY DEF Same, ClientInv, PinInv
<1>3. AddInv(q)'
    BY DEF Same, ClientInv, AddInv
<1>4. TookInv(q)'
    BY DEF Same, ClientInv, TookInv
<1>5. TrustInv(q)'
    BY DEF Same, ClientInv, TrustInv
<1> QED BY <1>1, <1>2, <1>3, <1>4, <1>5, Zenon DEF ClientInv

\* The steps of a connection outside its update of the file, and inside.
Outside(p) ==
    \/ LoadStore(p) \/ HostKeyReceived(p) \/ Cancel(p) \/ ConnectOnce(p) \/ TrustAndConnect(p)
    \/ Choose(p) \/ AcquireTimesOut(p)
Inside(p) ==
    \/ LoadFresh(p) \/ OpenPrimary(p) \/ WriteRecord(p) \/ WriteFails(p) \/ VerifyAdded(p)
    \/ OpenSource(p) \/ CheckFinal(p) \/ Replace(p) \/ RemoveFails(p) \/ VerifyRemoved(p)

\* A step of a connection changes nothing of another one.
LEMMA OthersSame ==
    ASSUME TypeOK, NEW p \in Clients, Client(p) \/ Crash(p), NEW q \in Clients \ {p}
    PROVE  Same(q)
<1> USE DEF TypeOK, Same, Goto, Finish, local
<1>1. CASE LoadStore(p)
    BY <1>1 DEF LoadStore
<1>2. CASE HostKeyReceived(p)
    BY <1>2 DEF HostKeyReceived
<1>3. CASE Cancel(p)
    BY <1>3 DEF Cancel
<1>4. CASE ConnectOnce(p)
    BY <1>4 DEF ConnectOnce
<1>5. CASE TrustAndConnect(p)
    BY <1>5 DEF TrustAndConnect
<1>6. CASE Choose(p)
    BY <1>6 DEF Choose
<1>7. CASE Acquire(p)
    BY <1>7 DEF Acquire
<1>8. CASE AcquireTimesOut(p)
    BY <1>8 DEF AcquireTimesOut
<1>9. CASE LoadFresh(p)
    BY <1>9 DEF LoadFresh
<1>10. CASE OpenPrimary(p)
    BY <1>10 DEF OpenPrimary
<1>11. CASE WriteRecord(p)
    BY <1>11 DEF WriteRecord
<1>12. CASE WriteFails(p)
    BY <1>12, Zenon DEF WriteFails
<1>13. CASE VerifyAdded(p)
    BY <1>13, Zenon DEF VerifyAdded
<1>14. CASE OpenSource(p)
    BY <1>14 DEF OpenSource
<1>15. CASE CheckFinal(p)
    BY <1>15 DEF CheckFinal
<1>16. CASE Replace(p)
    BY <1>16 DEF Replace
<1>17. CASE RemoveFails(p)
    BY <1>17 DEF RemoveFails
<1>18. CASE VerifyRemoved(p)
    BY <1>18 DEF VerifyRemoved
<1>19. CASE Crash(p)
    BY <1>19 DEF Crash
<1> QED BY <1>1, <1>2, <1>3, <1>4, <1>5, <1>6, <1>7, <1>8, <1>9, <1>10, <1>11, <1>12,
           <1>13, <1>14, <1>15, <1>16, <1>17, <1>18, <1>19, Zenon DEF Client

\* While q holds the mutex, no other connection writes, and none takes it.
LEMMA MutexGuards ==
    ASSUME HostsInv, NEW p \in Clients, Client(p) \/ Crash(p), NEW q \in Clients \ {p},
           pc[q] \in Critical
    PROVE  UNCHANGED <<mutex, primary, backup>>
<1>1. mutex = q /\ mutex # None
    BY HostsAssumption DEF HostsInv, ClientInv, HoldsInv
<1>2. pc[p] \notin Critical
    BY <1>1 DEF HostsInv, ClientInv, HoldsInv
<1>3. ~Inside(p) /\ ~Acquire(p)
    BY <1>1, <1>2, Zenon DEF Inside, LoadFresh, OpenPrimary, WriteRecord, WriteFails,
       VerifyAdded, OpenSource, CheckFinal, Replace, RemoveFails, VerifyRemoved, Acquire,
       Critical, Updating, Removing
<1>4. CASE Crash(p)
  <2>1. pc[p] # "add-write"
      BY <1>2 DEF Critical, Updating
  <2> QED BY <1>1, <1>4, <2>1 DEF Crash
<1>5. CASE Outside(p)
    BY <1>5, Zenon DEF Outside, LoadStore, HostKeyReceived, Cancel, ConnectOnce,
       TrustAndConnect, Choose, AcquireTimesOut, files
<1> QED BY <1>3, <1>4, <1>5, Zenon DEF Client, Inside, Outside

-----------------------------------------------------------------------------
\* The steps of one connection keep the types, and what it knows.

\* A connection that has failed has only its decisions to keep.
LEMMA EndedKeeps ==
    ASSUME NEW p \in Clients, ClientInv(p), pc'[p] = "failed",
           pin'[p] = pin[p], prompted'[p] = prompted[p], asked'[p] = asked[p]
    PROVE  ClientInv(p)'
<1>1. PinInv(p)'
    BY Zenon DEF ClientInv, PinInv, Adding
<1> QED BY <1>1 DEF ClientInv, HoldsInv, AddInv, TookInv, TrustInv, Loaded, Critical,
           Updating, Opened, Removing

\* A connection starts with the store it loads.
LEMMA LoadStoreKeeps ==
    ASSUME HostsInv, NEW p \in Clients, LoadStore(p)
    PROVE  TypeOK' /\ ClientInv(p)'
<1> USE DEF HostsInv, LoadStore, Goto
<1>1. PICK s \in Loads : snap' = [snap EXCEPT ![p] = s]
    BY Zenon
<1>2. s \in Snapshot
    BY LoadsFacts DEF TypeOK
<1>3. TypeOK'
    BY <1>1, <1>2 DEF TypeOK, FilesOK, Labels, Loaded, files
<1>4. pc'[p] = "attempt" /\ snap'[p] = s
    BY <1>1 DEF TypeOK
<1>5. HoldsInv(p)'
    BY <1>2, <1>4 DEF HoldsInv, Loaded, Critical, Updating, Opened, Removing
<1>6. PinInv(p)'
    BY <1>4 DEF ClientInv, PinInv, Adding
<1> QED BY <1>3, <1>4, <1>5, <1>6 DEF ClientInv, AddInv, TookInv, TrustInv

\* A key goes through only when it has been earned.
LEMMA HostKeyKeeps ==
    ASSUME HostsInv, NEW p \in Clients, HostKeyReceived(p)
    PROVE  TypeOK' /\ ClientInv(p)'
<1> USE DEF HostsInv, HostKeyReceived, Goto
<1>1. PICK key \in Keys :
        /\ presented' = [presented EXCEPT ![p] = key]
        /\ pc' = [pc EXCEPT ![p] =
                    CASE CanTrust(p, key) -> "connected"
                      [] ~CanTrust(p, key) /\ ~prompted[p] /\ Resolve(snap[p], key) = "Unknown"
                         /\ expected[p] \in {NoKey, key} -> "prompt"
                      [] Resolve(snap[p], key) = "Changed" -> "review"
                      [] OTHER -> "failed"]
    BY Zenon
<1>2. presented'[p] = key /\ pc'[p] \in {"connected", "prompt", "review", "failed"}
    BY <1>1 DEF TypeOK
<1>3. TypeOK'
    BY <1>1, <1>2 DEF TypeOK, FilesOK, Labels, Loaded, files
<1>4. HoldsInv(p)'
    BY <1>2 DEF ClientInv, HoldsInv, Loaded, Critical, Updating, Opened, Removing
<1>5. PinInv(p)'
  <2>1. pc'[p] = "prompt" => ~prompted[p]
      BY <1>1 DEF TypeOK
  <2> QED BY <1>2, <2>1 DEF ClientInv, PinInv, Adding
<1>6. TrustInv(p)'
  <2> SUFFICES ASSUME pc'[p] = "connected"
               PROVE  TrustInv(p)'
      BY DEF TrustInv
  <2>1. CanTrust(p, key)
      BY <1>1 DEF TypeOK
  <2>2. pin[p] # None => asked[p] = [store |-> pin[p].store, key |-> pin[p].key]
      BY DEF ClientInv, PinInv
  <2> QED BY <1>2, <2>1, <2>2, CanTrustFacts, SMTT(30) DEF TrustInv
<1> QED BY <1>2, <1>3, <1>4, <1>5, <1>6 DEF ClientInv, AddInv, TookInv

\* Cancelling the prompt ends the start.
LEMMA CancelKeeps ==
    ASSUME HostsInv, NEW p \in Clients, Cancel(p)
    PROVE  TypeOK' /\ ClientInv(p)'
<1>1. TypeOK'
    BY DEF HostsInv, Cancel, Goto, TypeOK, FilesOK, Labels, files, local
<1>2. pc'[p] = "failed"
    BY Zenon DEF HostsInv, Cancel, Goto, TypeOK
<1> QED BY <1>1, <1>2, EndedKeeps, Zenon DEF HostsInv, Cancel, local

\* Connect once pins the key for the store that the user was shown.
LEMMA ConnectOnceKeeps ==
    ASSUME HostsInv, NEW p \in Clients, ConnectOnce(p)
    PROVE  TypeOK' /\ ClientInv(p)'
<1> USE DEF HostsInv, ConnectOnce, Goto
<1> DEFINE d == [store |-> snap[p], key |-> presented[p]]
<1>1. snap[p] \in Snapshot /\ ~prompted[p] /\ pin[p] = None /\ d \in Decision
    BY Zenon DEF ClientInv, HoldsInv, PinInv, Loaded, TypeOK, Decision
<1>2. \/ /\ pin' = [pin EXCEPT ![p] = [key |-> presented[p], store |-> snap[p]]]
         /\ prompted' = [prompted EXCEPT ![p] = TRUE]
         /\ pc' = [pc EXCEPT ![p] = "load"]
      \/ pc' = [pc EXCEPT ![p] = "failed"] /\ UNCHANGED <<pin, prompted>>
    BY ZenonT(30)
<1>3. [key |-> presented[p], store |-> snap[p]] \in Decision
    BY <1>1, Zenon DEF TypeOK, Decision
<1>4. TypeOK'
  <2>1. FilesOK'
      BY DEF TypeOK, FilesOK, files
  <2>2. pc' \in [Clients -> Labels] /\ pin' \in [Clients -> Decision \cup {None}]
      BY <1>2, <1>3 DEF TypeOK, Labels
  <2>3. prompted' \in [Clients -> BOOLEAN]
      BY <1>2, Zenon DEF TypeOK
  <2>4. asked' \in [Clients -> Decision \cup {None}]
      BY <1>1 DEF TypeOK
  <2> QED BY <2>1, <2>2, <2>3, <2>4 DEF TypeOK
<1>5. pc'[p] \in {"load", "failed"}
    BY <1>2, Zenon DEF TypeOK
<1>6. PinInv(p)'
  <2>1. asked'[p] = d
      BY DEF TypeOK
  <2>2. \/ pin'[p] = [key |-> presented[p], store |-> snap[p]] /\ prompted'[p]
        \/ pin'[p] = None
      BY <1>1, <1>2, SMTT(30) DEF TypeOK
  <2> QED BY <1>5, <2>1, <2>2 DEF PinInv, Adding
<1> QED BY <1>4, <1>5, <1>6, Zenon DEF ClientInv, HoldsInv, AddInv, TookInv, TrustInv,
           Loaded, Critical, Updating, Opened, Removing

\* Trust and connect goes on to the update of the file, with nothing pinned.
LEMMA TrustKeeps ==
    ASSUME HostsInv, NEW p \in Clients, TrustAndConnect(p)
    PROVE  TypeOK' /\ ClientInv(p)'
<1> USE DEF HostsInv, TrustAndConnect, Goto
<1>1. snap[p] \in Snapshot /\ ~prompted[p] /\ pin[p] = None
    BY DEF ClientInv, HoldsInv, PinInv, Loaded, TypeOK
<1>2. [store |-> snap[p], key |-> presented[p]] \in Decision
    BY <1>1 DEF TypeOK, Decision
<1>3. TypeOK'
    BY <1>2 DEF TypeOK, FilesOK, Labels, Loaded, files
<1>4. pc'[p] = "add-wait"
    BY Zenon DEF TypeOK
<1> QED BY <1>1, <1>3, <1>4 DEF ClientInv, HoldsInv, PinInv, AddInv, TookInv, TrustInv,
           Loaded, Critical, Updating, Opened, Removing

\* The dialog selects among the lines of the snapshot.
LEMMA ChooseKeeps ==
    ASSUME HostsInv, NEW p \in Clients, Choose(p)
    PROVE  TypeOK' /\ ClientInv(p)'
<1> USE DEF HostsInv, Choose, Goto
<1>1. snap[p] \in Snapshot
    BY Zenon DEF ClientInv, HoldsInv, Loaded
<1>2. DOMAIN snap[p].primary.lines \subseteq Nat
    BY <1>1, SnapshotFacts
<1>3. PICK numbers \in SUBSET (DOMAIN snap[p].primary.lines) :
        /\ selection' = [selection EXCEPT ![p] = numbers]
        /\ pc' = [pc EXCEPT ![p] = IF numbers = {} THEN "failed" ELSE "remove-wait"]
    BY Zenon
<1>4. TypeOK'
    BY <1>2, <1>3 DEF TypeOK, FilesOK, Labels, Loaded, files
<1>5. pc'[p] \in {"failed", "remove-wait"} /\ selection'[p] = numbers
    BY <1>3, Zenon DEF TypeOK
<1>6. HoldsInv(p)'
    BY <1>1, <1>3, <1>5, Zenon DEF HoldsInv, Loaded, Critical, Updating, Opened, Removing
<1>7. PinInv(p)'
    BY <1>5, Zenon DEF ClientInv, PinInv, Adding
<1> QED BY <1>4, <1>5, <1>6, <1>7, Zenon DEF ClientInv, AddInv, TookInv, TrustInv

\* The mutex is taken before the file is touched.
LEMMA AcquireKeeps ==
    ASSUME HostsInv, NEW p \in Clients, Acquire(p)
    PROVE  TypeOK' /\ ClientInv(p)'
<1> USE DEF HostsInv, Acquire, Goto
<1>1. TypeOK'
    BY DEF TypeOK, FilesOK, Labels, Loaded, Critical, files, local
<1>2. \/ pc[p] = "add-wait" /\ pc'[p] = "add-load"
      \/ pc[p] = "remove-wait" /\ pc'[p] = "remove-load"
    BY Zenon DEF TypeOK
<1>3. HoldsInv(p)'
    BY <1>2, Zenon DEF ClientInv, HoldsInv, Loaded, Critical, Updating, Opened, Removing,
       local
<1>4. PinInv(p)'
    BY <1>2 DEF ClientInv, PinInv, Adding, local
<1> QED BY <1>1, <1>2, <1>3, <1>4, Zenon DEF ClientInv, AddInv, TookInv, TrustInv

\* A wait for the mutex that times out ends the start.
LEMMA TimeoutKeeps ==
    ASSUME HostsInv, NEW p \in Clients, AcquireTimesOut(p)
    PROVE  TypeOK' /\ ClientInv(p)'
<1>1. TypeOK' /\ pc'[p] = "failed"
    BY DEF HostsInv, AcquireTimesOut, Goto, TypeOK, FilesOK, Labels, files, local
<1> QED BY <1>1, EndedKeeps DEF HostsInv, AcquireTimesOut, local

\* The fresh snapshot is the one the user decided on, or the update is over.
LEMMA LoadFreshKeeps ==
    ASSUME HostsInv, NEW p \in Clients, LoadFresh(p)
    PROVE  TypeOK' /\ ClientInv(p)'
<1> USE DEF HostsInv, LoadFresh, Goto, Finish
<1>1. snap[p] \in Snapshot
    BY Zenon DEF ClientInv, HoldsInv, Loaded, Critical
<1>2. CASE /\ fresh' = [fresh EXCEPT ![p] = snap[p]]
           /\ pc' = [pc EXCEPT ![p] = IF pc[p] = "add-load" THEN "add-open" ELSE "remove-open"]
           /\ UNCHANGED mutex
  <2>1. TypeOK'
      BY <1>1, <1>2 DEF TypeOK, FilesOK, Labels, Loaded, Critical, Updating, Removing,
         files
  <2>2. /\ fresh'[p] = snap[p]
        /\ \/ pc[p] = "add-load" /\ pc'[p] = "add-open"
           \/ pc[p] = "remove-load" /\ pc'[p] = "remove-open"
      BY <1>2, Zenon DEF TypeOK
  <2>3. HoldsInv(p)'
      BY <1>2, <2>2, Zenon DEF ClientInv, HoldsInv, Loaded, Critical, Updating, Opened,
         Removing
  <2>4. PinInv(p)'
      BY <2>2 DEF ClientInv, PinInv, Adding
  <2> QED BY <2>1, <2>2, <2>3, <2>4, Zenon DEF ClientInv, AddInv, TookInv, TrustInv
<1>3. CASE pc' = [pc EXCEPT ![p] = "failed"] /\ mutex' = None /\ UNCHANGED fresh
  <2>1. TypeOK' /\ pc'[p] = "failed"
      BY <1>3, Zenon DEF TypeOK, FilesOK, Labels, files
  <2> QED BY <2>1, EndedKeeps, Zenon
<1> QED BY <1>2, <1>3, Zenon

\* A missing file is created empty; the handle is kept only if the file is
\* the fresh one, without a record of the host.
LEMMA OpenPrimaryKeeps ==
    ASSUME HostsInv, NEW p \in Clients, OpenPrimary(p)
    PROVE  TypeOK' /\ ClientInv(p)'
<1> DEFINE new == [Source EXCEPT !.stamp = primary.stamp + 1]
<1>1. /\ pc[p] = "add-open" /\ primary' = IF primary.exists THEN primary ELSE new
      /\ UNCHANGED <<other, backup, edits, local>>
    BY Zenon DEF OpenPrimary
<1>2. TypeOK /\ ClientInv(p)
    BY DEF HostsInv
<1>3. new \in SourceRecord /\ new.exists
  <2>1. primary.stamp + 1 \in Nat
      BY <1>2 DEF TypeOK, FilesOK, SourceRecord
  <2> QED BY <2>1, SourceFacts, Zenon DEF Source, SourceRecord
<1>4. primary' \in SourceRecord /\ primary'.exists
    BY <1>1, <1>2, <1>3, Zenon DEF TypeOK, FilesOK
<1>5. \/ /\ Resolve([primary |-> primary', other |-> fresh[p].other], presented[p]) = "Unknown"
         /\ pc' = [pc EXCEPT ![p] = "add-write"] /\ UNCHANGED mutex
      \/ pc' = [pc EXCEPT ![p] = "failed"] /\ mutex' = None
    BY Zenon DEF OpenPrimary, Goto, Finish
<1>6. TypeOK'
    BY <1>1, <1>2, <1>4, <1>5, Zenon DEF TypeOK, FilesOK, Labels, Loaded, Critical,
       Updating, local
<1>7. CASE /\ Resolve([primary |-> primary', other |-> fresh[p].other], presented[p]) = "Unknown"
           /\ pc' = [pc EXCEPT ![p] = "add-write"] /\ UNCHANGED mutex
  <2>1. pc'[p] = "add-write"
      BY <1>2, <1>7 DEF TypeOK
  <2>2. HoldsInv(p)'
      BY <1>1, <1>2, <1>4, <1>7, <2>1 DEF ClientInv, HoldsInv, Loaded, Critical, Updating,
         Opened, Removing, local
  <2>3. PinInv(p)'
      BY <1>1, <1>2, <2>1 DEF ClientInv, PinInv, Adding, local
  <2>4. NoRecord(primary'.lines, presented[p])
    <3>1. Range([primary |-> primary', other |-> fresh[p].other].primary.lines)
            = Range(primary'.lines)
        OBVIOUS
    <3>2. /\ \A line \in Range(primary'.lines) : line[1] \notin {"record", "malformed"}
          /\ <<"revoked", presented[p]>> \notin Range(primary'.lines)
        BY <1>7, <3>1, ResolveFacts, Zenon
    <3> QED BY <3>2, Zenon DEF NoRecord, Range
  <2>5. AddInv(p)'
      BY <1>1, <2>4 DEF AddInv, local
  <2> QED BY <1>6, <2>1, <2>2, <2>3, <2>5, Zenon DEF ClientInv, TookInv, TrustInv
<1>8. CASE pc' = [pc EXCEPT ![p] = "failed"] /\ mutex' = None
  <2>1. pc'[p] = "failed"
      BY <1>2, <1>8, Zenon DEF TypeOK
  <2> QED BY <1>1, <1>2, <1>6, <2>1, EndedKeeps DEF local
<1> QED BY <1>5, <1>7, <1>8

\* The record is appended.
LEMMA WriteRecordKeeps ==
    ASSUME HostsInv, NEW p \in Clients, WriteRecord(p)
    PROVE  TypeOK' /\ ClientInv(p)'
<1>1. /\ pc[p] = "add-write" /\ pc' = [pc EXCEPT ![p] = "add-verify"]
      /\ UNCHANGED <<other, backup, edits, mutex, local>>
    BY DEF WriteRecord, Goto
<1>2. TypeOK /\ ClientInv(p)
    BY DEF HostsInv
<1>3. primary \in SourceRecord /\ primary.lines \in Seq(Lines)
    BY <1>2, Zenon DEF TypeOK, FilesOK, SourceRecord
<1>4. <<"record", presented[p]>> \in Lines
    BY <1>2 DEF TypeOK, Lines
<1>5. primary' \in SourceRecord /\ primary'.exists = primary.exists
    BY <1>3, <1>4, AppendKeeps, WrittenFacts, Zenon DEF WriteRecord, AppendRecord
<1>6. primary.exists
    BY <1>1, <1>2, Zenon DEF ClientInv, HoldsInv, Opened
<1>7. TypeOK'
    BY <1>1, <1>2, <1>5, <1>6 DEF TypeOK, FilesOK, Labels, Loaded, Critical, Updating,
       local
<1>8. pc'[p] = "add-verify"
    BY <1>1, <1>2, Zenon DEF TypeOK
<1>9. HoldsInv(p)'
    BY <1>1, <1>2, <1>5, <1>6, <1>8, SMTT(30) DEF ClientInv, HoldsInv, Loaded, Critical,
       Updating, Opened, Removing, local
<1>10. PinInv(p)'
    BY <1>1, <1>2, <1>8, Zenon DEF ClientInv, PinInv, Adding, local
<1> QED BY <1>7, <1>8, <1>9, <1>10 DEF ClientInv, AddInv, TookInv, TrustInv

\* A write that fails leaves what it has written.
LEMMA WriteFailsKeeps ==
    ASSUME HostsInv, NEW p \in Clients, WriteFails(p)
    PROVE  TypeOK' /\ ClientInv(p)'
<1> USE DEF HostsInv, WriteFails, Goto, Finish
<1>1. primary' \in SourceRecord /\ primary'.exists
    BY TornFacts, ZenonT(30) DEF TypeOK, FilesOK, ClientInv, HoldsInv, Opened
<1>2. TypeOK' /\ pc'[p] = "failed"
    BY <1>1 DEF TypeOK, FilesOK, Labels, local
<1> QED BY <1>2, EndedKeeps DEF local

\* A record that is read back ends the update, with nothing pinned.
LEMMA VerifyAddedKeeps ==
    ASSUME HostsInv, NEW p \in Clients, VerifyAdded(p)
    PROVE  TypeOK' /\ ClientInv(p)'
<1>1. UNCHANGED <<files, edits, expected, snap, presented, fresh, selection, asked, took>>
    BY Zenon DEF VerifyAdded
<1>2. TypeOK /\ ClientInv(p)
    BY DEF HostsInv
<1>3. /\ mutex' = None
      /\ \/ /\ prompted' = [prompted EXCEPT ![p] = TRUE] /\ pin' = [pin EXCEPT ![p] = None]
            /\ pc' = [pc EXCEPT ![p] = "load"]
         \/ pc' = [pc EXCEPT ![p] = "failed"] /\ UNCHANGED <<pin, prompted>>
    BY ZenonT(30) DEF VerifyAdded, Goto, Finish
<1>4. FilesOK' /\ pc' \in [Clients -> Labels] /\ pin' \in [Clients -> Decision \cup {None}]
    BY <1>1, <1>2, <1>3 DEF TypeOK, FilesOK, Labels, files
<1>5. prompted' \in [Clients -> BOOLEAN]
    BY <1>2, <1>3, Zenon DEF TypeOK
<1>6. TypeOK'
    BY <1>1, <1>2, <1>4, <1>5, Zenon DEF TypeOK
<1>7. CASE pc' = [pc EXCEPT ![p] = "failed"] /\ UNCHANGED <<pin, prompted>>
  <2>1. pc'[p] = "failed"
      BY <1>2, <1>7, Zenon DEF TypeOK
  <2> QED BY <1>1, <1>2, <1>6, <1>7, <2>1, EndedKeeps, Zenon
<1>8. CASE pin' = [pin EXCEPT ![p] = None] /\ pc' = [pc EXCEPT ![p] = "load"]
  <2>1. pc'[p] = "load" /\ pin'[p] = None
      BY <1>2, <1>8, Zenon DEF TypeOK
  <2> QED BY <1>6, <2>1, Zenon DEF ClientInv, HoldsInv, PinInv, AddInv, TookInv, TrustInv,
             Loaded, Critical, Updating, Opened, Removing, Adding
<1> QED BY <1>3, <1>7, <1>8, Zenon

\* A removal goes on as long as the file is the one the user reviewed.
LEMMA RemovalGoesOn ==
    ASSUME HostsInv, NEW p \in Clients, OpenSource(p) \/ CheckFinal(p)
    PROVE  TypeOK' /\ ClientInv(p)'
<1>1. UNCHANGED <<files, edits, local>>
    BY Zenon DEF OpenSource, CheckFinal
<1>2. TypeOK /\ ClientInv(p)
    BY DEF HostsInv
<1>3. \/ pc' = [pc EXCEPT ![p] = "failed"] /\ mutex' = None
      \/ /\ pc[p] = "remove-open" /\ pc' = [pc EXCEPT ![p] = "remove-check"]
         /\ primary.exists /\ UNCHANGED mutex
      \/ /\ pc[p] = "remove-check" /\ pc' = [pc EXCEPT ![p] = "remove-replace"]
         /\ UNCHANGED mutex
    BY ZenonT(30) DEF OpenSource, CheckFinal, Goto, Finish
<1>4. TypeOK'
    BY <1>1, <1>2, <1>3, Zenon DEF TypeOK, FilesOK, Labels, Loaded, Critical, Updating,
       Removing, files, local
<1>5. CASE pc' = [pc EXCEPT ![p] = "failed"] /\ mutex' = None
  <2>1. pc'[p] = "failed"
      BY <1>2, <1>5, Zenon DEF TypeOK
  <2> QED BY <1>1, <1>2, <1>4, <2>1, EndedKeeps DEF local
<1>6. CASE /\ pc[p] \in {"remove-open", "remove-check"}
           /\ pc'[p] \in {"remove-check", "remove-replace"}
           /\ primary.exists /\ UNCHANGED mutex
  <2>1. HoldsInv(p)'
      BY <1>1, <1>2, <1>6, Zenon DEF ClientInv, HoldsInv, Loaded, Critical, Updating,
         Opened, Removing, files, local
  <2>2. PinInv(p)'
      BY <1>1, <1>2, <1>6, Zenon DEF ClientInv, PinInv, Adding, local
  <2> QED BY <1>4, <1>6, <2>1, <2>2, Zenon DEF ClientInv, AddInv, TookInv, TrustInv
<1>7. pc[p] = "remove-check" => primary.exists
    BY <1>2, Zenon DEF ClientInv, HoldsInv, Opened
<1> QED BY <1>2, <1>3, <1>5, <1>6, <1>7 DEF TypeOK

\* File.Replace leaves the retained lines, and the file of that moment as the
\* backup.
LEMMA ReplaceKeeps ==
    ASSUME HostsInv, NEW p \in Clients, Replace(p)
    PROVE  TypeOK' /\ ClientInv(p)'
<1>1. TypeOK /\ ClientInv(p)
    BY DEF HostsInv
<1>2. pc[p] = "remove-replace" /\ fresh[p] = snap[p] /\ snap[p] \in Snapshot /\ primary.exists
    BY <1>1, Zenon DEF Replace, ClientInv, HoldsInv, Loaded, Critical, Updating, Removing,
       Opened
<1> DEFINE lines == Retained(snap[p].primary.lines, selection[p])
           open == /\ snap[p].primary.open /\ lines # <<>>
                   /\ Len(snap[p].primary.lines) \notin selection[p]
<1>3. /\ primary' = Written(primary, lines, open) /\ pc' = [pc EXCEPT ![p] = "remove-verify"]
      /\ took' = [took EXCEPT ![p] = Range(primary.lines) \ Range(lines)]
      /\ backup' = primary.lines
      /\ UNCHANGED <<other, edits, mutex, expected, snap, presented, pin, prompted, fresh,
                     selection, asked>>
    BY <1>2, Zenon DEF Replace, Goto
<1>4. primary \in SourceRecord /\ primary.lines \in Seq(Lines)
    BY <1>1, Zenon DEF TypeOK, FilesOK, SourceRecord
<1>5. lines \in Seq(Lines)
    BY <1>2, SnapshotFacts, RetainedFacts, Zenon
<1>6. open \in BOOLEAN
    BY <1>2, Zenon DEF Snapshot, SourceRecord
<1>7. primary' \in SourceRecord /\ primary'.exists
    BY <1>2, <1>3, <1>4, <1>5, <1>6, WrittenFacts, ZenonT(30)
<1>8. Range(primary.lines) \ Range(lines) \in SUBSET Lines
    BY <1>4, SMTT(30) DEF Range
<1> HIDE DEF lines, open
<1>9. TypeOK'
    BY <1>1, <1>3, <1>4, <1>7, <1>8, Zenon DEF TypeOK, FilesOK, Labels, Loaded, Critical,
       Updating, Removing
<1>10. pc'[p] = "remove-verify" /\ took'[p] = Range(primary.lines) \ Range(lines)
    BY <1>1, <1>3, Zenon DEF TypeOK
<1>11. HoldsInv(p)'
    BY <1>1, <1>2, <1>3, <1>7, <1>10, Zenon DEF ClientInv, HoldsInv, Loaded, Critical,
       Updating, Opened, Removing
<1>12. PinInv(p)'
    BY <1>1, <1>3, <1>10, Zenon DEF ClientInv, PinInv, Adding, Removing
<1>13. TookInv(p)'
    BY <1>3, <1>4, <1>10, Zenon DEF TookInv, TakenOut, lines
<1> QED BY <1>9, <1>10, <1>11, <1>12, <1>13, Zenon DEF ClientInv, AddInv, TrustInv

\* A removal that fails before the file is replaced.
LEMMA RemoveFailsKeeps ==
    ASSUME HostsInv, NEW p \in Clients, RemoveFails(p)
    PROVE  TypeOK' /\ ClientInv(p)'
<1>1. TypeOK' /\ pc'[p] = "failed"
    BY DEF HostsInv, RemoveFails, Goto, Finish, TypeOK, FilesOK, Labels, files, local
<1> QED BY <1>1, EndedKeeps, Zenon DEF HostsInv, RemoveFails, local

\* A removal succeeds only if the backup holds what the user reviewed.
LEMMA VerifyRemovedKeeps ==
    ASSUME HostsInv, NEW p \in Clients, VerifyRemoved(p)
    PROVE  TypeOK' /\ ClientInv(p)'
<1>1. TypeOK /\ ClientInv(p)
    BY DEF HostsInv
<1>2. pc[p] = "remove-verify" /\ UNCHANGED <<files, edits, local>>
    BY Zenon DEF VerifyRemoved
<1>3. /\ mutex' = None
      /\ \/ pc' = [pc EXCEPT ![p] = "failed"]
         \/ pc' = [pc EXCEPT ![p] = "removed"] /\ backup = fresh[p].primary.lines
    BY Zenon DEF VerifyRemoved, Goto, Finish
<1>4. TypeOK'
    BY <1>1, <1>2, <1>3, Zenon DEF TypeOK, FilesOK, Labels, Loaded, files, local
<1>5. CASE pc' = [pc EXCEPT ![p] = "failed"]
  <2>1. pc'[p] = "failed"
      BY <1>1, <1>5, Zenon DEF TypeOK
  <2> QED BY <1>1, <1>2, <1>4, <2>1, EndedKeeps DEF local
<1>6. CASE pc' = [pc EXCEPT ![p] = "removed"] /\ backup = fresh[p].primary.lines
  <2>1. pc'[p] = "removed" /\ fresh[p] = snap[p]
      BY <1>1, <1>2, <1>6, Zenon DEF TypeOK, ClientInv, HoldsInv, Updating, Removing
  <2>2. HoldsInv(p)'
      BY <1>1, <1>2, <2>1, Zenon DEF ClientInv, HoldsInv, Loaded, Critical, Updating,
         Opened, Removing, local
  <2>3. PinInv(p)'
      BY <1>1, <1>2, <2>1, Zenon DEF ClientInv, PinInv, Adding, local
  <2>4. TookInv(p)'
      BY <1>1, <1>2, <1>6, <2>1, Zenon DEF ClientInv, TookInv, local
  <2> QED BY <1>4, <2>1, <2>2, <2>3, <2>4, Zenon DEF ClientInv, AddInv, TrustInv
<1> QED BY <1>3, <1>5, <1>6

\* A crash leaves the file as the write was cut off.
LEMMA CrashKeeps ==
    ASSUME HostsInv, NEW p \in Clients, Crash(p)
    PROVE  TypeOK' /\ ClientInv(p)'
<1>1. TypeOK /\ ClientInv(p)
    BY DEF HostsInv
<1>2. /\ pc' = [pc EXCEPT ![p] = "crashed"] /\ UNCHANGED <<other, backup>>
      /\ mutex' = IF mutex = p THEN None ELSE mutex
    BY DEF Crash, Goto
<1>3. FilesOK'
  <2>1. CASE pc[p] = "add-write"
    <3>1. primary' \in Torn(primary, presented[p])
        BY <2>1, Zenon DEF Crash
    <3>2. primary.exists /\ primary \in SourceRecord /\ presented[p] \in Keys \cup {NoKey}
        BY <1>1, <2>1 DEF ClientInv, HoldsInv, Opened, TypeOK, FilesOK
    <3>3. primary' \in SourceRecord /\ primary'.exists
        BY <3>1, <3>2, TornFacts, ZenonT(30)
    <3> QED BY <1>1, <1>2, <3>3 DEF TypeOK, FilesOK
  <2>2. CASE pc[p] # "add-write"
      BY <1>1, <1>2, <2>2 DEF Crash, TypeOK, FilesOK
  <2> QED BY <2>1, <2>2, Zenon
<1>4. TypeOK' /\ pc'[p] = "crashed"
    BY <1>1, <1>2, <1>3 DEF Crash, TypeOK, Labels
<1>5. pin'[p] = None
    BY <1>1 DEF Crash, TypeOK
<1> QED BY <1>4, <1>5 DEF ClientInv, HoldsInv, PinInv, AddInv, TookInv, TrustInv, Adding,
           Loaded, Critical, Updating, Opened, Removing

-----------------------------------------------------------------------------
\* A step of a connection never deletes the user's file.
LEMMA FileStays ==
    ASSUME HostsInv, NEW p \in Clients, Client(p) \/ Crash(p), primary.exists
    PROVE  primary'.exists
<1>1. primary \in SourceRecord /\ primary.lines \in Seq(Lines)
    BY Zenon DEF HostsInv, TypeOK, FilesOK, SourceRecord
<1>2. presented[p] \in Keys \cup {NoKey}
    BY DEF HostsInv, TypeOK
<1>3. CASE WriteRecord(p) \/ Replace(p)
  <2>1. PICK lines, open : primary' = Written(primary, lines, open)
      BY <1>3, Zenon DEF WriteRecord, AppendRecord, Replace
  <2> QED BY <1>1, <2>1, Zenon DEF Written, SourceRecord
<1>4. CASE WriteFails(p) \/ Crash(p)
  <2>1. primary' = primary \/ primary' \in Torn(primary, presented[p])
      BY <1>4, Zenon DEF WriteFails, Crash
  <2> QED BY <1>1, <1>2, <2>1, TornFacts, Zenon
<1>5. CASE OpenPrimary(p)
    BY <1>5, Zenon DEF OpenPrimary
<1>6. CASE Outside(p)
    BY <1>6, Zenon DEF Outside, LoadStore, HostKeyReceived, Cancel, ConnectOnce,
       TrustAndConnect, Choose, AcquireTimesOut, files
<1>7. CASE Acquire(p) \/ LoadFresh(p) \/ VerifyAdded(p) \/ OpenSource(p) \/ CheckFinal(p)
             \/ RemoveFails(p) \/ VerifyRemoved(p)
    BY <1>7, Zenon DEF Acquire, LoadFresh, VerifyAdded, OpenSource, CheckFinal,
       RemoveFails, VerifyRemoved, files
<1> QED BY <1>3, <1>4, <1>5, <1>6, <1>7, Zenon DEF Client, Outside

\* A step of a connection keeps the invariant.
LEMMA ClientKeeps ==
    ASSUME HostsInv, NEW p \in Clients, Client(p) \/ Crash(p)
    PROVE  HostsInv'
<1>1. TypeOK' /\ ClientInv(p)'
    BY LoadStoreKeeps, HostKeyKeeps, CancelKeeps, ConnectOnceKeeps, TrustKeeps,
       ChooseKeeps, AcquireKeeps, TimeoutKeeps, LoadFreshKeeps, OpenPrimaryKeeps,
       WriteRecordKeeps, WriteFailsKeeps, VerifyAddedKeeps, RemovalGoesOn, ReplaceKeeps,
       RemoveFailsKeeps, VerifyRemovedKeeps, CrashKeeps, Zenon DEF Client
<1>2. ASSUME NEW q \in Clients \ {p}
      PROVE  ClientInv(q)'
  <2>1. TypeOK /\ ClientInv(q)
      BY Zenon DEF HostsInv
  <2>2. Same(q)
      BY <2>1, OthersSame, Zenon
  <2>3. pc[q] \in Critical => UNCHANGED <<mutex, primary, backup>>
      BY MutexGuards, Zenon
  <2>4. primary.exists => primary'.exists
      BY FileStays, Zenon
  <2>5. {"add-write", "remove-verify"} \subseteq Critical
      BY Zenon DEF Critical, Updating, Removing
  <2> QED BY <2>1, <2>2, <2>3, <2>4, <2>5, StandingStill, Zenon
<1> QED BY <1>1, <1>2, Zenon DEF HostsInv

\* Another program's edit keeps it: the handle of an addition does not let the
\* file be replaced, and a removal compares the backup afterwards.
LEMMA EditKeeps ==
    ASSUME HostsInv, Edit \/ Revoke
    PROVE  HostsInv'
<1>1. EditLines \subseteq Lines
    BY DEF EditLines, Lines
<1>2. /\ primary \in SourceRecord /\ primary.lines \in Seq(Lines)
      /\ other \in SourceRecord /\ other.lines \in Seq(Lines)
    BY Zenon DEF HostsInv, TypeOK, FilesOK, SourceRecord
<1>3. UNCHANGED <<backup, mutex, pc, local>>
    BY Zenon DEF Edit, Revoke
<1>4. /\ primary' \in SourceRecord /\ other' \in SourceRecord
      /\ primary' = primary \/ (primary.exists /\ primary'.exists /\ Replaceable)
  <2>1. CASE Edit
    <3>1. PICK line \in EditLines : primary' = Saved(primary, line)
        BY <2>1 DEF Edit
    <3>2. primary' \in SourceRecord /\ primary'.exists = primary.exists
        BY <1>1, <1>2, <3>1, AppendKeeps, WrittenFacts, Zenon DEF Saved
    <3> QED BY <1>2, <2>1, <3>2, Zenon DEF Edit
  <2>2. CASE Revoke
    <3>1. PICK k \in Keys : other' = Saved(other, <<"revoked", k>>)
        BY <2>2 DEF Revoke
    <3>2. <<"revoked", k>> \in Lines
        BY DEF Lines
    <3>3. other' \in SourceRecord
        BY <1>2, <3>1, <3>2, AppendKeeps, WrittenFacts, ZenonT(30) DEF Saved
    <3> QED BY <1>2, <2>2, <3>3, Zenon DEF Revoke
  <2> QED BY <2>1, <2>2
<1>5. TypeOK'
    BY <1>3, <1>4 DEF HostsInv, TypeOK, FilesOK, local
<1>6. ASSUME NEW q \in Clients
      PROVE  ClientInv(q)'
  <2>1. Same(q)
      BY <1>3, Zenon DEF Same, local
  <2>2. pc[q] = "add-write" => primary' = primary
      BY <1>4 DEF Replaceable
  <2> QED BY <1>3, <1>4, <2>1, <2>2, StandingStill DEF HostsInv
<1> QED BY <1>5, <1>6 DEF HostsInv

\* The invariant holds at first.
LEMMA InitHosts == Init => HostsInv
<1> SUFFICES ASSUME Init
             PROVE  HostsInv
    OBVIOUS
<1>1. primary \in SourceRecord /\ (~primary.exists => primary.lines = <<>>)
  <2>1. ASSUME NEW l \in InitialLines, NEW u \in BOOLEAN
        PROVE  /\ [Source EXCEPT !.lines = l, !.open = u] \in SourceRecord
               /\ [Source EXCEPT !.lines = l, !.open = u].exists
    <3>1. l \in Seq(Lines) /\ 0 \in Nat
        BY HostsAssumption
    <3> QED BY <3>1, Zenon DEF Source, SourceRecord
  <2>2. CASE primary = Missing
      BY <2>2, SourceFacts, Zenon
  <2>3. CASE \E l \in InitialLines, u \in BOOLEAN :
               primary = [Source EXCEPT !.lines = l, !.open = u]
      BY <2>1, <2>3, Zenon
  <2> QED BY <2>2, <2>3, Zenon DEF Init
<1>2. /\ other = Source /\ backup = None /\ mutex = None
      /\ pc = [p \in Clients |-> "load"]
      /\ snap = [p \in Clients |-> None] /\ fresh = [p \in Clients |-> None]
      /\ presented = [p \in Clients |-> NoKey] /\ pin = [p \in Clients |-> None]
      /\ prompted = [p \in Clients |-> FALSE]
      /\ selection = [p \in Clients |-> {}]
      /\ asked = [p \in Clients |-> None] /\ took = [p \in Clients |-> {}]
    BY Zenon DEF Init
<1>3. FilesOK
    BY <1>1, <1>2, SourceFacts, Zenon DEF FilesOK
<1>4. TypeOK
    BY <1>2, <1>3, Zenon DEF TypeOK, Labels
<1>5. \A p \in Clients : ClientInv(p)
    BY <1>2 DEF ClientInv, HoldsInv, PinInv, AddInv, TookInv, TrustInv, Loaded, Critical,
       Updating, Opened, Removing, Adding
<1> QED BY <1>4, <1>5 DEF HostsInv

\* Every step keeps it.
LEMMA HostsStep == HostsInv /\ [Next]_vars => HostsInv'
<1> SUFFICES ASSUME HostsInv, [Next]_vars
             PROVE  HostsInv'
    OBVIOUS
<1>1. CASE Next
    BY <1>1, ClientKeeps, EditKeeps, ZenonT(30) DEF Next
<1>2. CASE UNCHANGED vars
  <2>1. UNCHANGED <<primary, other, backup, mutex, pc, local>>
      BY <1>2, Zenon DEF vars, files
  <2>2. TypeOK'
      BY <2>1, Zenon DEF local, HostsInv, TypeOK, FilesOK
  <2>3. ASSUME NEW q \in Clients PROVE ClientInv(q)'
    <3>1. Same(q)
        BY <2>1, Zenon DEF Same, local
    <3> QED BY <2>1, <3>1, StandingStill, Zenon DEF HostsInv
  <2> QED BY <2>2, <2>3, Zenon DEF HostsInv
<1> QED BY <1>1, <1>2

\* The invariant of the known-hosts file and its connections.
THEOREM HostsInvariant == Spec => []HostsInv
BY InitHosts, HostsStep, PTL DEF Spec

-----------------------------------------------------------------------------
\* A removal that reports success took exactly the selected records, for any
\* connections, files and edits (RemovePrimaryUserRecords).
THEOREM RemovalsAreExact == Spec => []RemovalExact
<1>1. HostsInv => RemovalExact
  <2> SUFFICES ASSUME HostsInv, NEW p \in Clients, pc[p] = "removed"
               PROVE  took[p] = {snap[p].primary.lines[i] : i \in selection[p]}
                                  \ Range(Retained(snap[p].primary.lines, selection[p]))
      BY Zenon DEF RemovalExact
  <2>1. /\ snap[p] \in Snapshot /\ selection[p] \subseteq DOMAIN snap[p].primary.lines
        /\ took[p] = TakenOut(snap[p].primary.lines,
                              Retained(snap[p].primary.lines, selection[p]))
      BY Zenon DEF HostsInv, ClientInv, HoldsInv, TookInv, Loaded
  <2> QED BY <2>1, SnapshotFacts, TakenOutExact, Zenon
<1> QED BY <1>1, HostsInvariant, PTL

\* No line leaves the user's file unless File.Replace has put it into the
\* backup, whichever step of an addition or a removal fails or is cut off.
THEOREM LinesAreKept == Spec => LinesSurvive
<1> DEFINE Kept == /\ \A line \in Range(primary.lines) :
                        line \in Range(primary'.lines)
                                   \cup (IF backup' = None THEN {} ELSE Range(backup'))
                   /\ \/ Range(primary.lines) \subseteq Range(primary'.lines)
                      \/ \E p \in Clients : pc[p] = "remove-replace" /\ pc'[p] = "remove-verify"
<1>1. HostsInv /\ [Next]_vars => [Kept]_vars
  <2> SUFFICES ASSUME HostsInv, Next
               PROVE  Kept
      BY Zenon
  <2>1. primary \in SourceRecord /\ primary.lines \in Seq(Lines)
      BY Zenon DEF HostsInv, TypeOK, FilesOK, SourceRecord
  <2>2. ASSUME NEW p \in Clients, Replace(p)
        PROVE  Kept
    <3>1. backup' = primary.lines /\ pc[p] = "remove-replace" /\ pc'[p] = "remove-verify"
        BY <2>2, Zenon DEF Replace, Goto, HostsInv, TypeOK
    <3>2. backup' # None
        BY <2>1, <3>1, HostsAssumption
    <3> QED BY <3>1, <3>2, ZenonT(30)
  <2>3. CASE Range(primary.lines) \subseteq Range(primary'.lines)
      BY <2>3, Zenon
  <2>4. ASSUME NEW p \in Clients, OpenPrimary(p)
        PROVE  Range(primary.lines) \subseteq Range(primary'.lines)
    <3>1. CASE primary.exists
        BY <2>4, <3>1, Zenon DEF OpenPrimary
    <3>2. CASE ~primary.exists
        BY <3>2 DEF HostsInv, TypeOK, FilesOK, Range
    <3> QED BY <3>1, <3>2
  <2>5. ASSUME NEW p \in Clients, WriteRecord(p) \/ WriteFails(p) \/ Crash(p)
        PROVE  Range(primary.lines) \subseteq Range(primary'.lines)
    <3>1. presented[p] \in Keys \cup {NoKey} /\ <<"record", presented[p]>> \in Lines
        BY DEF HostsInv, TypeOK, Lines
    <3>2. CASE WriteRecord(p)
        BY <2>1, <3>1, <3>2, AppendKeeps, WrittenFacts, Zenon DEF WriteRecord,
           AppendRecord
    <3>3. CASE WriteFails(p) \/ Crash(p)
      <4>1. primary' = primary \/ primary' \in Torn(primary, presented[p])
          BY <3>3, Zenon DEF WriteFails, Crash
      <4> QED BY <2>1, <3>1, <4>1, TornFacts, Zenon
    <3> QED BY <2>5, <3>2, <3>3
  <2>6. CASE Edit
    <3>1. PICK line \in EditLines : primary' = Saved(primary, line)
        BY <2>6, Zenon DEF Edit
    <3>2. line \in Lines
        BY DEF EditLines, Lines
    <3> QED BY <2>1, <2>3, <3>1, <3>2, AppendKeeps, WrittenFacts, Zenon DEF Saved
  <2>7. CASE Revoke
      BY <2>3, <2>7, Zenon DEF Revoke
  <2>8. ASSUME NEW p \in Clients, Client(p) \/ Crash(p)
        PROVE  Kept
    <3>1. CASE Outside(p)
        BY <2>3, <3>1, Zenon DEF Outside, LoadStore, HostKeyReceived, Cancel, ConnectOnce,
           TrustAndConnect, Choose, AcquireTimesOut, files
    <3>2. CASE Acquire(p) \/ LoadFresh(p) \/ VerifyAdded(p) \/ OpenSource(p) \/ CheckFinal(p)
                 \/ RemoveFails(p) \/ VerifyRemoved(p)
        BY <2>3, <3>2, Zenon DEF Acquire, LoadFresh, VerifyAdded, OpenSource, CheckFinal,
           RemoveFails, VerifyRemoved, files
    <3> QED BY <2>2, <2>3, <2>4, <2>5, <2>8, <3>1, <3>2, Zenon DEF Client, Outside
  <2> QED BY <2>6, <2>7, <2>8, ZenonT(30) DEF Next
<1> QED BY <1>1, HostsInvariant, PTL DEF Spec, LinesSurvive

\* No key is used or recorded that was not earned, for any connections, keys
\* and edits between load and use (OnHostKeyReceived, AddPrimaryUserRecord).
THEOREM TrustIsSound == Spec => TrustSound
<1>1. HostsInv => TrustEarned
    BY Zenon DEF HostsInv, ClientInv, TrustInv, TrustEarned
<1> DEFINE First ==
      \A p \in Clients : pc[p] = "add-write" /\ pc'[p] = "add-verify" =>
          \A i \in DOMAIN primary.lines : /\ primary.lines[i][1] \notin {"record", "malformed"}
                                          /\ primary.lines[i] # <<"revoked", presented[p]>>
<1>2. HostsInv => First
    BY Zenon DEF HostsInv, ClientInv, AddInv, NoRecord
<1> QED BY <1>1, <1>2, HostsInvariant, PTL DEF TrustSound, FirstKeyOnly
=============================================================================
