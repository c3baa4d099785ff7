--------------------------- MODULE TerminalStream ---------------------------
(***************************************************************************)
(* From the bytes of a session to what the terminal is told to do: the     *)
(* UTF-8 decoder, the VT parser and the macro buffer composed, driven by   *)
(* BeginDocumentStream, WriteDocumentStream and EndDocumentStream          *)
(* (VT7.Native/surface.cpp).  The document's calls belong to one thread,   *)
(* so each is one action; a transport cuts the bytes into chunks as it     *)
(* likes.  The histories start again whenever decoder and parser are both  *)
(* between sequences.                                                      *)
(***************************************************************************)
EXTENDS StateMachine, Utf8TerminalStream

CONSTANTS
    Families,     \* the kinds of streams looked at
    Chunks,       \* the chunks a stream of each kind may be made of
    MaxBytes      \* bytes of each kind between two quiet points

VARIABLES
    family,       \* the kind of stream a session produces
    terminal,     \* parser, modes, macro buffer, what the engine heard
    decoder,      \* Utf8TerminalStream::_state
    ended,        \* _snapshot.ended
    lastError,    \* _snapshot.lastError
    broken,       \* a write failed, so the output pump writes no more
    received,     \* history: bytes accepted since the last quiet point
    written,      \* history: characters handed to the parser since then
    begun,        \* history: nothing was written since the stream began
    modes         \* history: the parser's modes and macros at that point

vars == <<family, terminal, decoder, ended, lastError, broken, received, written, begun, modes>>

RECURSIVE ProcessText(_, _)
RECURSIVE RunMacro(_, _, _)

\* MacroBuffer::InvokeMacro.  The buffer a hard reset released lives until the
\* invocation that runs in it is over.
MacroLeft(t) ==
    LET left == LeaveMacro(t.buffer)
    IN  [t EXCEPT !.buffer = IF left.depth = 0 /\ ~t.allocated THEN EmptyMacros ELSE left]
InvokeMacro(t, id) ==
    LET entered == [t EXCEPT !.buffer = EnterMacro(@, id),
                             !.spent = IF t.buffer.depth = 0 THEN 0 ELSE @]
    IN  IF MayInvoke(t.buffer, id) THEN MacroLeft(RunMacro(entered, id, 1)) ELSE t

\* ProcessString, a character at a time, with _ExecuteCsiCompleteCallback: in
\* Ground a character that is not actionable belongs to a printed run.
ProcessOne(t, c) ==
    IF t.state = "Ground" /\ c \notin ActionableFromGround
    THEN ActionPrint(t, c) ELSE ProcessCharacter(t, c)
Complete(t) ==
    IF t.callback = Omitted THEN t ELSE InvokeMacro([t EXCEPT !.callback = Omitted], t.callback)

ProcessText(t, text) ==
    IF text = <<>> \/ t.callback # Omitted THEN t
    ELSE ProcessText(Complete(ProcessOne(t, Head(text))), Tail(text))

\* A macro's characters are read from the live buffer, one after the other.
RunMacro(t, id, k) ==
    LET text == t.buffer.macros[id]
        u == [t EXCEPT !.spent = @ + 1, !.longest = Max({@, t.spent + 1})]
    IN  IF k > Len(text) THEN t ELSE RunMacro(Complete(ProcessOne(u, text[k])), id, k + 1)

-----------------------------------------------------------------------------
Preamble == <<"ESC", "[", "?", "1", "0", "4", "9", "l", "ESC", "[", "?", "2", "0", "2", "6",
              "l", "ESC", "[", "0", "m", "ESC", "[", "3", "J", "ESC", "[", "2", "J",
              "ESC", "[", "H">>

\* HardResetWithoutErase, then the text every stream begins with.
ResetTerminalKeepingState(t) == ProcessText(HardReset(t), Preamble)
ResetTerminal(t) == ProcessText(HardReset(ResetState(t)), Preamble)

\* Between sequences: the members that the next ESC clears before anything
\* reads them are forgotten, and the history starts again.
Quiet(t) ==
    [FreshParser EXCEPT !.state = t.state, !.ansi = t.ansi, !.acceptC1 = t.acceptC1,
                        !.allocated = t.allocated, !.buffer = t.buffer,
                        !.dangling = t.dangling, !.longest = t.longest]
ModesOf(t) == [ansi |-> t.ansi, acceptC1 |-> t.acceptC1, macros |-> t.allocated]
Settled == terminal.state = "Ground" /\ decoder = NoPartials

Init ==
    /\ family \in Families
    /\ terminal = Quiet(ResetTerminal(FreshParser))
    /\ decoder = NoPartials /\ ended = FALSE /\ lastError = "ok" /\ broken = FALSE
    /\ received = <<>> /\ written = <<>> /\ begun = TRUE
    /\ modes = ModesOf(terminal)

\* BeginDocumentStream.
Begin ==
    /\ terminal' = Quiet(ResetTerminal(terminal))
    /\ decoder' = NoPartials /\ ended' = FALSE /\ lastError' = "ok" /\ broken' = FALSE
    /\ received' = <<>> /\ written' = <<>> /\ begun' = TRUE
    /\ modes' = ModesOf(terminal')
    /\ UNCHANGED family

\* What the histories are counted from.
Since(history) == IF Settled THEN <<>> ELSE history
Forget ==
    /\ begun' = FALSE
    /\ modes' = IF Settled THEN ModesOf(terminal) ELSE modes

\* Utf8TerminalStream::Write with TerminalCore as its writer.
Write ==
    /\ ~ended /\ ~broken
    /\ \E bytes \in Chunks[family] :
          LET decoded == u8u16(bytes, decoder)
          IN  /\ Len(Since(received)) + Len(bytes) <= MaxBytes[family]
              /\ decoder' = decoded.state
              /\ terminal' = ProcessText(IF Settled THEN Quiet(terminal) ELSE terminal,
                                         decoded.text)
              /\ received' = Since(received) \o bytes
              /\ written' = Since(written) \o decoded.text
    /\ lastError' = "ok"
    /\ Forget
    /\ UNCHANGED <<family, ended, broken>>

\* TerminalCore throws inside the write: the decoder keeps its state, the
\* parser has seen a part of the text.  The output pump stops writing.
WriteFails ==
    /\ ~ended /\ ~broken
    /\ \E bytes \in Chunks[family] :
          LET text == u8u16(bytes, decoder).text
          IN  \E k \in 0..(Len(text) - 1) :
                 /\ Len(Since(received)) + Len(bytes) <= MaxBytes[family]
                 /\ terminal' = ProcessText(IF Settled THEN Quiet(terminal) ELSE terminal,
                                            SubSeq(text, 1, k))
                 /\ written' = Since(written) \o SubSeq(text, 1, k)
    /\ received' = Since(received)
    /\ lastError' = "failed" /\ broken' = TRUE
    /\ Forget
    /\ UNCHANGED <<family, decoder, ended>>

\* EndDocumentStream with eofKind 0, once per stream.
End ==
    /\ ~ended
    /\ ended' = TRUE
    /\ lastError' = IF decoder.partials # <<>> THEN "incomplete" ELSE "ok"
    /\ decoder' = IF decoder.partials # <<>> THEN NoPartials ELSE decoder
    /\ UNCHANGED <<family, terminal, broken, received, written, begun, modes>>

\* EndDocumentStream with eofKind 1.
Abandon ==
    /\ ~ended
    /\ ended' = TRUE /\ decoder' = NoPartials
    /\ UNCHANGED <<family, terminal, lastError, broken, received, written, begun, modes>>

Next == Begin \/ Write \/ WriteFails \/ End \/ Abandon
Spec == Init /\ [][Next]_vars

-----------------------------------------------------------------------------
\* What a text of characters means, read off the text as a whole.

\* C1 controls as the parser's mode takes them.
Normal(text) ==
    FlattenSeq([i \in 1..Len(text) |->
        CASE text[i] \in C1 /\ terminal.acceptC1 -> <<"ESC", C1To7Bit(text[i])>>
          [] text[i] \in C1 /\ ~terminal.acceptC1 -> <<>>
          [] OTHER -> <<text[i]>>])

Between(text, i, j) == {text[k] : k \in (i + 1)..(j - 1)}
LastEscape(text, i) == Max({0} \cup {j \in 1..(i - 1) : text[j] = "ESC"})
\* text[k] is the character that follows the ESC at j.
Introduces(text, j, k) ==
    /\ 0 < j /\ j < k /\ text[j] = "ESC"
    /\ Between(text, j, k) \subseteq C0 \cup {"DEL"}

Pieces(text, separator) ==
    FoldLeft(LAMBDA pieces, c : IF c = separator THEN Append(pieces, <<>>)
                                ELSE [pieces EXCEPT ![Len(pieces)] = Append(@, c)],
             <<<<>>>>, text)
Number(digits) ==
    IF digits = <<>> THEN Omitted
    ELSE Min({MAX_PARAMETER_VALUE,
              FoldLeft(LAMBDA n, c : 10 * n + DigitValue[c], 0, digits)})
FirstOf(s, n) == SubSeq(s, 1, Min({n, Len(s)}))
Parameters(text) ==
    LET pieces == FirstOf(Pieces(text, ";"), MAX_PARAMETER_COUNT)
        parts(i) == FirstOf(Pieces(pieces[i], ":"), 1 + MAX_SUBPARAMETER_COUNT)
    IN  IF text = <<>> THEN <<>>
        ELSE [i \in 1..Len(pieces) |-> [k \in 1..Len(parts(i)) |-> Number(parts(i)[k])]]

\* The header of a control sequence without its controls: an optional marker,
\* parameters, intermediates.  The result is none or one of its readings.
Header(text, markers) ==
    LET plain == SelectSeq(text, LAMBDA c : c \notin C0 \cup {"DEL"})
        m == IF plain # <<>> /\ plain[1] \in markers THEN 1 ELSE 0
        n == Max({m} \cup {i \in (m + 1)..Len(plain) : plain[i] \in Digits \cup {";", ":"}})
        p == SubSeq(plain, m + 1, n)
    IN  {h \in {[marker |-> SubSeq(plain, 1, m), text |-> p,
                 intermediates |-> SubSeq(plain, n + 1, Len(plain))]} :
            /\ ToSet(p) \subseteq Digits \cup {";", ":"}
            /\ ToSet(SubSeq(plain, n + 1, Len(plain))) \subseteq Intermediate}
Identifier(header, final) ==
    LET collected == header.marker \o header.intermediates
    IN  IF Len(collected) > MAX_INTERMEDIATES THEN <<"spoiled", final>>
        ELSE Append(collected, final)
Final(c) == c \notin C0 \cup FromAnywhere \cup Intermediate \cup IntermediateInvalid
                     \cup {"DEL", "ESC"}

\* The CSI sequences that end at position i of the text.
CsiAt(text, i) ==
    LET j == LastEscape(text, i)
    IN  FlattenSeq([k \in 1..Len(text) |->
            IF /\ k < i /\ text[k] = "[" /\ Introduces(text, j, k) /\ Final(text[i])
               /\ Between(text, k, i) \cap FromAnywhere = {}
            THEN SetToSeq({[kind |-> "csi", id |-> Identifier(h, text[i]),
                            parameters |-> Parameters(h.text)] :
                              h \in Header(SubSeq(text, k + 1, i - 1), PrivateMarker)})
            ELSE <<>>])
All(At(_, _), text) == FlattenSeq([i \in 1..Len(text) |-> At(text, i)])
Heard(kinds) == SelectSeq(terminal.heard, LAMBDA e : e.kind \in kinds)

\* The OSC strings that end at position i: with BEL, or with ESC \.
OscAt(text, i) ==
    LET st == text[i] = "\\" /\ i > 1 /\ text[i - 1] = "ESC"
        e  == IF st THEN i - 1 ELSE i           \* one past the string's last character
        j  == LastEscape(text, e)
        body(k) == SubSeq(text, k + 1, e - 1)
        semi(k) == Min({Len(body(k)) + 1} \cup {n \in 1..Len(body(k)) : body(k)[n] = ";"})
    IN  IF ~st /\ text[i] # "BEL" THEN <<>>
        ELSE FlattenSeq([k \in 1..Len(text) |->
            IF /\ k < e /\ text[k] = "]" /\ Introduces(text, j, k)
               /\ Between(text, k, e) \cap (FromAnywhere \cup {"BEL"}) = {}
            THEN <<[kind |-> "osc",
                    parameter |-> ValueOr(Number(SelectSeq(SubSeq(body(k), 1, semi(k) - 1),
                                                           LAMBDA c : c \in Digits)), 0),
                    text |-> SelectSeq(SubSeq(body(k), semi(k) + 1, Len(body(k))),
                                       LAMBDA c : c \notin C0)]>>
            ELSE <<>>])

\* A device control string whose final character is at f and starts a handler.
DcsHeader(text, f) ==
    LET j == LastEscape(text, f)
    IN  {h \in UNION {Header(SubSeq(text, k + 1, f - 1), {}) :
                         k \in {n \in 1..(f - 1) : text[n] = "P" /\ Introduces(text, j, n)}} :
            /\ ":" \notin ToSet(h.text) /\ Final(text[f])
            /\ Between(text, j, f) \cap FromAnywhere = {}
            /\ Handler(Identifier(h, text[f])) = "string"}
DcsAt(text, i) ==
    LET started == \E f \in 1..(i - 1) : /\ DcsHeader(text, f) # {}
                                        /\ LastEscape(text, f) = LastEscape(text, i)
                                        /\ Between(text, f, i) \cap FromAnywhere = {}
    IN  IF started
        THEN CASE text[i] \in DcsPassThroughInvalid -> <<>>
               [] text[i] \in FromAnywhere \cup {"ESC"} -> <<[kind |-> "data", char |-> "ESC"]>>
               [] OTHER -> <<[kind |-> "data", char |-> text[i]]>>
        ELSE SetToSeq({[kind |-> "dcs", id |-> Identifier(h, text[i]),
                        parameters |-> [n \in 1..Len(Parameters(h.text)) |->
                                           Parameters(h.text)[n][1]]] :
                          h \in DcsHeader(text, i)})

-----------------------------------------------------------------------------
\* The stream was read in one pair of modes, as ANSI, with no macro in it.
OneReading ==
    /\ terminal.ansi /\ ~terminal.allocated /\ modes = ModesOf(terminal)
    /\ \A i \in 1..Len(terminal.heard) :
          ~(terminal.heard[i].kind = "dcs" /\ Handler(terminal.heard[i].id) = "macro")
\* A sub parameter follows a parameter beyond the limit (see the README).
LateSubParameter(text) ==
    \E i \in 1..Len(text) : text[i] = ":" /\
        Len(SelectSeq(SubSeq(text, LastEscape(text, i) + 1, i), LAMBDA c : c = ";"))
            >= MAX_PARAMETER_COUNT
WellFormed(bytes) == ~Contains(Convert(bytes).text, Replacement)

(* SplitHarmless: however a transport cuts well-formed UTF-8 into writes,   *)
(* what u8u16 has handed to the terminal is what converting all the bytes  *)
(* at once would give, what it keeps back is exactly the last code point's *)
(* beginning, and End reports no incomplete character without one.         *)
SplitHarmless ==
    WellFormed(received) /\ ~broken =>
        /\ written = Convert(received).text
        /\ ~ended => decoder.partials = Convert(received).open
        /\ lastError = "incomplete" => Convert(received).open # <<>>

(* CsiMeansItsText: the control sequences the engine is given by the       *)
(* parser's state-by-state transitions, with identifier, parameters and    *)
(* sub parameters, are those of the text as a whole, each exactly once and *)
(* in order, with controls executed in the middle, sequences interrupted   *)
(* and limits exceeded.                                                    *)
CsiMeansItsText ==
    OneReading /\ ~LateSubParameter(Normal(written)) =>
        Heard({"csi"}) = All(CsiAt, Normal(written))

(* OscMeansItsText: an operating system command reaches the engine exactly *)
(* when its terminator does, with the number and the string between, and   *)
(* never with anything an interrupted earlier one left behind.             *)
OscMeansItsText == OneReading => Heard({"osc"}) = All(OscAt, Normal(written))

(* DcsMeansItsText: a device control string's handler hears each character *)
(* of its string and one ESC for its end, however the string ends (texts   *)
(* without control characters; DcsControlsIgnored is about those).         *)
DcsMeansItsText ==
    OneReading /\ ToSet(written) \cap (C0 \cup {"DEL"}) = {} =>
        Heard({"dcs", "data"}) = All(DcsAt, Normal(written))

(* SequencesMeanTheirText: what the engine hears of a stream is determined *)
(* by its text alone, for all three kinds of sequences together. (The end  *)
(* of a stream leaves the parser alone.)                                   *)
SequencesMeanTheirText ==
    ~ended => CsiMeansItsText /\ OscMeansItsText /\ DcsMeansItsText

(* DcsControlsIgnored: the comment on _EventDcsParam says that it ignores  *)
(* C0 controls and DEL, so that the string is the same with and without.   *)
(* It does not hold, and no run checks it.                                 *)
DcsControlsIgnored == OneReading => Heard({"dcs", "data"}) = All(DcsAt, Normal(written))

(* Resynchronises: whatever an open stream has brought, CAN or the string  *)
(* terminator ESC \ brings the parser back: the letter that follows is     *)
(* printed.                                                                *)
Resynchronises ==
    ~ended => \A ending \in {<<"CAN">>, <<"ESC", "\\">>} :
        IsSuffix(<<[kind |-> "print", char |-> "a"]>>,
                 ProcessText(terminal, ending \o <<"a">>).heard)

(* HandlerAlive: no string handler is called after the macro buffer it     *)
(* writes to was released by a hard reset or a new stream, and no macro's  *)
(* text is replaced while ProcessString is still reading it.               *)
HandlerAlive == ~terminal.dangling

(* MacrosBounded: the space account of the macro buffer is the space the   *)
(* macros hold, within its limit, and one invocation never runs through    *)
(* more characters than the buffer may hold, macros that invoke themselves *)
(* included.                                                               *)
MacrosBounded ==
    LET m == terminal.buffer
    IN  /\ m.spaceUsed = SpaceHeld(m) /\ m.spaceUsed <= MAX_SPACE
        /\ m.depth = 0 /\ m.invoked = 0
        /\ terminal.longest < MAX_SPACE

(* MacrosSafe: macros neither outlive their buffer nor outgrow it.         *)
MacrosSafe == HandlerAlive /\ MacrosBounded

(* RestartClean: whatever the previous session left half-finished, a new   *)
(* stream begins between sequences, with an empty decoder, no macros and   *)
(* no C1 parsing.                                                          *)
RestartClean ==
    begun => /\ terminal.state = "Ground" /\ terminal.handler = "none"
             /\ ~terminal.acceptC1 /\ ~terminal.allocated
             /\ decoder = NoPartials

(* FreshStream: the parser of a new stream is that of a new terminal.  The *)
(* comment on ResetState wants no bad state left over for the next input;  *)
(* no reset sets the parser's ANSI mode.  No run checks it.                *)
FreshStream == begun => terminal.ansi

(* SplitIrrelevant: every split of every corpus, malformed bytes included, *)
(* gives what one-shot decoding gives.  It does not hold for malformed     *)
(* bytes, and no run checks it.                                            *)
SplitIrrelevant ==
    ~broken /\ ~ended /\ decoder.partials = <<>> =>
        written = MultiByteToWideChar(received)
=============================================================================
