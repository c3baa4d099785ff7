------------------------- MODULE Utf8TerminalStream -------------------------
(***************************************************************************)
(* The decoder between a transport's bytes and the parser                  *)
(* (VT7.Native/utf8_terminal_stream.hpp over src/inc/til/u8u16convert.h).  *)
(* A byte is an ASCII character's token, a lead byte "C2", "C3", "E2" or   *)
(* "F0" of a sequence of two, three or four, the continuation byte "9B",   *)
(* or "FF", which no sequence holds.                                       *)
(***************************************************************************)
EXTENDS Naturals, Sequences, SequencesExt, FiniteSetsExt

\* lengths[byte >> 3]; a continuation byte and an invalid one have none.
CodePointLength(b) ==
    CASE b \in {"C2", "C3"} -> 2 [] b = "E2" -> 3 [] b = "F0" -> 4
      [] b \in {"9B", "FF"} -> 0 [] OTHER -> 1

Replacement == "U+FFFD"
Scalar(sequence) ==
    CASE sequence[1] = "C2" -> "U+009B" [] sequence[1] = "C3" -> "U+00DB"
      [] sequence[1] = "E2" -> "U+26DB" [] sequence[1] = "F0" -> "U+1B6DB"

\* One byte of a conversion: text so far, and the sequence still open.
ConvertByte(conversion, b) ==
    LET longer == Append(conversion.open, b)
        text == IF conversion.open = <<>> THEN conversion.text
                ELSE Append(conversion.text, Replacement)
    IN  IF b = "9B" /\ conversion.open # <<>>
        THEN IF Len(longer) < CodePointLength(longer[1])
             THEN [conversion EXCEPT !.open = longer]
             ELSE [open |-> <<>>, text |-> Append(conversion.text, Scalar(longer))]
        ELSE CASE CodePointLength(b) = 0 -> [open |-> <<>>, text |-> Append(text, Replacement)]
               [] CodePointLength(b) = 1 -> [open |-> <<>>, text |-> Append(text, b)]
               [] OTHER -> [open |-> <<b>>, text |-> text]
Convert(bytes) ==
    LET upTo[k \in 0..Len(bytes)] == IF k = 0 THEN [open |-> <<>>, text |-> <<>>]
                                     ELSE ConvertByte(upTo[k - 1], bytes[k])
    IN  upTo[Len(bytes)]

\* MultiByteToWideChar with flags 0: what is not UTF-8 becomes U+FFFD.
MultiByteToWideChar(bytes) ==
    LET c == Convert(bytes)
    IN  IF c.open = <<>> THEN c.text ELSE Append(c.text, Replacement)

NoPartials == [partials |-> <<>>, want |-> 0]    \* have is the partials' length

\* The part of u8u16 after the retained bytes are dealt with: the last
\* sequence of the input is kept back when it is too short.
SplitTail(bytes) ==
    LET back == Max({1} \cup {i \in 1..Len(bytes) : bytes[i] # "9B"})
        length == Len(bytes) - back + 1
        want == CodePointLength(bytes[back])
    IN  IF bytes = <<>> THEN [text |-> <<>>, state |-> NoPartials]
        ELSE IF want > length
        THEN [text |-> MultiByteToWideChar(SubSeq(bytes, 1, back - 1)),
              state |-> [partials |-> SubSeq(bytes, back, Len(bytes)), want |-> want - length]]
        ELSE [text |-> MultiByteToWideChar(bytes), state |-> NoPartials]

\* u8u16: retained bytes are completed with the next ones whatever they are.
u8u16DropsPartials(bytes, state) == SplitTail(bytes)
u8u16(bytes, state) ==
    LET copyable == Min({state.want, Len(bytes)})
        filled == state.partials \o SubSeq(bytes, 1, copyable)
        tail == SplitTail(SubSeq(bytes, copyable + 1, Len(bytes)))
    IN  CASE state.partials = <<>> -> SplitTail(bytes)
          [] state.partials # <<>> /\ copyable < state.want ->
                 [text |-> <<>>, state |-> [partials |-> filled, want |-> state.want - copyable]]
          [] OTHER -> [tail EXCEPT !.text = MultiByteToWideChar(filled) \o @]
=============================================================================
