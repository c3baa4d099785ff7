-------------------------- MODULE MCTerminalStream --------------------------
EXTENDS TerminalStream

Singles(characters) == {<<c>> : c \in characters}

MCFamilies == {"control", "strings", "utf8", "modes", "macro"}

\* control: CSI sequences; strings: OSC and DCS strings; utf8: code
\* points of every length, cut anywhere, and SOS; modes: VT52 and C1; macro:
\* definitions in text and hex, with repeats, invocation and RIS inside them.
MCChunks ==
    [control |-> Singles({"ESC", "[", "1", "9", ";", ":", "?", "$", "m", "LF", "CAN"}),
     strings |-> Singles({"ESC", "]", "P", "1", ";", "q", "$", "\\", "BEL", "CAN"}),
     utf8 |-> UNION {[1..n -> {"a", "C3", "E2", "F0", "9B"}] : n \in 1..2} \cup {<<"ESC", "X">>},
     modes |-> Singles({"ESC", "C2", "9B", "m", "Y", "<", "a"})
                 \cup {<<"ESC", "[", "?", "2", "l">>, <<"ESC", " ", "7">>},
     macro |-> {<<"ESC", "P", "!", "z">>, <<"ESC", "P", ";", ";", "1", "!", "z">>,
                <<"1", "B", "5", "B", "2", "A", "7", "A">>, <<"1", "B", "6", "3">>,
                <<"1", "B", "5", "0", "2", "1", "7", "A">>, <<"!", "4", ";", "6", "1">>,
                <<";", "ESC", "\\">>, <<"ESC", "\\">>, <<"ESC", "[", "*", "z">>}]

MCMaxBytes == [control |-> 6, strings |-> 6, utf8 |-> 5, modes |-> 7, macro |-> 17]
=============================================================================
