------------------------------ MODULE MCScreen ------------------------------
(***************************************************************************)
(* The families of functions, with screens of three or four columns and    *)
(* two or three rows and two rows of scrollback.                           *)
(***************************************************************************)
EXTENDS Screen

MCSize(width, height) == [width |-> width, height |-> height]

\* A terminal after lines of text, which scroll when they are more than fit.
RECURSIVE Typed(_, _)
Typed(t, lines) ==
    IF t.stuck \/ lines = <<>> THEN t
    ELSE Typed(WriteToBuffer(DoLineFeed(t, TRUE, FALSE), Head(lines)), Tail(lines))

MCLines == << <<"b", "c">>, <<"d", "e", "f">>, <<"W", "g">>, <<"h">>, <<"i", "j", "W">> >>
Filled(width, height, lines) ==
    Typed(WriteToBuffer(Create(MCSize(width, height)), <<"a">>), SubSeq(MCLines, 1, lines - 1))

MCRepertoire ==
    [write |-> {"glyph", "CR", "CUP", "DECDWL", "DECSLRM", "IRM", "DECAWM", "DECLRMM", "DECSTBM"},
     scroll |-> {"LF", "RI", "SU", "IL", "CUP", "DECSTBM", "glyph", "ED2", "view", "key"},
     edit |-> {"index", "DECIC", "ICH", "ECH", "EL", "ED", "step", "DECLRMM", "DECSLRM", "DECALN", "DECDWL"},
     reflow |-> {"resize", "glyph", "LF", "CUP", "CR", "view", "ED3"},
     alternate |-> {"enter", "leave", "DECSC", "DECRC", "DECOM", "DECSTBM", "glyph", "DECSTR", "RIS",
                    "restart", "resize", "CUP"}]
MCDepth == [write |-> 4, scroll |-> 4, edit |-> 3, reflow |-> 4, alternate |-> 4]
MCScreens ==
    [write |-> {<<3, 2, 4>>, <<4, 2, 1>>},
     scroll |-> {<<3, 3, 4>>, <<3, 3, 6>>},
     edit |-> {<<4, 2, 3>>, <<4, 2, 4>>},
     reflow |-> {<<3, 2, 2>>, <<3, 2, 5>>},
     alternate |-> {<<3, 3, 6>>}]
MCStarts == [f \in DOMAIN MCScreens |-> {Filled(s[1], s[2], s[3]) : s \in MCScreens[f]}]
MCSizes == {MCSize(2, 2), MCSize(3, 2), MCSize(4, 3)}
MCTexts == {<<"x", "W">>, <<"W", "y">>, <<"x", "y", "z">>}
=============================================================================
