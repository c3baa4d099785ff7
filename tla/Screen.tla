------------------------------- MODULE Screen -------------------------------
(***************************************************************************)
(* The terminal as a state machine: one step is one control function or    *)
(* printed glyph of the output stream, one resize, or one move of the view *)
(* by the user. The surface takes the terminal's write lock around each of *)
(* them, so that steps do not overlap. A run looks at several families of  *)
(* functions, each from screens that a few writes have already filled.     *)
(***************************************************************************)
EXTENDS AdaptDispatch

CONSTANTS
    Repertoire,  \* for each family, the functions its behaviours use
    Depth,       \* for each family, the number of steps
    Starts,      \* for each family, the terminals it starts from
    Sizes,       \* the viewport sizes of a resize
    Texts        \* the texts that printing is compared for

VARIABLES
    family,
    steps,
    term,   \* the terminal
    op,     \* the last function
    entry   \* the cursor in the page when the alternate screen was entered

vars == <<family, steps, term, op, entry>>

\* The cursor's place in the page.
Place(t) == [x |-> Buffer(t).x, y |-> Buffer(t).y - Top(t), delayed |-> Buffer(t).delayed]

Init ==
    /\ family \in DOMAIN Repertoire
    /\ term \in Starts[family]
    /\ steps = 0
    /\ op = "none"
    /\ entry = Place(term)

\* A step of the family that leaves the terminal as t.
Do(name, t) ==
    /\ name \in Repertoire[family] /\ steps < Depth[family]
    /\ steps' = steps + 1
    /\ op' = name
    /\ term' = t
    /\ UNCHANGED family

Keep(name, t) == Do(name, t) /\ UNCHANGED entry

Glyph == \E g \in {"a", "W"} : Keep("glyph", WriteToBuffer(term, <<g>>))
CR == Keep("CR", CursorMovePosition(term, Unchanged, Absolute(1), TRUE))
LF == \E withReturn \in BOOLEAN : Keep("LF", DoLineFeed(term, withReturn, FALSE))
RI == Keep("RI", ReverseLineFeed(term))
Index == Keep("index", BackIndex(term)) \/ Keep("index", ForwardIndex(term))
CursorStep == \E rows, columns \in {-1, 0, 1} :
    /\ (rows = 0) # (columns = 0)
    /\ Keep("step", CursorMovePosition(term, Forward(rows), Forward(columns), TRUE))
CUP == \E line \in {1, Height(term)}, column \in {1, 2, Width(term)} :
    Keep("CUP", CursorPosition(term, line, column))
DECSC == Keep("DECSC", CursorSaveState(term))
DECRC == Keep("DECRC", CursorRestoreState(term))
SU == \E delta \in {-1, 1, 2} : Keep("SU", ScrollMovement(term, delta))
IL == \E delta \in {-1, 1} : Keep("IL", InsertDeleteLine(term, delta))
DECIC == \E delta \in {-1, 1} : Keep("DECIC", InsertDeleteColumn(term, delta))
ICH == \E delta \in {-1, 1} : Keep("ICH", InsertDeleteCharacter(term, delta))
ECH == Keep("ECH", EraseCharacters(term, 1))
EL == \E eraseType \in {"FromBeginning", "ToEnd", "All"} : Keep("EL", EraseInLine(term, eraseType))
ED == \E eraseType \in {"FromBeginning", "ToEnd"} : Keep("ED", EraseInDisplay(term, eraseType))
ED2 == Keep("ED2", EraseInDisplay(term, "All"))
ED3 == Keep("ED3", EraseInDisplay(term, "Scrollback"))
DECDWL == \E doubleWidth \in BOOLEAN : Keep("DECDWL", SetLineRendition(term, doubleWidth))
DECSTBM == \E top \in 0..2 : Keep("DECSTBM", DoSetTopBottomScrollingMargins(term, top, top + 1, TRUE))
DECSLRM == \E left \in 1..2 : Keep("DECSLRM", SetLeftRightScrollingMargins(term, left, left + 1))
IRM == \E enable \in BOOLEAN : Keep("IRM", [term EXCEPT !.insert = enable])
DECOM == \E enable \in BOOLEAN : Keep("DECOM", SetOriginMode(term, enable))
DECAWM == \E enable \in BOOLEAN : Keep("DECAWM", SetAutoWrapMode(term, enable))
DECLRMM == \E enable \in BOOLEAN : Keep("DECLRMM", SetLeftRightMarginMode(term, enable))
DECALN == Keep("DECALN", ScreenAlignmentPattern(term))
DECSTR == Keep("DECSTR", SoftReset(term))
RIS == Keep("RIS", HardReset(term, TRUE))
Restart == Keep("restart", HardReset(term, FALSE))

EnterAlternate ==
    /\ Do("enter", SetAlternateScreenBufferMode(term, TRUE))
    /\ entry' = IF term.inAlt THEN entry ELSE Place(term)
LeaveAlternate == Keep("leave", SetAlternateScreenBufferMode(term, FALSE))

Resize == \E size \in Sizes : Keep("resize", UserResize(term, size))
View == \E top \in 0..term.top : Keep("view", UserScrollViewport(term, top))
Key == Keep("key", TrySnapOnInput(term))

Next ==
    \/ Glyph \/ CR \/ LF \/ RI \/ Index \/ CursorStep \/ CUP \/ DECSC \/ DECRC
    \/ SU \/ IL \/ DECIC \/ ICH \/ ECH \/ EL \/ ED \/ ED2 \/ ED3
    \/ DECDWL \/ DECSTBM \/ DECSLRM \/ IRM \/ DECOM \/ DECAWM \/ DECLRMM
    \/ DECALN \/ DECSTR \/ RIS \/ Restart
    \/ EnterAlternate \/ LeaveAlternate \/ Resize \/ View \/ Key

Spec == Init /\ [][Next]_vars

-----------------------------------------------------------------------------
\* Properties

\* What a row shows, and the rows from one to another.
Shown(row) == [cells |-> row.cells, doubleWidth |-> row.doubleWidth]
Rows(b, from, to) == [i \in 1..to - from |-> Shown(GetRow(b, from + i - 1))]
History(t) == Rows(t.main, 0, t.top)
Page(t) == Rows(Buffer(t), Top(t), Bottom(t))

\* How the output stream is cut into writes does not matter to the screen:
\* _WriteToBuffer leaves the same screen, cursor and pending wrap for a text
\* as for its two parts one after the other, whatever the modes, the margins
\* and the width of the line. Its loop always ends, also for a wide glyph on a
\* line that is too narrow for it.
PartsPrintAs(whole, text) ==
    \A cut \in 1..Len(text) - 1 :
        whole = WriteToBuffer(WriteToBuffer(term, SubSeq(text, 1, cut)),
                              SubSeq(text, cut + 1, Len(text)))
PrintSound ==
    /\ ~term.stuck
    /\ family = "write" =>
         \A text \in Texts :
            LET whole == WriteToBuffer(term, text)
            IN  ~whole.stuck /\ PartsPrintAs(whole, text)

\* A wide glyph is whole or gone: no function that overwrites, erases, shifts
\* or copies cells leaves one of its halves behind.
WideWhole ==
    \A b \in {term.main, term.alt} : \A r \in DOMAIN b.rows :
        LET cells == b.rows[r].cells
        IN  \A c \in DOMAIN cells :
              /\ cells[c] = Lead => c + 1 \in DOMAIN cells /\ cells[c + 1] = Trail
              /\ cells[c] = Trail => c - 1 \in DOMAIN cells /\ cells[c - 1] = Lead

\* Printing and erasing treat glyphs as wholes: text prints the same however it
\* is cut, to an end, and no half of a glyph is left.
GlyphsSound == PrintSound /\ WideWhole

\* No function takes the cursor out of the page, whether it moves the cursor,
\* the viewport, the rows or the buffer under it. A resize of the alternate
\* screen is the exception, ResizeTraditional leaves the cursor alone, until
\* the main screen has been resized too.
InPage(t) ==
    LET b == Buffer(t) IN b.x \in 0..b.width - 1 /\ b.y \in Top(t)..Bottom(t) - 1
CursorStaysInPage ==
    [][InPage(term) /\ term.deferred = <<>> /\ term'.deferred = <<>> => InPage(term')]_vars

\* Scrollback is what the page has shown: rows enter it from the top of the
\* page in order and as they were, whichever of its ways _DoLineFeed scrolls
\* and wherever ED 2 moves the page, and leave it oldest first when it is full.
\* Only ED 2 takes rows back into the page, empty ones, and a single glyph in
\* the first cell of the buffer, which it takes for no text.
OnlyFirstCell(b) ==
    LastTextRow(b, 0, b.height - 1) = 0 /\ MeasureRight(GetRow(b, 0)) = 1
Empty(row) == \A c \in DOMAIN row.cells : row.cells[c] = Blank
ScrollbackIsHistory ==
    [][op' \in {"glyph", "LF", "RI", "SU", "IL", "ED", "ED2", "index", "DECIC", "ICH", "EL"}
       /\ ~(op' = "ED2" /\ OnlyFirstCell(term.main)) =>
        LET rows == History(term) \o Page(term)
            history == History(term')
        IN  term.inAlt \/ ~InPage(term) \/ \E lost \in 0..Len(rows) - Len(history) :
              /\ history = SubSeq(rows, lost + 1, lost + Len(history))
              /\ \A i \in lost + Len(history) + 1..term.top : op' = "ED2" /\ Empty(rows[i])
              /\ lost > 0 => Len(history) = ScrollbackLines]_vars

\* Scrolling inside margins leaves the rows outside them as they are, also
\* when _DoLineFeed moves the viewport and copies the rows below the margins
\* back. Rows whose last column only pads are the exception: CopyFrom leaves
\* that column as it was.
Plain(b) == \A r \in DOMAIN b.rows : ~b.rows[r].doubleBytePadded /\ ~b.rows[r].doubleWidth
RegionKept ==
    [][op' \in {"LF", "RI", "SU", "IL"} /\ Plain(Buffer(term)) =>
        LET m == Margins(FitMargins(term))
        IN  \A i \in 1..Height(term) :
              ~InRows(m, Top(term) + i - 1) => Page(term')[i] = Page(term)[i]]_vars

\* Output does not move a view that the user has scrolled back: it goes on
\* showing the same rows of the scrollback until they are lost.
ViewStays ==
    [][(op' \in {"glyph", "LF", "ED2", "SU", "IL", "RI"} /\ ~term.inAlt /\ term.scrollOffset > 0) =>
        LET from == VisibleStartIndex(term)
        IN  \E lost \in 0..Len(History(term)) :
              LET first == Greatest(from, lost)
                  seen == Rows(term.main, first, term.top)
              IN  /\ VisibleStartIndex(term') = first - lost
                  /\ first - lost + Len(seen) <= term'.top
                  /\ seen = Rows(term'.main, first - lost, first - lost + Len(seen))]_vars

\* What has scrolled off is kept in order, and so is the user's view of it.
HistoryKept == ScrollbackIsHistory /\ ViewStays

\* The text of a buffer's first rows: joined where they wrapped, without the
\* blanks that end a line and the empty lines at the end.
RECURSIVE Trimmed(_)
Trimmed(text) ==
    IF text # <<>> /\ text[Len(text)] = Blank THEN Trimmed(SubSeq(text, 1, Len(text) - 1)) ELSE text
RECURSIVE TextFrom(_, _, _, _)
TextFrom(b, y, end, line) ==
    IF y = end THEN Trimmed(line)
    ELSE LET row == GetRow(b, y)
             joined == line \o GetText(row, 0, MeasureRight(row))
         IN  IF row.wrapForced THEN TextFrom(b, y + 1, end, joined)
             ELSE Trimmed(joined) \o <<"/">> \o TextFrom(b, y + 1, end, <<>>)
RECURSIVE Lined(_)
Lined(text) ==
    IF text # <<>> /\ text[Len(text)] = "/" THEN Lined(SubSeq(text, 1, Len(text) - 1)) ELSE text
TextOf(b, end) == Lined(TextFrom(b, 0, end, <<>>))

\* A resize reflows the text down to the end of the viewport and loses none of
\* it while it fits: the lines are the same, wherever they wrap. Of text that
\* does not fit one piece is kept, unless the copy was broken off before it
\* reached the cursor's row again. A padding column with the cursor in it
\* becomes a blank.
TextKept(copied, old, new) ==
    /\ copied.newY <= copied.height /\ copied.newY < copied.newYLimit => new = old
    /\ copied.newY <= copied.newYLimit =>
         \E lost \in 0..Len(old) - Len(new) : SubSeq(old, lost + 1, lost + Len(new)) = new
ReflowKeepsText ==
    [][(op' = "resize" /\ ~term.inAlt /\ term'.size # term.size
        /\ ~GetRow(term.main, term.main.y).doubleBytePadded) =>
        TextKept(Copied(term.main, BufferSize(term'.size),
                        [mutable |-> term.top, visible |-> term.top], term.size.height),
                 TextOf(term.main, term.top + term.size.height),
                 TextOf(term'.main, term'.main.height))]_vars

\* Leaving the alternate screen brings back the page and the cursor of the
\* main screen, whatever was written, reset or saved meanwhile. Origin mode,
\* whose margins both screens share, and a resize are the exceptions.
AlternateRestores ==
    [][(op' = "leave" /\ term.inAlt /\ term.deferred = <<>> /\ ~term'.origin) =>
        Page(term') = Rows(term.main, term.top, term.top + term.size.height)
        /\ Place(term') = entry]_vars

\* ED 3 clears the scrollback and leaves the page as it is: ClearScrollback
\* moves the rows of the page to the start of the storage.
EraseScrollbackKeepsPage ==
    [][op' = "ED3" /\ Plain(Buffer(term)) => Page(term') = Page(term)]_vars
=============================================================================
