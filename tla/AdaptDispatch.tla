---------------------------- MODULE AdaptDispatch ----------------------------
(***************************************************************************)
(* What the control functions of terminal/adapter/adaptDispatch.cpp do to  *)
(* the screen, with the viewport, the alternate buffer and the resize of   *)
(* cascadia/TerminalCore. Each operator takes the terminal and returns it  *)
(* changed; the terminal is a record of the two buffers, the viewport of   *)
(* the main one, the margins, the modes and the saved cursors.             *)
(* Colours, character sets, tab stops, images and further pages are left   *)
(* out.                                                                    *)
(***************************************************************************)
EXTENDS Reflow

CONSTANTS
    ScrollbackLines,  \* rows the main buffer keeps above the viewport
    MaxWrites         \* turns the print loop may take before it counts as stuck

NoMargins == [top |-> 0, bottom |-> 0, left |-> 0, right |-> 0]
InitialCursorState == [row |-> 1, column |-> 1, delayed |-> FALSE, origin |-> FALSE]
BufferSize(size) == [width |-> size.width, height |-> size.height + ScrollbackLines]

\* Terminal::Create
Create(size) ==
    [main |-> NewBuffer(BufferSize(size)), alt |-> NewBuffer(size), inAlt |-> FALSE,
     top |-> 0, size |-> size, altSize |-> size, deferred |-> <<>>, scrollOffset |-> 0,
     margins |-> NoMargins, origin |-> FALSE, insert |-> FALSE, allowDECSLRM |-> FALSE,
     autoWrap |-> TRUE, saved |-> [alt \in BOOLEAN |-> InitialCursorState], stuck |-> FALSE]

\* The active page: the buffer in use and the viewport on it.
Buffer(t) == IF t.inAlt THEN t.alt ELSE t.main
WithBuffer(t, b) == IF t.inAlt THEN [t EXCEPT !.alt = b] ELSE [t EXCEPT !.main = b]
Top(t) == IF t.inAlt THEN 0 ELSE t.top
Height(t) == IF t.inAlt THEN t.altSize.height ELSE t.size.height
Bottom(t) == Top(t) + Height(t)
Width(t) == Buffer(t).width
MoveCursor(t, x, y) == WithBuffer(t, SetPosition(Buffer(t), x, y))
NoDelayedWrap(t) == WithBuffer(t, ResetDelayEOLWrap(Buffer(t)))

-----------------------------------------------------------------------------
\* Margins. Reading them resets the ones the page has no room for.

GetVerticalMargins(t) ==
    LET last == Height(t) - 1
        set == t.margins.top < last /\ t.margins.top < t.margins.bottom
    IN  [top |-> Top(t) + (IF set THEN t.margins.top ELSE 0),
         bottom |-> Top(t) + (IF set THEN Least(t.margins.bottom, last) ELSE last)]

GetHorizontalMargins(t, width) ==
    LET last == width - 1
        set == t.margins.left < last /\ t.margins.left < t.margins.right
    IN  [left |-> IF set THEN t.margins.left ELSE 0,
         right |-> IF set THEN Least(t.margins.right, last) ELSE last]

FitVertical(t) ==
    IF t.margins.top >= Height(t) - 1
    THEN [t EXCEPT !.margins.top = 0, !.margins.bottom = 0] ELSE t
FitHorizontal(t, width) ==
    IF t.margins.left >= width - 1
    THEN [t EXCEPT !.margins.left = 0, !.margins.right = 0] ELSE t
FitMargins(t) == FitHorizontal(FitVertical(t), Width(t))

Margins(t) ==
    LET v == GetVerticalMargins(t)
        h == GetHorizontalMargins(t, Width(t))
    IN  [top |-> v.top, bottom |-> v.bottom, left |-> h.left, right |-> h.right]

InRows(m, y) == m.top <= y /\ y <= m.bottom
InColumns(m, x) == m.left <= x /\ x <= m.right

-----------------------------------------------------------------------------
\* The cursor

Absolute(value) == [value |-> value - 1, absolute |-> TRUE]
Forward(value) == [value |-> value, absolute |-> FALSE]
Unchanged == Forward(0)

\* A coordinate that does not start beyond a margin does not pass it.
KeptInside(value, from, low, high) ==
    LET lowered == IF from >= low THEN Greatest(value, low) ELSE value
    IN  IF from <= high THEN Least(lowered, high) ELSE lowered

MoveInMargins(t, m, row, col, clamps) ==
    LET b == Buffer(t)
        y == IF clamps /\ InColumns(m, b.x) THEN KeptInside(row, b.y, m.top, m.bottom) ELSE row
        x == IF clamps /\ InRows(m, y) THEN KeptInside(col, b.x, m.left, m.right) ELSE col
    IN  MoveCursor(t, ClampWithinLine(b, x, y), y)

MovePosition(t, m, rowOffset, colOffset, clampInMargins) ==
    LET baseRow == IF ~rowOffset.absolute THEN Buffer(t).y ELSE IF t.origin THEN m.top ELSE Top(t)
        baseCol == IF ~colOffset.absolute THEN Buffer(t).x ELSE IF t.origin THEN m.left ELSE 0
    IN  MoveInMargins(t, m, Clamp(baseRow + rowOffset.value, Top(t), Bottom(t) - 1),
                      Clamp(baseCol + colOffset.value, 0, Width(t) - 1), clampInMargins \/ t.origin)

CursorMovePosition(t0, rowOffset, colOffset, clampInMargins) ==
    LET t == FitMargins(t0)
    IN  MovePosition(t, Margins(t), rowOffset, colOffset, clampInMargins)

CursorPosition(t, line, column) == CursorMovePosition(t, Absolute(line), Absolute(column), FALSE)

CursorSaveState(t0) ==
    LET t == IF t0.origin THEN FitMargins(t0) ELSE t0
        b == Buffer(t)
        m == Margins(t)
    IN  [t EXCEPT !.saved[t.inAlt] =
            [row |-> 1 + b.y - (IF t.origin THEN m.top ELSE Top(t)),
             column |-> 1 + b.x - (IF t.origin THEN m.left ELSE 0),
             delayed |-> b.delayed, origin |-> t.origin]]

Redelayed(t, delayed) ==
    IF delayed THEN WithBuffer(t, [Buffer(t) EXCEPT !.delayed = TRUE]) ELSE t

CursorRestoreState(t) ==
    LET state == t.saved[t.inAlt]
    IN  Redelayed(CursorPosition([t EXCEPT !.origin = state.origin], state.row, state.column),
                  state.delayed)

-----------------------------------------------------------------------------
\* Scrolling a rectangle of the page

ScrollRectVertically(t, left, top, right, bottom, delta) ==
    LET b == Buffer(t)
        distance == Least(IF delta < 0 THEN -delta ELSE delta, bottom - top)
        moved == IF delta > 0 THEN distance ELSE -distance
        from == IF delta > 0 THEN top ELSE top + distance
        height == bottom - top - distance
        scrolled ==
            IF height <= 0 THEN b
            ELSE IF right - left = Width(t) THEN ScrollRows(b, from, height, moved)
            ELSE CopyCells(b, WalkCells(left, from, right - left, height, 0, moved), FALSE, Blank)
        eraseTop == IF delta > 0 THEN top ELSE bottom - distance
    IN  WithBuffer(t, ResetLineRenditionRange(
            FillRect(scrolled, left, eraseTop, right, eraseTop + distance, Blank),
            eraseTop, eraseTop + distance))

ScrollRectHorizontally(t, left, top, right, bottom, delta) ==
    LET b == Buffer(t)
        distance == Least(IF delta < 0 THEN -delta ELSE delta, right - left)
        moved == IF delta > 0 THEN distance ELSE -distance
        from == IF delta > 0 THEN left ELSE left + distance
        width == right - left - distance
        moves == WalkCells(from, top, width, bottom - top, moved, 0)
        scrolled == IF width <= 0 THEN b ELSE CopyCells(b, moves, TRUE, GetCell(b, moves[1]))
        eraseLeft == IF delta > 0 THEN left ELSE right - distance
    IN  WithBuffer(t, FillRect(scrolled, eraseLeft, top, eraseLeft + distance, bottom, Blank))

\* The view stays with the viewport.
PreserveNothing(t, delta) == t

\* A viewport or a buffer that moved down keeps a view the user scrolled back.
\* (The code does so with an active selection, too; nothing in VT7 makes one.)
PreserveUserScrollOffset(t, delta) ==
    IF delta > 0 /\ t.scrollOffset # 0
    THEN [t EXCEPT !.scrollOffset = Least(@ + delta, Buffer(t).height - t.size.height)] ELSE t

\* Terminal::SetViewportPosition
SetViewportPosition(t, y) ==
    LET top == Clamp(y, 0, t.main.height - t.size.height)
    IN  IF t.inAlt THEN t
        ELSE PreserveUserScrollOffset([t EXCEPT !.top = top], top - t.top)

\* The rows from first on move back down after the page has moved up.
StayBelowForgotten(t, first, end) == t
StayBelow(t, first, end) == ScrollRectVertically(t, 0, first, Width(t), end, 1)

\* Whether the line the cursor leaves goes on in the next one.
MarkWrap(t, wrapForced) ==
    LET b == Buffer(t)
    IN  WithBuffer(t, SetRow(b, b.y, [GetRow(b, b.y) EXCEPT !.wrapForced = wrapForced]))

\* Scroll by panning the viewport, by rotating the buffer, or inside margins.
ToNextLine(t, m, x) ==
    LET b == Buffer(t)
        y == b.y
        below == Least(y + 1, Bottom(t) - 1)
        panned == SetViewportPosition(t, Top(t) + 1)
        rotated == PreserveUserScrollOffset(WithBuffer(t, IncrementCircularBuffer(b)), 1)
    IN  CASE y # m.bottom \/ ~InColumns(m, x) ->
                MoveCursor(t, ClampWithinLine(b, x, below), below)
          [] y = m.bottom /\ InColumns(m, x) /\ (m.top > Top(t) \/ m.left > 0 \/ m.right < Width(t) - 1) ->
                MoveCursor(ScrollRectVertically(t, m.left, m.top, m.right + 1, m.bottom + 1, -1), x, y)
          [] y = m.bottom /\ InColumns(m, x) /\ m.top = Top(t) /\ m.left = 0 /\ m.right = Width(t) - 1
                /\ Bottom(t) < b.height ->
                MoveCursor(IF m.bottom < Bottom(t) - 1
                           THEN StayBelow(panned, m.bottom + 1, Bottom(t) + 1)
                           ELSE WithBuffer(panned, SetRow(b, y + 1, Reset(b.width))),
                           x, y + 1)
          [] OTHER ->
                MoveCursor(IF m.bottom < Bottom(t) - 1
                           THEN StayBelow(rotated, m.bottom, b.height)
                           ELSE rotated,
                           x, y)

LineFeed(t, m, withReturn) ==
    LET b == Buffer(t)
    IN  ToNextLine(t, m, IF ~withReturn THEN b.x
                         ELSE IF InRows(m, b.y) /\ b.x >= m.left THEN m.left ELSE 0)

DoLineFeed(t0, withReturn, wrapForced) ==
    LET t == FitMargins(t0)
    IN  LineFeed(MarkWrap(t, wrapForced), Margins(t), withReturn)

-----------------------------------------------------------------------------
\* Printing

\* The column a line may be written up to.
LineLimit(t, withinRight) ==
    LET b == Buffer(t)
        m == Margins(t)
        width == GetLineWidth(b, b.y)
    IN  IF InRows(m, b.y) /\ (~withinRight \/ b.x <= m.right)
        THEN Least(width, m.right + 1) ELSE width

\* A glyph of which nothing was written at the start of a line, or that may
\* not go to the next line, can never fit and is thrown away.
HopelessNever(t, x, atLimit, unwritten) == FALSE
HopelessAnywhere(t, x, atLimit, unwritten) == atLimit /\ unwritten
Hopeless(t, x, atLimit, unwritten) == atLimit /\ unwritten /\ (x = 0 \/ ~t.autoWrap)

\* What is still to be written, and up to where in the line.
ToWrite(t, text, withinRight) ==
    [t |-> t, text |-> text, limit |-> LineLimit(t, withinRight)]

\* A delayed wrap happens before the next glyph.
WrapFirst(w) ==
    IF Buffer(w.t).delayed /\ w.t.autoWrap
    THEN ToWrite(DoLineFeed(NoDelayedWrap(w.t), TRUE, TRUE), w.text, FALSE) ELSE w

PutText(w) ==
    LET b == Buffer(w.t)
    IN  IF w.t.insert THEN Insert(b, b.y, b.x, w.limit, w.text)
        ELSE Replace(b, b.y, b.x, w.limit, w.text)

\* The cursor goes behind the text, or waits for a wrap at the limit.
AfterText(w, s) ==
    LET b == Buffer(w.t)
        atLimit == s.columnEnd >= w.limit
        written == [SetPosition(s.buffer, IF atLimit THEN w.limit - 1 ELSE s.columnEnd, b.y)
                    EXCEPT !.delayed = atLimit /\ w.t.autoWrap]
    IN  [w EXCEPT !.t = WithBuffer(w.t, written),
                  !.text = IF Hopeless(w.t, b.x, atLimit, s.text = w.text) THEN Tail(s.text)
                           ELSE s.text]

WriteLine(w) == AfterText(w, PutText(w))

\* The loop of _WriteToBuffer: wrap if the last turn ended at the limit, and
\* write what fits.
RECURSIVE WriteLoop(_, _)
WriteLoop(w, turns) ==
    CASE w.text = <<>> -> w.t
      [] w.text # <<>> /\ turns = 0 -> [w.t EXCEPT !.stuck = TRUE]
      [] OTHER -> WriteLoop(WriteLine(WrapFirst(w)), turns - 1)

WriteToBuffer(t, text) == WriteLoop(ToWrite(FitMargins(t), text, TRUE), MaxWrites)

-----------------------------------------------------------------------------
\* Lines, characters and columns

ReverseLineFeed(t0) ==
    LET t == FitMargins(t0)
        b == Buffer(t)
        m == Margins(t)
    IN  CASE b.y = m.top /\ InColumns(m, b.x) ->
                ScrollRectVertically(t, m.left, m.top, m.right + 1, m.bottom + 1, 1)
          [] ~(b.y = m.top /\ InColumns(m, b.x)) /\ b.y > Top(t) ->
                MoveCursor(t, ClampWithinLine(b, b.x, b.y - 1), b.y - 1)
          [] OTHER -> t

BackIndex(t0) ==
    LET t == FitMargins(t0)
        b == Buffer(t)
        m == Margins(t)
    IN  CASE b.x = m.left /\ InRows(m, b.y) ->
                ScrollRectHorizontally(t, m.left, m.top, m.right + 1, m.bottom + 1, 1)
          [] ~(b.x = m.left /\ InRows(m, b.y)) /\ b.x > 0 -> MoveCursor(t, b.x - 1, b.y)
          [] OTHER -> t

ForwardIndex(t0) ==
    LET t == FitMargins(t0)
        b == Buffer(t)
        m == Margins(t)
    IN  CASE b.x = m.right /\ InRows(m, b.y) ->
                ScrollRectHorizontally(t, m.left, m.top, m.right + 1, m.bottom + 1, -1)
          [] ~(b.x = m.right /\ InRows(m, b.y)) /\ b.x < GetLineWidth(b, b.y) - 1 ->
                MoveCursor(t, b.x + 1, b.y)
          [] OTHER -> t

ScrollMovement(t0, delta) ==
    LET t == FitMargins(t0)
        m == Margins(t)
    IN  ScrollRectVertically(t, m.left, m.top, m.right + 1, m.bottom + 1, delta)

InsertDeleteLine(t0, delta) ==
    LET t == FitMargins(t0)
        b == Buffer(t)
        m == Margins(t)
    IN  IF InRows(m, b.y) /\ InColumns(m, b.x)
        THEN MoveCursor(ScrollRectVertically(t, m.left, b.y, m.right + 1, m.bottom + 1, delta),
                        m.left, b.y)
        ELSE t

InsertDeleteColumn(t0, delta) ==
    LET t == FitMargins(t0)
        b == Buffer(t)
        m == Margins(t)
    IN  IF InRows(m, b.y) /\ InColumns(m, b.x)
        THEN ScrollRectHorizontally(t, b.x, m.top, m.right + 1, m.bottom + 1, delta) ELSE t

InsertDeleteCharacter(t0, delta) ==
    LET b == Buffer(t0)
        width == GetLineWidth(b, b.y)
        inside == InRows(GetVerticalMargins(FitVertical(t0)), b.y)
        t == IF inside THEN FitHorizontal(FitVertical(t0), width) ELSE FitVertical(t0)
        m == IF inside THEN GetHorizontalMargins(t, width) ELSE [left |-> 0, right |-> width - 1]
    IN  IF InColumns(m, b.x)
        THEN NoDelayedWrap(ScrollRectHorizontally(t, b.x, b.y, m.right + 1, b.y + 1, delta)) ELSE t

EraseCharacters(t, count) ==
    LET b == Buffer(t)
    IN  WithBuffer(t, FillRect(ResetDelayEOLWrap(b), b.x, b.y,
                               Least(b.x + count, GetLineWidth(b, b.y)), b.y + 1, Blank))

\* EL: the columns from the beginning, to the end, or all.
EraseInLine(t, eraseType) ==
    LET b == Buffer(t)
        left == IF eraseType = "ToEnd" THEN b.x ELSE 0
        right == IF eraseType = "FromBeginning" THEN b.x + 1 ELSE GetLineWidth(b, b.y)
    IN  WithBuffer(t, FillRect(ResetDelayEOLWrap(b), left, b.y, right, b.y + 1, Blank))

\* ED 3: the page moves to the start of the buffer.
EraseScrollback(t) ==
    LET y == Buffer(t).y - Top(t)
        cleared == WithBuffer(t, ClearScrollback(Buffer(t), Top(t), Height(t)))
    IN  MoveCursor(SetViewportPosition(cleared, 0), Buffer(t).x, y)

\* The row below the last text, or the first when that is at the very start.
NewPageTopOnText(b) == LastTextRow(b, 0, b.height - 1)
NewPageTop(b) ==
    LET lastRow == LastTextRow(b, 0, b.height - 1)
        lastColumn == Greatest(MeasureRight(GetRow(b, lastRow)) - 1, 0)
    IN  IF lastRow = 0 /\ lastColumn = 0 THEN 0 ELSE lastRow + 1

\* The buffer turns as far as it is too short, and the viewport goes to top.
PageMoved(t, delta, top) ==
    LET b == Buffer(t)
        rotations[n \in 0..delta] == IF n = 0 THEN b ELSE IncrementCircularBuffer(rotations[n - 1])
        rotated == PreserveUserScrollOffset(WithBuffer(t, rotations[delta]), delta)
    IN  MoveCursor(IF top # Top(t) THEN SetViewportPosition(rotated, top) ELSE rotated,
                   b.x, b.y - Top(t) + top)

PageErased(t, top) ==
    WithBuffer(t, ResetLineRenditionRange(
        FillRect(Buffer(t), 0, top, Width(t), top + Height(t), Blank), top, top + Height(t)))

EraseAllAt(t, wanted, delta) == PageErased(PageMoved(t, delta, wanted - delta), wanted - delta)

\* ED 2: the page moves below the last text, so that it becomes scrollback.
EraseAll(t) ==
    LET wanted == NewPageTop(Buffer(t))
    IN  EraseAllAt(t, wanted, Greatest(0, wanted + Height(t) - Buffer(t).height))

EraseInDisplay(t, eraseType) ==
    LET b == ResetDelayEOLWrap(Buffer(t))
        above == FillRect(ResetLineRenditionRange(b, Top(t), b.y), 0, Top(t), Width(t), b.y, Blank)
        line == FillRect(ResetLineRenditionRange(b, IF b.x > 0 THEN b.y + 1 ELSE b.y, Bottom(t)),
                         b.x, b.y, Width(t), b.y + 1, Blank)
    IN  CASE eraseType = "Scrollback" -> EraseScrollback(t)
          [] eraseType = "All" -> EraseAll(t)
          [] eraseType = "FromBeginning" ->
                WithBuffer(t, FillRect(above, 0, b.y, b.x + 1, b.y + 1, Blank))
          [] OTHER -> WithBuffer(t, FillRect(line, 0, b.y + 1, Width(t), Bottom(t), Blank))

\* DECDWL and DECSWL
SetLineRendition(t, doubleWidth) ==
    LET b == Buffer(t)
        changed == SetRow(b, b.y, [GetRow(b, b.y) EXCEPT !.doubleWidth = doubleWidth,
                                                         !.wrapForced = FALSE])
        erased == FillRect(changed, GetLineWidth(changed, b.y), b.y, b.width, b.y + 1, Blank)
    IN  CASE t.allowDECSLRM -> t
          [] ~t.allowDECSLRM /\ GetRow(b, b.y).doubleWidth = doubleWidth -> NoDelayedWrap(t)
          [] OTHER ->
                NoDelayedWrap(IF doubleWidth
                              THEN MoveCursor(WithBuffer(t, erased), ClampWithinLine(erased, b.x, b.y), b.y)
                              ELSE WithBuffer(t, changed))

-----------------------------------------------------------------------------
\* Margins and modes

DoSetTopBottomScrollingMargins(t, topMargin, bottomMargin, homeCursor) ==
    LET top == IF topMargin = 0 THEN 1 ELSE topMargin
        bottom == IF bottomMargin = 0 THEN Height(t) ELSE bottomMargin
        whole == top = 1 /\ bottom = Height(t)
        set == [t EXCEPT !.margins.top = IF whole THEN 0 ELSE top - 1,
                         !.margins.bottom = IF whole THEN 0 ELSE bottom - 1]
    IN  CASE top >= bottom \/ bottom > Height(t) -> t
          [] ~(top >= bottom \/ bottom > Height(t)) /\ homeCursor -> CursorPosition(set, 1, 1)
          [] OTHER -> set

DoSetLeftRightScrollingMargins(t, leftMargin, rightMargin, homeCursor) ==
    LET left == IF leftMargin = 0 THEN 1 ELSE leftMargin
        right == IF rightMargin = 0 THEN Width(t) ELSE rightMargin
        whole == left = 1 /\ right = Width(t)
        set == [t EXCEPT !.margins.left = IF whole THEN 0 ELSE left - 1,
                         !.margins.right = IF whole THEN 0 ELSE right - 1]
    IN  CASE left >= right \/ right > Width(t) -> t
          [] ~(left >= right \/ right > Width(t)) /\ homeCursor -> CursorPosition(set, 1, 1)
          [] OTHER -> set

\* Without DECLRMM the sequence of DECSLRM saves the cursor.
SetLeftRightScrollingMargins(t, leftMargin, rightMargin) ==
    IF t.allowDECSLRM THEN DoSetLeftRightScrollingMargins(t, leftMargin, rightMargin, TRUE)
    ELSE CursorSaveState(t)

SetOriginMode(t, enable) == CursorPosition([t EXCEPT !.origin = enable], 1, 1)

SetAutoWrapMode(t, enable) ==
    LET set == [t EXCEPT !.autoWrap = enable]
    IN  IF enable THEN set ELSE NoDelayedWrap(set)

SingleWidth(t) == WithBuffer(t, ResetLineRenditionRange(Buffer(t), Top(t), Bottom(t)))

SetLeftRightMarginMode(t, enable) ==
    LET set == DoSetLeftRightScrollingMargins([t EXCEPT !.allowDECSLRM = enable], 0, 0, FALSE)
    IN  IF enable THEN SingleWidth(set) ELSE set

-----------------------------------------------------------------------------
\* Resizing and the user's view

VisibleStartIndex(t) == IF t.inAlt THEN 0 ELSE Greatest(0, t.top - t.scrollOffset)

UserScrollViewport(t, viewTop) ==
    IF t.inAlt THEN t ELSE [t EXCEPT !.scrollOffset = Greatest(0, t.top - Greatest(0, viewTop))]

TrySnapOnInput(t) == [t EXCEPT !.scrollOffset = 0]

\* The viewport below the text, wherever the cursor is.
ProposedTopBelowText(t, viewportSize, n, fromScrollback) ==
    Greatest(0, LastTextRow(n, 0, n.height - 1) - viewportSize.height + 1)

\* Where UserResize puts the viewport: below the rows that were scrollback, and
\* low enough for the last text and the cursor.
TopForRow(t, viewportSize, n, fromScrollback, maxRow) ==
    LET fromLastLine == maxRow - viewportSize.height + 1
        lowest == Greatest(fromLastLine, fromScrollback)
        bottom == fromScrollback + viewportSize.height - 1
        sticks == /\ lowest = fromScrollback /\ maxRow < bottom
                  /\ viewportSize.width < t.size.width /\ lowest > 0
                  /\ GetRow(n, lowest - 1).wrapForced
        top == IF maxRow > bottom THEN fromLastLine ELSE IF sticks THEN lowest - 1 ELSE lowest
    IN  Least(Least(Greatest(0, top), n.height - viewportSize.height), n.y)
ProposedTop(t, viewportSize, n, fromScrollback) ==
    TopForRow(t, viewportSize, n, fromScrollback, Greatest(LastTextRow(n, 0, n.height - 1), n.y))

WithViewport(t, viewportSize, n, top, visible) ==
    [t EXCEPT !.main = n, !.top = top, !.size = viewportSize,
              !.scrollOffset = IF @ = 0 THEN 0 ELSE top - Greatest(0, Least(visible, top))]

WithReflowed(t, viewportSize, n, tops) ==
    WithViewport(t, viewportSize, n, ProposedTop(t, viewportSize, n, tops.mutable), tops.visible)

ResizeMain(t, viewportSize) ==
    LET reflowed == ReflowBuffer(t.main, BufferSize(viewportSize),
                                 [mutable |-> t.top, visible |-> VisibleStartIndex(t)], t.size.height)
    IN  WithReflowed(t, viewportSize, reflowed.buffer, reflowed.tops)

\* The alternate buffer is resized at once, the main one when it is used again.
UserResize(t, viewportSize) ==
    CASE viewportSize = (IF t.inAlt THEN t.altSize ELSE t.size) -> t
      [] viewportSize # t.altSize /\ t.inAlt ->
            [t EXCEPT !.deferred = <<viewportSize>>, !.altSize = viewportSize,
                      !.alt = ResizeTraditional(@, viewportSize)]
      [] OTHER -> ResizeMain(t, viewportSize)

-----------------------------------------------------------------------------
\* The alternate buffer and the resets

UseAlternateScreenBuffer(t) ==
    [t EXCEPT !.inAlt = TRUE, !.altSize = t.size,
              !.alt = SetPosition(NewBuffer(t.size), t.main.x, t.main.y - t.top)]

\* The main buffer takes over the alternate one's cursor.
TakeCursor(t) == MoveCursor(t, t.alt.x, t.alt.y + t.top)
UseMainScreenBuffer(t) ==
    CASE ~t.inAlt -> t
      [] t.inAlt /\ t.deferred = <<>> -> TakeCursor([t EXCEPT !.inAlt = FALSE])
      [] OTHER -> TakeCursor([UserResize([t EXCEPT !.inAlt = FALSE], t.deferred[1]) EXCEPT
                                !.deferred = <<>>])

SetAlternateScreenBufferMode(t, enable) ==
    IF enable THEN UseAlternateScreenBuffer(CursorSaveState(t))
    ELSE CursorRestoreState(UseMainScreenBuffer(t))

ForgetBothSaved(t) == [t EXCEPT !.saved = [alt \in BOOLEAN |-> InitialCursorState]]
ForgetSaved(t) == [t EXCEPT !.saved[t.inAlt] = InitialCursorState]

DefaultMargins(t) ==
    DoSetLeftRightScrollingMargins(DoSetTopBottomScrollingMargins(t, 0, 0, FALSE), 0, 0, FALSE)

SoftReset(t) ==
    ForgetSaved(DefaultMargins([t EXCEPT !.insert = FALSE, !.origin = FALSE,
                                         !.allowDECSLRM = FALSE, !.autoWrap = TRUE]))

\* RIS with erase, and without it the reset for a new connection.
Erased(t, erase) ==
    IF erase THEN CursorPosition(EraseScrollback(EraseAll(t)), 1, 1) ELSE t
HardReset(t, erase) == Erased(SoftReset(UseMainScreenBuffer(t)), erase)

\* DECALN
ScreenAlignmentPattern(t) ==
    LET b == FillRect(Buffer(t), 0, Top(t), Width(t), Bottom(t), "E")
        filled == WithBuffer(t, ResetLineRenditionRange(b, Top(t), Bottom(t)))
    IN  CursorPosition(DefaultMargins([filled EXCEPT !.origin = FALSE, !.allowDECSLRM = FALSE]), 1, 1)
=============================================================================
