------------------------------- MODULE Reflow -------------------------------
(***************************************************************************)
(* TextBuffer::Reflow of buffer/out/textBuffer.cpp: the rows of a buffer   *)
(* written again into a buffer of another size, lines that wrapped before  *)
(* joined and wrapped anew. The new buffer is used around its end as often *)
(* as the text needs, so that its oldest rows are overwritten.             *)
(***************************************************************************)
EXTENDS TextBuffer

\* til::CoordTypeMax, for the limit that is not set yet.
Unlimited == 1000000

\* Where the copy stands: the new rows, the position written next, the row it
\* must not reach, the cursor, and the rows to which the tops of the mutable
\* and of the visible viewport went.
Start(size, tops) ==
    [rows |-> NewBuffer(size).rows, width |-> size.width, height |-> size.height,
     newX |-> 0, newY |-> 0, newYLimit |-> Unlimited, x |-> 0, y |-> 0,
     tops |-> tops, seen |-> [k \in DOMAIN tops |-> FALSE]]

NewLine(s) == [s EXCEPT !.newX = 0, !.newY = @ + 1]
RowOf(s) == s.rows[s.newY % s.height]
WithRow(s, row) == [s EXCEPT !.rows[s.newY % s.height] = row]

NoteTops(s, oldY, tops) ==
    [s EXCEPT !.tops = [k \in DOMAIN @ |-> IF ~s.seen[k] /\ oldY >= tops[k] THEN s.newY ELSE @[k]],
              !.seen = [k \in DOMAIN @ |-> @[k] \/ oldY >= tops[k]]]

NoteCursor(s, row, column) ==
    [s EXCEPT !.x = AdjustBackward(row, Clamp(column, 0, s.width - 1)), !.y = s.newY]

\* A double-width row is not wrapped: it starts a row and is truncated.
ReflowDoubleWidth(s, old, oldY, tops) ==
    LET at == IF s.newX > 0 THEN NewLine(s) ELSE s
        base == IF at.newY >= at.height THEN Reset(at.width) ELSE RowOf(at)
        row == [CopyFrom(base, GetRow(old, oldY)) EXCEPT !.wrapForced = FALSE]
        placed == IF oldY = old.y THEN NoteCursor(WithRow(at, row), row, old.x)
                  ELSE WithRow(at, row)
    IN  NewLine(NoteTops(placed, oldY, tops))

\* The do-while loop over the columns of a row, from oldX on.
RECURSIVE ReflowColumns(_, _, _, _, _, _)
ReflowColumns(s, old, oldY, oldX, oldRowLimit, tops) ==
    LET oldRow == GetRow(old, oldY)
        wrapped == IF s.newX >= s.width
                   THEN NewLine(WithRow(s, [RowOf(s) EXCEPT !.wrapForced = TRUE])) ELSE s
        reused == wrapped.newY >= s.height /\ wrapped.newX = 0
        base == IF reused THEN Reset(s.width) ELSE RowOf(wrapped)
        copy == CopyTextFrom(base, wrapped.newX, s.width, oldRow, oldX, oldRowLimit)
        written == WithRow(wrapped, copy.row)
        placed == IF oldY = old.y /\ old.x >= oldX
                  THEN [NoteCursor(written, copy.row, old.x - oldX + wrapped.newX) EXCEPT
                          !.newYLimit = wrapped.newY + s.height]
                  ELSE written
        next == [NoteTops(placed, oldY, tops) EXCEPT !.newX = copy.columnEnd]
    IN  CASE reused /\ wrapped.newY >= s.newYLimit -> wrapped
          [] ~(reused /\ wrapped.newY >= s.newYLimit) /\ copy.sourceColumnEnd < oldRowLimit ->
                ReflowColumns(next, old, oldY, copy.sourceColumnEnd, oldRowLimit, tops)
          [] OTHER -> next

\* Every row starts a line.
ReflowRowUnjoined(s, old, oldY, tops) ==
    NewLine(ReflowColumns(s, old, oldY, 0, MeasureRight(GetRow(old, oldY)), tops))

\* The row's text, and at least a blank before the cursor.
ReflowRow(s, old, oldY, tops) ==
    LET oldRow == GetRow(old, oldY)
        limit == IF oldY = old.y THEN Greatest(MeasureRight(oldRow), old.x + 1)
                 ELSE MeasureRight(oldRow)
        copied == ReflowColumns(s, old, oldY, 0, limit, tops)
    IN  IF oldRow.doubleWidth THEN ReflowDoubleWidth(s, old, oldY, tops)
        ELSE IF oldRow.wrapForced THEN copied ELSE NewLine(copied)

\* The rows, until the next one would reach the cursor's row again.
RECURSIVE ReflowRows(_, _, _, _, _)
ReflowRows(s, old, oldY, oldHeight, tops) ==
    IF oldY < oldHeight /\ s.newY < s.newYLimit
    THEN ReflowRows(ReflowRow(s, old, oldY, tops), old, oldY + 1, oldHeight, tops)
    ELSE s

\* The whole copy: up to the last text in the viewport, or the cursor.
EndLine(s) == IF s.newX # 0 THEN NewLine(s) ELSE s
Copied(buffer, size, tops, viewportHeight) ==
    LET old == [buffer EXCEPT !.x = Clamp(@, 0, buffer.width - 1),
                              !.y = Clamp(@, 0, buffer.height - 1)]
        lastText == LastTextRow(old, tops.mutable, tops.mutable + viewportHeight - 1)
    IN  EndLine(ReflowRows(Start(size, tops), old, 0, Greatest(lastText, old.y) + 1, tops))

\* The new buffer, and the new row of each viewport's top, which is not
\* corrected for the rows that were overwritten.
Rotated(s) ==
    LET rotated == s.newY > s.height
        firstRow == IF rotated THEN s.newY % s.height ELSE 0
    IN  [buffer |-> [rows |-> s.rows, firstRow |-> firstRow,
                     width |-> s.width, height |-> s.height, x |-> s.x,
                     y |-> IF rotated THEN (s.y - firstRow + s.height) % s.height ELSE s.y,
                     delayed |-> FALSE],
         tops |-> s.tops]

ReflowBuffer(buffer, size, tops, viewportHeight) ==
    Rotated(Copied(buffer, size, tops, viewportHeight))
=============================================================================
