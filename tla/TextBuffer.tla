----------------------------- MODULE TextBuffer -----------------------------
(***************************************************************************)
(* The rows of buffer/out/Row.cpp and the circular buffer of rows of       *)
(* buffer/out/textBuffer.cpp, at the level of cells: a row is what its     *)
(* columns show, where a wide glyph fills a leading and a trailing cell.   *)
(* The offset table a row keeps to find a column's characters, attributes, *)
(* images and marks are left out, and so are glyphs that combine.          *)
(* Columns, rows and offsets count from 0 as in the code.                  *)
(***************************************************************************)
EXTENDS Integers, Sequences

Blank == " "
Lead == "W"
Trail == "w"

Least(a, b) == IF a < b THEN a ELSE b
Greatest(a, b) == IF a > b THEN a ELSE b
Clamp(v, low, high) == Greatest(low, Least(v, high))
Flag(b) == IF b THEN 1 ELSE 0

\* The cells of a sequence of glyphs, and the glyphs in a sequence of cells.
RECURSIVE Expand(_)
Expand(text) ==
    IF text = <<>> THEN <<>>
    ELSE (IF Head(text) = Lead THEN <<Lead, Trail>> ELSE <<Head(text)>>) \o Expand(Tail(text))

Glyphs(cells) == SelectSeq(cells, LAMBDA c : c # Trail)

-----------------------------------------------------------------------------
\* Rows

Reset(width) ==
    [cells |-> [c \in 0..width - 1 |-> Blank], size |-> width,
     wrapForced |-> FALSE, doubleBytePadded |-> FALSE, doubleWidth |-> FALSE]

IsTrailer(row, col) == col < row.size /\ row.cells[col] = Trail
AdjustBackward(row, col) == IF IsTrailer(row, col) THEN col - 1 ELSE col
AdjustForward(row, col) == IF IsTrailer(row, col) THEN col + 1 ELSE col
CellsOf(row, from, to) == [i \in 1..Greatest(0, to - from) |-> row.cells[from + i - 1]]

\* Only the columns that were written change.
FinishKeepingHalves(row, begin, end, dirty, cells) ==
    [row EXCEPT !.cells = [c \in DOMAIN @ |->
        IF begin <= c /\ c < end THEN cells[c - begin + 1]
        ELSE IF begin <= c /\ c < dirty THEN Blank ELSE @[c]]]

\* WriteHelper::Finish: the cells go to begin..end-1, blanks fill up to dirty,
\* and a glyph of which one half was overwritten loses the other half. The
\* row remembers a last column that only pads.
Finish(row, begin, end, dirty, cells) ==
    LET from == AdjustBackward(row, begin)
        to == AdjustForward(row, dirty)
    IN  [row EXCEPT
            !.cells = [c \in DOMAIN @ |->
                IF begin <= c /\ c < end THEN cells[c - begin + 1]
                ELSE IF from <= c /\ c < to THEN Blank ELSE @[c]],
            !.doubleBytePadded = IF to = row.size THEN end < row.size ELSE @]

\* ReplaceText: as many glyphs as fit before the limit. What is left of the
\* text is returned, and a column end at the limit when something is left.
ReplaceText(row, columnBegin, columnLimit, text) ==
    LET begin == Clamp(columnBegin, 0, row.size)
        limit == Clamp(columnLimit, 0, row.size)
        fit == CHOOSE n \in 0..Len(text) :
                 /\ Len(Expand(SubSeq(text, 1, n))) <= limit - begin
                 /\ n < Len(text) => Len(Expand(SubSeq(text, 1, n + 1))) > limit - begin
        cells == Expand(SubSeq(text, 1, fit))
        rest == SubSeq(text, fit + 1, Len(text))
        end == begin + Len(cells)
        columnEnd == IF rest = <<>> THEN end ELSE limit
    IN  IF begin >= limit \/ text = <<>>
        THEN [row |-> row, text |-> text, columnEnd |-> begin]
        ELSE [row |-> Finish(row, begin, end, columnEnd, cells),
              text |-> rest, columnEnd |-> columnEnd]

\* CopyTextFrom: whole glyphs of the source's columns.
CopyTextFrom(row, columnBegin, columnLimit, source, sourceBegin, sourceLimit) ==
    LET begin == Clamp(columnBegin, 0, row.size)
        limit == Clamp(columnLimit, 0, row.size)
        first == Clamp(sourceBegin, 0, source.size)
        beyond == Clamp(sourceLimit, 0, source.size)
        last == AdjustBackward(source, beyond)
        dirty == Least(limit - begin, beyond - first)
        end == AdjustBackward(source, first + dirty)
    IN  IF begin >= limit \/ first >= last \/ IsTrailer(source, first)
        THEN [row |-> row, columnEnd |-> begin, sourceColumnEnd |-> source.size]
        ELSE [row |-> Finish(row, begin, begin + end - first, begin + dirty,
                             CellsOf(source, first, end)),
              columnEnd |-> IF end = last THEN begin + end - first ELSE limit,
              sourceColumnEnd |-> end]

GetReadableColumnCount(row) ==
    IF row.doubleWidth THEN (row.size - 2 * Flag(row.doubleBytePadded)) \div 2
    ELSE row.size - Flag(row.doubleBytePadded)

GetText(row, columnBegin, columnEnd) ==
    LET columns == GetReadableColumnCount(row)
        begin == Clamp(columnBegin, 0, columns)
        end == Clamp(columnEnd, begin, columns)
    IN  Glyphs(CellsOf(row, AdjustBackward(row, begin), AdjustBackward(row, end)))

CopyFrom(row, source) ==
    [CopyTextFrom(row, 0, row.size, source, 0, GetReadableColumnCount(source)).row EXCEPT
        !.doubleWidth = source.doubleWidth, !.wrapForced = source.wrapForced]

\* One past the last column that counts as text.
MeasureRight(row) ==
    LET columns == GetReadableColumnCount(row)
        end == AdjustBackward(row, columns)
        text == {c \in 0..end - 1 : row.cells[c] # Blank}
        blanks == CHOOSE n \in 0..end :
                    /\ \A c \in end - n..end - 1 : c \notin text
                    /\ n < end => end - n - 1 \in text
    IN  IF row.wrapForced THEN row.size - Flag(row.doubleBytePadded) ELSE columns - blanks

ReplaceCharacters(row, col, cells) == Finish(row, col, col + Len(cells), col + Len(cells), cells)

\* WriteCells with one cell read from a buffer: a half brings its glyph.
WriteCell(row, col, cell) ==
    CASE cell = Lead /\ col = row.size - 1 ->
            [ReplaceCharacters(row, col, <<Blank>>) EXCEPT !.doubleBytePadded = TRUE]
      [] cell = Lead /\ col < row.size - 1 -> ReplaceCharacters(row, col, <<Lead, Trail>>)
      [] cell = Trail /\ col = 0 -> ReplaceCharacters(row, col, <<Blank>>)
      [] cell = Trail /\ col > 0 -> ReplaceCharacters(row, col - 1, <<Lead, Trail>>)
      [] OTHER -> ReplaceCharacters(row, col, <<cell>>)

-----------------------------------------------------------------------------
\* The buffer: rows stored from firstRow on, around the end, and the cursor.

NewBuffer(size) ==
    [rows |-> [r \in 0..size.height - 1 |-> Reset(size.width)], firstRow |-> 0,
     width |-> size.width, height |-> size.height, x |-> 0, y |-> 0, delayed |-> FALSE]

Offset(b, y) == (b.firstRow + y) % b.height
GetRow(b, y) == b.rows[Offset(b, y)]
SetRow(b, y, row) == [b EXCEPT !.rows[Offset(b, y)] = row]

\* Every way to move the cursor takes back a delayed wrap.
SetPosition(b, x, y) == [b EXCEPT !.x = x, !.y = y, !.delayed = FALSE]
ResetDelayEOLWrap(b) == [b EXCEPT !.delayed = FALSE]

GetLineWidth(b, y) == IF GetRow(b, y).doubleWidth THEN b.width \div 2 ELSE b.width
ClampWithinLine(b, x, y) == Least(x, GetLineWidth(b, y) - 1)

Replace(b, y, begin, limit, text) ==
    LET s == ReplaceText(GetRow(b, y), begin, limit, text)
    IN  [buffer |-> SetRow(b, y, s.row), text |-> s.text, columnEnd |-> s.columnEnd]

\* Insert keeps the rest of the line in the scratchpad row and writes it
\* again behind the new text.
Insert(b, y, begin, limit, text) ==
    LET scratch == CopyFrom(Reset(b.width), GetRow(b, y))
        s == ReplaceText(GetRow(b, y), begin, limit, text)
        restored == ReplaceText(s.row, s.columnEnd, limit, GetText(scratch, begin, limit))
    IN  [buffer |-> SetRow(b, y, restored.row), text |-> s.text, columnEnd |-> s.columnEnd]

FillRect(b, left, top, right, bottom, glyph) ==
    LET to == Least(right, b.width)
        filled == {Offset(b, y) : y \in top..bottom - 1}
    IN  IF left >= to THEN b
        ELSE [b EXCEPT !.rows = [r \in DOMAIN @ |->
                IF r \in filled
                THEN Finish(@[r], left, to, to, [i \in 1..to - left |-> glyph]) ELSE @[r]]]

ResetLineRenditionRange(b, top, bottom) ==
    LET rows == {Offset(b, y) : y \in top..bottom - 1}
    IN  [b EXCEPT !.rows = [r \in DOMAIN @ |->
            IF r \in rows THEN [@[r] EXCEPT !.doubleWidth = FALSE] ELSE @[r]]]

\* The oldest row becomes the newest.
IncrementCircularBuffer(b) ==
    [SetRow(b, 0, Reset(b.width)) EXCEPT !.firstRow = (@ + 1) % b.height]

\* A row copied onto itself keeps its text.
CopyRow(b, from, to) ==
    IF Offset(b, from) = Offset(b, to) THEN b
    ELSE SetRow(b, to, CopyFrom(GetRow(b, to), GetRow(b, from)))

RECURSIVE CopyRows(_, _, _, _, _)
CopyRows(b, y, end, step, delta) ==
    IF y = end THEN b ELSE CopyRows(CopyRow(b, y, y + delta), y + step, end, step, delta)

ScrollRows(b, first, size, delta) ==
    CASE delta < 0 -> CopyRows(b, first, first + size, 1, delta)
      [] delta > 0 -> CopyRows(b, first + size - 1, first - 1, -1, delta)
      [] OTHER -> b

\* Cells copied one at a time: moves lists them as source and target columns
\* and rows. With ahead, the next cell is read before the current one is
\* written.
GetCell(b, move) == GetRow(b, move.sy).cells[move.sx]
RECURSIVE CopyCells(_, _, _, _)
CopyCells(b, moves, ahead, held) ==
    IF moves = <<>> THEN b
    ELSE LET current == IF ahead THEN held ELSE GetCell(b, moves[1])
             next == IF Len(moves) > 1 THEN GetCell(b, moves[2]) ELSE held
             row == GetRow(b, moves[1].dy)
         IN  CopyCells(SetRow(b, moves[1].dy, WriteCell(row, moves[1].dx, current)),
                       Tail(moves), ahead, next)

\* The walk of a rectangle's cells, backwards when they move right or down.
WalkCells(left, top, width, height, dx, dy) ==
    LET count == width * height
        forward == dy < 0 \/ (dy = 0 /\ dx < 0)
        Cell(i) == [sx |-> left + (i % width), sy |-> top + (i \div width),
                    dx |-> left + (i % width) + dx, dy |-> top + (i \div width) + dy]
    IN  [i \in 1..count |-> Cell(IF forward THEN i - 1 ELSE count - i)]

\* The row of the last text in the rows from top to bottom, or top.
LastTextRow(b, top, bottom) ==
    LET rows == {y \in top..bottom : MeasureRight(GetRow(b, y)) > 0}
    IN  IF rows = {} THEN top ELSE CHOOSE y \in rows : \A z \in rows : z <= y

\* ClearScrollback moves the rows to keep to the start of the storage.
ClearScrollback(b, newFirstRow, rowsToKeep) ==
    LET start == b.firstRow + newFirstRow
        moved == ScrollRows([b EXCEPT !.firstRow = 0], start, rowsToKeep, -start)
    IN  IF newFirstRow <= 0 THEN b
        ELSE [moved EXCEPT !.rows = [r \in DOMAIN @ |->
                IF r >= rowsToKeep THEN Reset(b.width) ELSE @[r]]]

\* ResizeTraditional copies rows into the new size and leaves the cursor.
ResizeTraditional(b, size) ==
    LET fresh == NewBuffer(size)
        first == Greatest(0, b.y - size.height + 1)
    IN  [fresh EXCEPT !.x = b.x, !.y = b.y, !.delayed = b.delayed,
            !.rows = [r \in DOMAIN @ |->
                IF r < Least(b.height, size.height)
                THEN CopyFrom(@[r], GetRow(b, first + r)) ELSE @[r]]]
=============================================================================
