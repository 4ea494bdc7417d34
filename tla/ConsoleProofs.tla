--------------------------- MODULE ConsoleProofs ---------------------------
(***************************************************************************)
(* Theorems about Console, for a buffer, a screen and pages of any size    *)
(* and any number of characters.                                           *)
(***************************************************************************)
EXTENDS Console, SequenceTheorems, TLAPS

-----------------------------------------------------------------------------
(* Types.                                                                  *)

Printing == Chars \cup {" "}

Input == Printing \cup {"newline", "backspace", "control"}

Lines == [Line -> Printing \cup {"nul"}]

Drawing == {"refresh", "row", "bottom", "refresh_last", "row_last"}

\* The types of the variables.
TypeOK ==
    /\ history_buffer \in [0 .. MAX_HISTORY - 1 -> Lines]
    /\ g_cursor_x \in Nat /\ g_cursor_y \in Nat /\ g_view_offset \in Nat
    /\ screen \in [0 .. ROWS - 1 -> [Line -> Printing]]
    /\ pc \in {"idle", "newline", "live", "check", "correct", "back", "put", "look", "paint",
               "advance"} \cup Drawing
    /\ c \in Input \cup {"nul"}
    /\ top \in 0 .. MAX_HISTORY - 1 /\ i \in 0 .. ROWS - 1
    /\ text \in Seq(Lines)
    /\ torn \in BOOLEAN /\ mixed \in BOOLEAN

\* The cursor is outside of the buffer only on the way to check_history_scroll.
Inside ==
    /\ g_cursor_x \in Line /\ g_cursor_y \in 0 .. MAX_HISTORY
    /\ pc \notin {"live", "check", "correct"} => g_cursor_y \in 0 .. MAX_HISTORY - 1

\* Where the cursor is and what kprint_char works on, also after a switch inside
\* a kprint_char.  Such a switch may leave the cursor anywhere, until
\* check_history_scroll brings it back.
Cursor ==
    /\ pc \in Drawing => g_cursor_y < MAX_HISTORY
    /\ pc \in {"live", "check", "correct"} \cup Drawing => g_cursor_x = 0
    /\ pc = "back" => g_cursor_x > 0 /\ c = "backspace"
    /\ pc \in {"put", "advance"} => c \in Printing
    /\ pc \in {"look", "paint"} => c \in Printing \cup {"backspace"}
    /\ ~(mixed /\ torn) => Inside

\* The buffer h with the cursor in line y holds the first n lines of t, or as
\* many of the last of these as fit.
Keeps(t, n, y, h) ==
    /\ n \in 1 .. Len(t)
    /\ y \in 0 .. MAX_HISTORY - 1
    /\ \/ y = n - 1
       \/ y = MAX_HISTORY - 1 /\ n >= MAX_HISTORY
    /\ \A k \in 0 .. y : h[k] = t[n - y + k]
    /\ \A k \in y + 1 .. MAX_HISTORY - 1 : h[k] = EmptyLine

\* The buffer h lacks the last line of t, which is empty.
Behind(t, y, h) == Keeps(t, Len(t) - 1, y, h) /\ t[Len(t)] = EmptyLine

\* What kprint_char has still to do to the buffer h for the lines t.
Wrapped == g_cursor_x + 1 = COLS

Written(h, x, ch) == [h EXCEPT ![g_cursor_y][x] = ch]

\* The character that put and advance work on is in the buffer h.
Placed(h) == IF Wrapped THEN Behind(text, g_cursor_y, h) ELSE Keeps(text, Len(text), g_cursor_y, h)

History ==
    /\ pc \in {"idle"} \cup Drawing => Keeps(text, Len(text), g_cursor_y, history_buffer)
    /\ pc = "newline" => Behind(text, g_cursor_y, history_buffer)
    /\ pc \in {"live", "check"} => Behind(text, g_cursor_y - 1, history_buffer)
    /\ pc = "correct" =>
         g_cursor_y = MAX_HISTORY /\ Keeps(text, Len(text), g_cursor_y - 1, history_buffer)
    /\ pc = "back" => Keeps(text, Len(text), g_cursor_y, Written(history_buffer, g_cursor_x - 1, " "))
    /\ pc = "put" => Placed(Written(history_buffer, g_cursor_x, c))
    /\ pc \in {"look", "paint"} /\ c = "backspace" => Keeps(text, Len(text), g_cursor_y, history_buffer)
    /\ pc \in {"look", "paint", "advance"} /\ c # "backspace" => Placed(history_buffer)

\* The character at the cursor is drawn.
Painted == [screen EXCEPT ![ROWS - 1][g_cursor_x] = IF c = "backspace" THEN " " ELSE c]

\* How far the screen is behind the buffer when no page key and no switch
\* came in between.
View ==
    /\ ~torn /\ g_cursor_y >= ROWS =>
         /\ pc \in {"idle", "back", "put", "advance"} => screen = Refreshed(g_cursor_y, g_view_offset)
         /\ pc = "look" => IF g_view_offset = 0 THEN Painted = Refreshed(g_cursor_y, 0)
                           ELSE screen = Refreshed(g_cursor_y, g_view_offset)
         /\ pc = "paint" => g_view_offset = 0 /\ Painted = Refreshed(g_cursor_y, 0)
    /\ ~torn /\ pc \in {"row", "row_last"} =>
         /\ top = TopRow(g_cursor_y, g_view_offset)
         /\ \A r \in 0 .. i - 1 : screen[r] = RowShown(top, r, g_cursor_y)

\* The inductive invariant.
CInv == TypeOK /\ Cursor /\ (~mixed => History) /\ View

-----------------------------------------------------------------------------
(* The operators of the model.                                             *)

\* The printable characters are not among the special ones.
LEMMA NoSpecial ==
    \A ch \in Chars \cup {" "} : ch \notin {"nul", "newline", "backspace", "control"}
BY ConsoleAssumption, Zenon

\* The assumptions about sizes, apart from the one about characters.
LEMMA ConsoleSizes ==
    /\ ROWS \in Nat /\ ROWS > 0 /\ COLS \in Nat /\ COLS > 0
    /\ MAX_HISTORY \in Nat /\ ROWS < MAX_HISTORY /\ PAGE \in Nat
<1>1. /\ ROWS \in Nat \ {0} /\ COLS \in Nat \ {0}
      /\ MAX_HISTORY \in Nat /\ ROWS < MAX_HISTORY /\ PAGE \in Nat \ {0}
  BY ConsoleAssumption, Zenon
<1> QED BY <1>1

LEMMA MinPair ==
    ASSUME NEW a \in Int, NEW b \in Int
    PROVE  Min({a, b}) = IF a <= b THEN a ELSE b
BY DEF Min

LEMMA MaxPair ==
    ASSUME NEW a \in Int, NEW b \in Int
    PROVE  Max({a, b}) = IF a >= b THEN a ELSE b
BY DEF Max

\* The top of the view, without Max.
LEMMA TopRowValue ==
    ASSUME NEW y \in 0 .. MAX_HISTORY - 1, NEW o \in Nat
    PROVE  /\ TopRow(y, o) \in 0 .. y
           /\ TopRow(y, o) = IF y - (ROWS - 1) - o > 0 THEN y - (ROWS - 1) - o ELSE 0
<1>1. ROWS \in Nat /\ ROWS > 0 /\ MAX_HISTORY \in Nat
  BY ConsoleSizes
<1>2. PICK z : z = 0
  OBVIOUS
<1>3. PICK d : d = y - (ROWS - 1) - o
  OBVIOUS
<1>4. z \in Int /\ d \in Int
  BY <1>1, <1>2, <1>3
<1>5. Max({z, d}) = IF z >= d THEN z ELSE d
  BY <1>4, MaxPair
<1>6. TopRow(y, o) = Max({z, d})
  BY <1>2, <1>3 DEF TopRow
<1> QED BY <1>1, <1>2, <1>3, <1>5, <1>6

\* A page key moves the view to a line of the buffer.
LEMMA ScrolledValue ==
    ASSUME TypeOK, NEW n \in {PAGE, -PAGE}
    PROVE  Scrolled(n) \in Nat
<1>1. n \in Int /\ g_cursor_y \in Int /\ g_view_offset \in Int
  BY ConsoleSizes DEF TypeOK
<1>2. PICK s : s = g_view_offset + n
  OBVIOUS
<1>3. s \in Int
  BY <1>1, <1>2
<1>4. Min({s, g_cursor_y}) \in Int
  BY <1>1, <1>3, MinPair
<1>5. PICK m : m = Min({s, g_cursor_y})
  OBVIOUS
<1>6. PICK z : z = 0
  OBVIOUS
<1>7. m \in Int /\ z \in Int
  BY <1>4, <1>5, <1>6
<1>8. Max({z, m}) = IF z >= m THEN z ELSE m
  BY <1>7, MaxPair
<1>9. Scrolled(n) = Max({z, m})
  BY <1>2, <1>5, <1>6 DEF Scrolled
<1> QED BY <1>6, <1>7, <1>8, <1>9

LEMMA EmptyLineType == EmptyLine \in Lines
BY DEF EmptyLine, Lines

LEMMA GlyphType ==
    ASSUME NEW ch \in Printing \cup {"nul"}
    PROVE  Glyph(ch) \in Printing
BY DEF Glyph, Printing

\* A row of the screen shows printable characters.
LEMMA RowShownType ==
    ASSUME TypeOK, NEW t \in Nat, NEW r \in 0 .. ROWS - 1, NEW y \in Int
    PROVE  RowShown(t, r, y) \in [Line -> Printing]
<1>1. BlankLine \in [Line -> Printing]
  BY DEF BlankLine, Printing
<1>2. CASE t + r > y \/ t + r >= MAX_HISTORY
  BY <1>1, <1>2 DEF RowShown
<1>3. CASE ~(t + r > y \/ t + r >= MAX_HISTORY)
  <2>1. t + r \in 0 .. MAX_HISTORY - 1
    BY <1>3, ConsoleSizes
  <2>2. history_buffer[t + r] \in Lines
    BY <2>1 DEF TypeOK
  <2>3. \A j \in Line : Glyph(history_buffer[t + r][j]) \in Printing
    BY <2>2, GlyphType DEF Lines
  <2> QED BY <1>3, <2>3 DEF RowShown
<1> QED BY <1>2, <1>3

LEMMA RefreshedType ==
    ASSUME TypeOK, NEW o \in Nat
    PROVE  Refreshed(g_cursor_y, o) \in [0 .. ROWS - 1 -> [Line -> Printing]]
<1>1. g_cursor_y \in Int
  BY DEF TypeOK
<1>2. TopRow(g_cursor_y, o) \in Nat
  <2>1. PICK z, d : z = 0 /\ d = g_cursor_y - (ROWS - 1) - o
    OBVIOUS
  <2>2. z \in Int /\ d \in Int
    BY <1>1, <2>1, ConsoleSizes
  <2>3. Max({z, d}) \in Nat
    BY <2>1, <2>2, MaxPair
  <2> QED BY <2>1, <2>3 DEF TopRow
<1>3. \A r \in 0 .. ROWS - 1 : RowShown(TopRow(g_cursor_y, o), r, g_cursor_y) \in [Line -> Printing]
  BY <1>1, <1>2, RowShownType
<1> QED BY <1>3 DEF Refreshed

\* A character stored in a line of a buffer or of the text, or outside of it.
LEMMA WrittenType ==
    ASSUME NEW h, NEW D, h \in [D -> Lines], NEW y, NEW x,
           NEW ch \in Printing \cup {"nul"}
    PROVE  [h EXCEPT ![y][x] = ch] \in [D -> Lines]
BY DEF Lines

-----------------------------------------------------------------------------
(* The buffer and the lines printed.                                       *)

\* The text with a new line, which the buffer does not have yet.
LEMMA KeepsAppend ==
    ASSUME NEW t \in Seq(Lines), NEW y, NEW h, Keeps(t, Len(t), y, h)
    PROVE  Behind(Append(t, EmptyLine), y, h)
<1>1. Len(t) \in Nat
  OBVIOUS
<1>2. Len(Append(t, EmptyLine)) = Len(t) + 1
  BY EmptyLineType
<1>3. \A k \in 1 .. Len(t) : Append(t, EmptyLine)[k] = t[k]
  BY EmptyLineType
<1>4. Append(t, EmptyLine)[Len(t) + 1] = EmptyLine
  BY EmptyLineType
<1>5. Len(Append(t, EmptyLine)) - 1 = Len(t)
  BY <1>1, <1>2
<1>6. \A k \in 0 .. y : Len(t) - y + k \in 1 .. Len(t)
  BY <1>1, ConsoleSizes DEF Keeps
<1>7. Keeps(Append(t, EmptyLine), Len(t), y, h)
  <2>1. \A k \in 0 .. y : h[k] = Append(t, EmptyLine)[Len(t) - y + k]
    BY <1>3, <1>6 DEF Keeps
  <2>2. Len(t) \in 1 .. Len(Append(t, EmptyLine))
    BY <1>1, <1>2 DEF Keeps
  <2> QED BY <2>1, <2>2 DEF Keeps
<1> QED BY <1>2, <1>4, <1>5, <1>7 DEF Behind

\* A character stored in the last line of both.
LEMMA KeepsWrite ==
    ASSUME NEW t \in Seq(Lines), NEW y, NEW h \in [0 .. MAX_HISTORY - 1 -> Lines],
           NEW x \in Line, NEW ch \in Printing, Keeps(t, Len(t), y, h)
    PROVE  LET s == [t EXCEPT ![Len(t)][x] = ch]
           IN  /\ s \in Seq(Lines) /\ Len(s) = Len(t)
               /\ Keeps(s, Len(s), y, [h EXCEPT ![y][x] = ch])
<1> DEFINE s == [t EXCEPT ![Len(t)][x] = ch]
           g == [h EXCEPT ![y][x] = ch]
<1>1. Len(t) \in Nat /\ Len(t) \in 1 .. Len(t) /\ y \in 0 .. MAX_HISTORY - 1
  BY DEF Keeps
<1>2. t \in [1 .. Len(t) -> Lines]
  OBVIOUS
<1>3. s \in [1 .. Len(t) -> Lines]
  BY <1>1, <1>2, WrittenType
<1>4. s \in Seq(Lines) /\ Len(s) = Len(t)
  BY <1>1, <1>3
<1>5. \A k \in 1 .. Len(t) - 1 : s[k] = t[k]
  BY <1>1, <1>2
<1>6. s[Len(t)] = [t[Len(t)] EXCEPT ![x] = ch]
  BY <1>1, <1>2
<1>7. \A k \in 0 .. MAX_HISTORY - 1 : k # y => g[k] = h[k]
  OBVIOUS
<1>8. g[y] = [h[y] EXCEPT ![x] = ch]
  BY <1>1
<1>9. h[y] = t[Len(t)]
  <2>1. h[y] = t[Len(t) - y + y]
    BY <1>1, ConsoleSizes DEF Keeps
  <2> QED BY <2>1, <1>1, ConsoleSizes
<1> HIDE DEF s, g
<1>10. \A k \in 0 .. y : g[k] = s[Len(t) - y + k]
  <2>1. TAKE k \in 0 .. y
  <2>2. CASE k = y
    BY <2>2, <1>1, <1>6, <1>8, <1>9, ConsoleSizes
  <2>3. CASE k # y
    <3>1. k \in 0 .. MAX_HISTORY - 1 /\ Len(t) - y + k \in 1 .. Len(t) - 1
      BY <2>3, <1>1, ConsoleSizes DEF Keeps
    <3>2. h[k] = t[Len(t) - y + k]
      BY DEF Keeps
    <3> QED BY <2>3, <3>1, <3>2, <1>5, <1>7
  <2> QED BY <2>2, <2>3
<1>11. \A k \in y + 1 .. MAX_HISTORY - 1 : g[k] = EmptyLine
  BY <1>1, <1>7, ConsoleSizes DEF Keeps
<1>12. Keeps(s, Len(t), y, g)
  BY <1>1, <1>4, <1>10, <1>11 DEF Keeps
<1> QED BY <1>4, <1>12 DEF s, g

\* The line after the last one is empty in a buffer that has room.
LEMMA BehindCatchesUp ==
    ASSUME NEW t \in Seq(Lines), NEW y \in 0 .. MAX_HISTORY - 1, NEW h, Behind(t, y - 1, h)
    PROVE  Keeps(t, Len(t), y, h)
<1>1. Len(t) \in Nat /\ MAX_HISTORY \in Nat
  BY ConsoleSizes
<1>2. /\ Len(t) - 1 \in 1 .. Len(t) /\ y - 1 \in 0 .. MAX_HISTORY - 1
      /\ y - 1 = Len(t) - 2
      /\ \A k \in 0 .. y - 1 : h[k] = t[Len(t) - 1 - (y - 1) + k]
      /\ \A k \in y - 1 + 1 .. MAX_HISTORY - 1 : h[k] = EmptyLine
      /\ t[Len(t)] = EmptyLine
  <2>1. PICK n, z : n = Len(t) - 1 /\ z = y - 1
    OBVIOUS
  <2>2. Keeps(t, n, z, h) /\ t[Len(t)] = EmptyLine
    BY <2>1 DEF Behind
  <2>3. /\ n \in 1 .. Len(t) /\ z \in 0 .. MAX_HISTORY - 1
        /\ z = n - 1 \/ (z = MAX_HISTORY - 1 /\ n >= MAX_HISTORY)
        /\ \A k \in 0 .. z : h[k] = t[n - z + k]
        /\ \A k \in z + 1 .. MAX_HISTORY - 1 : h[k] = EmptyLine
    BY <2>2 DEF Keeps
  <2>4. z = n - 1
    BY <1>1, <2>1, <2>3
  <2>5. y - 1 = Len(t) - 2
    BY <1>1, <2>1, <2>4
  <2> QED BY <2>1, <2>2, <2>3, <2>5
<1>3. y = Len(t) - 1
  BY <1>1, <1>2
<1>4. h[y] = t[Len(t) - y + y]
  BY <1>1, <1>2, <1>3
<1>5. \A k \in 0 .. y : h[k] = t[Len(t) - y + k]
  <2>1. TAKE k \in 0 .. y
  <2>2. CASE k = y
    BY <2>2, <1>4
  <2>3. CASE k # y
    <3>1. k \in 0 .. y - 1 /\ Len(t) - 1 - (y - 1) + k = Len(t) - y + k
      BY <2>3, <1>1
    <3> QED BY <3>1, <1>2
  <2> QED BY <2>2, <2>3
<1>6. \A k \in y + 1 .. MAX_HISTORY - 1 : h[k] = EmptyLine
  BY <1>1, <1>2
<1> QED BY <1>1, <1>2, <1>3, <1>5, <1>6 DEF Keeps

\* The lines of a full buffer move up.
LEMMA ShiftCatchesUp ==
    ASSUME NEW t \in Seq(Lines), TypeOK, Behind(t, MAX_HISTORY - 1, history_buffer)
    PROVE  Keeps(t, Len(t), MAX_HISTORY - 1, Shifted)
<1> DEFINE M == MAX_HISTORY - 1
           h == history_buffer
<1>1. Len(t) \in Nat /\ MAX_HISTORY \in Nat
  BY ConsoleSizes
<1>2. /\ Len(t) - 1 \in 1 .. Len(t) /\ M \in 0 .. M
      /\ Len(t) - 1 >= MAX_HISTORY
      /\ \A k \in 0 .. M : h[k] = t[Len(t) - 1 - M + k]
      /\ t[Len(t)] = EmptyLine
  <2>1. PICK n : n = Len(t) - 1
    OBVIOUS
  <2>2. Keeps(t, n, M, h) /\ t[Len(t)] = EmptyLine
    BY <2>1 DEF Behind
  <2>3. /\ n \in 1 .. Len(t) /\ M \in 0 .. M
        /\ M = n - 1 \/ n >= MAX_HISTORY
        /\ \A k \in 0 .. M : h[k] = t[n - M + k]
    BY <2>2 DEF Keeps
  <2>4. n >= MAX_HISTORY
    BY <1>1, <2>1, <2>3
  <2> QED BY <2>1, <2>2, <2>3, <2>4
<1>3. \A k \in 0 .. M : Shifted[k] = t[Len(t) - M + k]
  <2>1. TAKE k \in 0 .. M
  <2>2. CASE k = M
    <3>1. Len(t) - M + k = Len(t)
      BY <2>2, <1>1
    <3>2. Shifted[k] = EmptyLine
      BY <2>2, <1>1 DEF Shifted
    <3> QED BY <3>1, <3>2, <1>2
  <2>3. CASE k # M
    <3>1. k + 1 \in 0 .. M /\ Len(t) - 1 - M + (k + 1) = Len(t) - M + k /\ k < M
      BY <2>3, <1>1
    <3>2. Shifted[k] = h[k + 1]
      BY <3>1 DEF Shifted
    <3>3. h[k + 1] = t[Len(t) - 1 - M + (k + 1)]
      BY <3>1, <1>2
    <3> QED BY <3>1, <3>2, <3>3
  <2> QED BY <2>2, <2>3
<1> QED BY <1>1, <1>2, <1>3 DEF Keeps

-----------------------------------------------------------------------------
(* The types.                                                              *)

\* The lines printed, also when the cursor is outside of them.
LEMMA TextAfterType ==
    ASSUME TypeOK, NEW char \in Input
    PROVE  TextAfter(char) \in Seq(Lines)
<1>1. text \in Seq(Lines)
  BY DEF TypeOK
<1>2. ASSUME NEW x, NEW ch \in Printing
      PROVE  [text EXCEPT ![Len(text)][x] = ch] \in Seq(Lines)
  <2>1. PICK D, n : D = 1 .. Len(text) /\ n = Len(text)
    OBVIOUS
  <2>2. text \in [D -> Lines] /\ ch \in Printing \cup {"nul"}
    BY <1>1, <2>1
  <2>3. [text EXCEPT ![n][x] = ch] \in [D -> Lines]
    BY ONLY <2>2, WrittenType
  <2>4. PICK s : s = [text EXCEPT ![Len(text)][x] = ch]
    OBVIOUS
  <2>5. s \in [1 .. Len(text) -> Lines] /\ Len(text) \in Nat
    BY <1>1, <2>1, <2>3, <2>4
  <2>6. s \in Seq(Lines)
    BY ONLY <2>5
  <2> QED BY <2>4, <2>6
<1>3. \A t \in Seq(Lines) : Append(t, EmptyLine) \in Seq(Lines)
  BY EmptyLineType
<1>4. CASE char = "newline"
  BY <1>1, <1>3, <1>4 DEF TextAfter
<1>5. CASE char = "backspace"
  <2>1. " " \in Printing
    BY DEF Printing
  <2>2. [text EXCEPT ![Len(text)][g_cursor_x - 1] = " "] \in Seq(Lines)
    BY <1>2, <2>1
  <2> QED BY <1>1, <1>5, <2>2 DEF TextAfter
<1>6. CASE char = "control"
  BY <1>1, <1>6 DEF TextAfter
<1>7. CASE char \in Printing /\ char \notin {"newline", "backspace", "control"}
  BY <1>1, <1>2, <1>3, <1>7 DEF TextAfter
<1> QED BY <1>4, <1>5, <1>6, <1>7 DEF Input

\* Where a step leaves everything a type is about as it is.
LEMMA TypeKept ==
    ASSUME TypeOK, pc' \in {"idle", "newline", "live", "check", "correct", "back", "put", "look",
                            "paint", "advance"} \cup Drawing,
           UNCHANGED <<history_buffer, cursor, g_view_offset, screen, c, top, i, text>>,
           torn' \in BOOLEAN, mixed' \in BOOLEAN
    PROVE  TypeOK'
BY DEF TypeOK, cursor

\* The line a character is put in.
LEMMA PutLine ==
    ASSUME TypeOK, put
    PROVE  /\ g_cursor_y' \in 0 .. MAX_HISTORY - 1
           /\ g_cursor_y \in 0 .. MAX_HISTORY - 1 => g_cursor_y' = g_cursor_y
<1>1. PICK m : m = MAX_HISTORY - 1
  OBVIOUS
<1>2. m \in Int /\ m >= 0 /\ g_cursor_y \in Nat
  BY <1>1, ConsoleSizes DEF TypeOK
<1>3. Min({g_cursor_y, m}) = IF g_cursor_y <= m THEN g_cursor_y ELSE m
  BY <1>2, MinPair
<1>4. g_cursor_y' = Min({g_cursor_y, m})
  BY <1>1 DEF put
<1> QED BY <1>1, <1>2, <1>3, <1>4

LEMMA TypeStep ==
    ASSUME CInv, [Next]_vars
    PROVE  TypeOK'
<1> USE DEF cursor, ghosts
<1>1. TypeOK /\ Cursor /\ torn \in BOOLEAN /\ mixed \in BOOLEAN
  BY DEF CInv, TypeOK
<1>2. CASE kprint
  <2>1. PICK char \in Input : kprint_char(char)
    BY <1>2 DEF kprint, Input, Printing
  <2>2. text' \in Seq(Lines)
    BY <1>1, <2>1, TextAfterType DEF kprint_char
  <2>3. /\ UNCHANGED <<history_buffer, g_cursor_x, g_cursor_y, g_view_offset, screen, top, i, torn, mixed>>
        /\ c' \in Input
    BY <2>1 DEF kprint_char
  <2>4. pc' \in {"newline", "back", "idle", "put"}
    BY <2>1 DEF kprint_char
  <2> QED BY <1>1, <2>2, <2>3, <2>4 DEF TypeOK
<1>3. CASE newline
  <2>1. g_cursor_x' \in Nat /\ g_cursor_y' \in Nat
    BY <1>1, <1>3 DEF newline, TypeOK
  <2> QED BY <1>1, <1>3, <2>1 DEF newline, TypeOK
<1>4. CASE newline_view
  BY <1>1, <1>4 DEF newline_view, TypeOK
<1>5. CASE back
  <2>1. g_cursor_x' \in Nat
    <3>1. g_cursor_x > 0 /\ g_cursor_x \in Nat /\ g_cursor_x' = g_cursor_x - 1
      BY <1>1, <1>5 DEF back, Cursor, TypeOK
    <3> QED BY ONLY <3>1
  <2>2. history_buffer' \in [0 .. MAX_HISTORY - 1 -> Lines]
    <3>1. PICK D, y, x, ch : /\ D = 0 .. MAX_HISTORY - 1 /\ ch = " "
                             /\ y = g_cursor_y /\ x = g_cursor_x - 1
      OBVIOUS
    <3>2. ch \in Printing \cup {"nul"} /\ history_buffer \in [D -> Lines]
      BY <1>1, <3>1 DEF TypeOK, Printing
    <3>3. history_buffer' = [history_buffer EXCEPT ![y][x] = ch]
      BY <1>5, <3>1 DEF back
    <3>4. history_buffer' \in [D -> Lines]
      BY ONLY <3>2, <3>3, WrittenType
    <3> QED BY <3>1, <3>4
  <2> QED BY <1>1, <1>5, <2>1, <2>2 DEF back, TypeOK
<1>6. CASE put
  <2>1. g_cursor_y' \in Nat
    BY <1>1, <1>6, PutLine, ConsoleSizes
  <2>2. history_buffer' \in [0 .. MAX_HISTORY - 1 -> Lines]
    <3>1. PICK D, y, z, o : /\ D = 0 .. MAX_HISTORY - 1 /\ y = g_cursor_y' /\ z = y + 1 /\ o = 0
      OBVIOUS
    <3>2. PICK x, ch : x = g_cursor_x /\ ch = c
      OBVIOUS
    <3>3. ch \in Printing \cup {"nul"} /\ history_buffer \in [D -> Lines]
      BY <1>1, <1>6, <3>1, <3>2 DEF put, Cursor, TypeOK
    <3>4. \/ history_buffer' = [history_buffer EXCEPT ![y][x] = ch]
          \/ history_buffer' = history_buffer
          \/ history_buffer' = [history_buffer EXCEPT ![z][o] = ch]
      BY <1>6, <3>1, <3>2 DEF put, Stored
    <3>5. /\ [history_buffer EXCEPT ![y][x] = ch] \in [D -> Lines]
          /\ [history_buffer EXCEPT ![z][o] = ch] \in [D -> Lines]
      BY ONLY <3>3, WrittenType
    <3>6. history_buffer' \in [D -> Lines]
      BY ONLY <3>3, <3>4, <3>5
    <3> QED BY <3>1, <3>6
  <2> QED BY <1>1, <1>6, <2>1, <2>2 DEF put, TypeOK
<1>7. CASE look
  BY <1>1, <1>7, TypeKept DEF look, Advance
<1>8. CASE paint
  <2>1. (IF c = "backspace" THEN " " ELSE c) \in Printing \cup {"nul"}
    BY <1>1, <1>8 DEF paint, Cursor, Printing
  <2>2. PICK ch \in Printing : ch = Glyph(IF c = "backspace" THEN " " ELSE c)
    BY <2>1, GlyphType
  <2>3. screen' = [screen EXCEPT ![CursorRow][g_cursor_x] = ch]
    BY <1>8, <2>2 DEF paint, draw_char_on_screen
  <2>4. screen' \in [0 .. ROWS - 1 -> [Line -> Printing]]
    BY <1>1, <2>2, <2>3 DEF TypeOK
  <2> QED BY <1>1, <1>8, <2>4 DEF paint, TypeOK, Advance
<1>9. CASE advance
  <2>1. g_cursor_x' \in Nat /\ g_cursor_y' \in Nat /\ pc' \in {"idle", "check"}
    BY <1>1, <1>9 DEF advance, TypeOK
  <2> QED BY <1>1, <1>9, <2>1 DEF advance, TypeOK
<1>10. CASE check_history_scroll
  <2>1. Shifted \in [0 .. MAX_HISTORY - 1 -> Lines]
    <3>1. \A y \in 0 .. MAX_HISTORY - 1 : y < MAX_HISTORY - 1 => y + 1 \in 0 .. MAX_HISTORY - 1
      BY ConsoleSizes
    <3> QED BY <1>1, <3>1, EmptyLineType DEF Shifted, TypeOK
  <2>2. history_buffer' \in [0 .. MAX_HISTORY - 1 -> Lines]
    BY <1>1, <1>10, <2>1 DEF check_history_scroll, TypeOK
  <2>3. pc' \in {"correct", "bottom"}
    BY <1>10 DEF check_history_scroll
  <2> QED BY <1>1, <1>10, <2>2, <2>3 DEF check_history_scroll, TypeOK, Drawing
<1>11. CASE correct
  <2>1. g_cursor_y' \in Nat
    BY <1>11, ConsoleSizes DEF correct
  <2> QED BY <1>1, <1>11, <2>1 DEF correct, TypeOK, Drawing
<1>12. CASE bottom
  BY <1>1, <1>12, TypeKept DEF bottom, Drawing
<1>13. CASE console_refresh
  <2>1. g_cursor_y \in 0 .. MAX_HISTORY - 1 /\ g_view_offset \in Nat
    <3>1. g_cursor_y < MAX_HISTORY /\ g_cursor_y \in Nat /\ g_view_offset \in Nat
      BY <1>1, <1>13 DEF console_refresh, Cursor, Drawing, TypeOK
    <3> QED BY <3>1, ConsoleSizes
  <2>2. top' \in 0 .. g_cursor_y
    BY <1>13, <2>1, TopRowValue DEF console_refresh
  <2>3. top' \in 0 .. MAX_HISTORY - 1 /\ i' \in 0 .. ROWS - 1
    BY <1>13, <2>1, <2>2, ConsoleSizes DEF console_refresh
  <2>4. torn' \in BOOLEAN /\ pc' \in Drawing
    BY <1>13 DEF console_refresh, Drawing
  <2> QED BY <1>1, <1>13, <2>3, <2>4 DEF console_refresh, TypeOK
<1>14. CASE console_refresh_row
  <2>1. top \in Nat /\ i \in 0 .. ROWS - 1 /\ g_cursor_y \in Int
    BY <1>1, ConsoleSizes DEF TypeOK
  <2>2. RowShown(top, i, g_cursor_y) \in [Line -> Printing]
    BY <1>1, <2>1, RowShownType
  <2>3. screen' \in [0 .. ROWS - 1 -> [Line -> Printing]]
    BY <1>1, <1>14, <2>2 DEF console_refresh_row, TypeOK
  <2>4. i' \in 0 .. ROWS - 1 /\ top' \in 0 .. MAX_HISTORY - 1
    BY <1>1, <1>14, <2>1, ConsoleSizes DEF console_refresh_row, TypeOK
  <2>5. pc' \in Drawing \cup {"idle"}
    BY <1>14 DEF console_refresh_row, Drawing
  <2> QED BY <1>1, <1>14, <2>3, <2>4, <2>5 DEF console_refresh_row, TypeOK
<1>15. ASSUME NEW n \in {PAGE, -PAGE}, console_scroll(n)
       PROVE  TypeOK'
  <2>1. g_view_offset' \in Nat
    BY <1>1, <1>15, ScrolledValue DEF console_scroll
  <2>2. screen' \in [0 .. ROWS - 1 -> [Line -> Printing]]
    <3>1. PICK o \in Nat : o = g_view_offset'
      BY <2>1
    <3> QED BY <1>1, <1>15, <3>1, RefreshedType DEF console_scroll
  <2>3. torn' \in BOOLEAN
    BY <1>15 DEF console_scroll
  <2> QED BY <1>1, <1>15, <2>1, <2>2, <2>3 DEF console_scroll, TypeOK
<1>16. CASE init_keyboard \/ create_user_process \/ schedule \/ resume_kmain
  BY <1>1, <1>16, TypeKept
  DEF init_keyboard, create_user_process, schedule, resume_kmain, Phase, TypeOK
<1>17. CASE timer_callback
  <2>1. g_cursor_x' \in Nat
    BY <1>1, <1>17 DEF timer_callback, TypeOK
  <2>2. top' \in 0 .. MAX_HISTORY - 1 /\ i' \in 0 .. ROWS - 1
    BY <1>17, ConsoleSizes DEF timer_callback
  <2>3. torn' \in BOOLEAN /\ mixed' \in BOOLEAN
    BY <1>17 DEF timer_callback
  <2> QED BY <1>1, <1>17, <2>1, <2>2, <2>3 DEF timer_callback, TypeOK
<1>18. CASE UNCHANGED vars
  BY <1>1, <1>18, TypeKept DEF vars, TypeOK
<1> QED BY <1>2, <1>3, <1>4, <1>5, <1>6, <1>7, <1>8, <1>9, <1>10, <1>11, <1>12, <1>13, <1>14,
           <1>15, <1>16, <1>17, <1>18 DEF Next, Continue

-----------------------------------------------------------------------------
(* The cursor.                                                             *)

\* Where a step keeps the cursor and kprint_char, or has left the line.
LEMMA CursorKept ==
    ASSUME Cursor, UNCHANGED <<g_cursor_x, g_cursor_y, pc, c, mixed>>,
           torn' = torn \/ torn' = (torn \/ pc # "idle")
    PROVE  Cursor'
BY DEF Cursor, Inside

LEMMA CursorStep ==
    ASSUME CInv, [Next]_vars
    PROVE  Cursor'
<1> USE DEF cursor, ghosts
<1>1. /\ TypeOK /\ Cursor
      /\ g_cursor_x \in Nat /\ g_cursor_y \in Nat
  BY DEF CInv, TypeOK
<1>2. /\ MAX_HISTORY \in Nat /\ MAX_HISTORY > 0 /\ COLS \in Nat /\ COLS > 0
      /\ 0 \in Line
  BY ConsoleSizes DEF Line
<1>3. CASE kprint
  <2>1. PICK char \in Input : kprint_char(char)
    BY <1>3 DEF kprint, Input, Printing
  <2>2. /\ pc = "idle" /\ c' = char
        /\ UNCHANGED <<g_cursor_x, g_cursor_y, torn, mixed>>
        /\ pc' \in {"newline", "back", "idle", "put"}
        /\ pc' = "back" => char = "backspace" /\ g_cursor_x > 0
        /\ pc' = "put" => char \notin {"newline", "backspace", "control"}
    <3>1. g_cursor_x > 0 \/ g_cursor_x = 0
      BY <1>1
    <3> QED BY <2>1, <3>1 DEF kprint_char
  <2>3. pc' = "put" => char \in Printing
    BY <2>2 DEF Input
  <2> QED BY <1>1, <2>2, <2>3 DEF Cursor, Inside, Drawing
<1>4. CASE newline
  <2>1. /\ pc = "newline" /\ pc' = "live" /\ g_cursor_x' = 0 /\ g_cursor_y' = g_cursor_y + 1
        /\ UNCHANGED <<torn, mixed>>
    BY <1>4 DEF newline
  <2>2. g_cursor_y \in 0 .. MAX_HISTORY - 1 => g_cursor_y' \in 0 .. MAX_HISTORY
    BY <1>2, <2>1
  <2> QED BY <1>1, <1>2, <2>1, <2>2 DEF Cursor, Inside, Drawing
<1>5. CASE newline_view
  BY <1>1, <1>5 DEF newline_view, Cursor, Inside, Drawing
<1>6. CASE back
  <2>1. /\ pc = "back" /\ pc' = "look" /\ g_cursor_x' = g_cursor_x - 1 /\ g_cursor_x > 0
        /\ c = "backspace" /\ UNCHANGED <<g_cursor_y, c, torn, mixed>>
    BY <1>1, <1>6 DEF back, Cursor
  <2>2. g_cursor_x \in Line => g_cursor_x' \in Line
    BY <1>1, <1>2, <2>1 DEF Line
  <2> QED BY <1>1, <2>1, <2>2 DEF Cursor, Inside, Drawing
<1>7. CASE put
  <2>1. /\ pc = "put" /\ pc' = "look" /\ UNCHANGED <<g_cursor_x, c, torn, mixed>>
        /\ c \in Printing
    BY <1>1, <1>7 DEF put, Cursor
  <2>2. g_cursor_y' \in 0 .. MAX_HISTORY - 1
    BY <1>1, <1>7, PutLine
  <2>3. g_cursor_y' \in 0 .. MAX_HISTORY
    BY <1>2, <2>2
  <2> QED BY <1>1, <2>1, <2>2, <2>3 DEF Cursor, Inside, Drawing
<1>8. CASE look \/ paint
  <2>1. /\ pc \in {"look", "paint"} /\ pc' \in {"paint", Advance}
        /\ UNCHANGED <<g_cursor_x, g_cursor_y, c, torn, mixed>>
        /\ c \in Printing \cup {"backspace"}
    BY <1>1, <1>8 DEF look, paint, Cursor
  <2>2. pc' \in {"paint", "idle", "advance"} /\ (pc' = "advance" => c \in Printing)
    BY <2>1 DEF Advance
  <2> QED BY <1>1, <2>1, <2>2 DEF Cursor, Inside, Drawing
<1>9. CASE advance
  <2>1. pc = "advance" /\ UNCHANGED <<torn, mixed>>
    BY <1>9 DEF advance
  <2>2. CASE g_cursor_x + 1 < COLS
    <3>1. g_cursor_x' = g_cursor_x + 1 /\ pc' = "idle" /\ g_cursor_y' = g_cursor_y
      BY <1>9, <2>2 DEF advance
    <3>2. g_cursor_x' \in Line
      BY <1>1, <1>2, <2>2, <3>1 DEF Line
    <3> QED BY <1>1, <2>1, <3>1, <3>2 DEF Cursor, Inside, Drawing
  <2>3. CASE ~(g_cursor_x + 1 < COLS)
    <3>1. g_cursor_x' = 0 /\ g_cursor_y' = g_cursor_y + 1 /\ pc' = "check"
      BY <1>9, <2>3 DEF advance
    <3>2. g_cursor_y \in 0 .. MAX_HISTORY - 1 => g_cursor_y' \in 0 .. MAX_HISTORY
      BY <1>2, <3>1
    <3> QED BY <1>1, <1>2, <2>1, <3>1, <3>2 DEF Cursor, Inside, Drawing
  <2> QED BY <2>2, <2>3
<1>10. CASE check_history_scroll
  <2>1. /\ pc = "check" /\ pc' \in {"correct", "bottom"}
        /\ UNCHANGED <<g_cursor_x, g_cursor_y, torn, mixed>>
        /\ pc' = "bottom" => g_cursor_y \in 0 .. MAX_HISTORY - 1
    BY <1>1, <1>2, <1>10 DEF check_history_scroll, HistoryFull
  <2>2. pc' = "bottom" => g_cursor_y < MAX_HISTORY
    BY <1>2, <2>1
  <2> QED BY <1>1, <2>1, <2>2 DEF Cursor, Inside, Drawing
<1>11. CASE correct
  <2>1. /\ pc = "correct" /\ pc' = "refresh" /\ g_cursor_y' = MAX_HISTORY - 1
        /\ UNCHANGED <<g_cursor_x, torn, mixed>>
    BY <1>11 DEF correct
  <2>2. /\ g_cursor_y' \in 0 .. MAX_HISTORY - 1 /\ g_cursor_y' \in 0 .. MAX_HISTORY
        /\ g_cursor_y' < MAX_HISTORY
    BY <1>2, <2>1
  <2> QED BY <1>1, <2>1, <2>2 DEF Cursor, Inside, Drawing
<1>12. CASE bottom \/ console_refresh \/ console_refresh_row
  <2>1. /\ pc \in Drawing /\ pc' \in {"idle"} \cup Drawing
        /\ UNCHANGED <<g_cursor_x, g_cursor_y>>
    BY <1>12 DEF bottom, console_refresh, console_refresh_row, Drawing
  <2>2. g_cursor_x = 0 /\ g_cursor_y < MAX_HISTORY
    BY <1>1, <2>1 DEF Cursor
  <2>3. g_cursor_y \in 0 .. MAX_HISTORY - 1 /\ g_cursor_y \in 0 .. MAX_HISTORY
    BY <1>1, <1>2, <2>2
  <2>4. pc' \notin {"live", "check", "correct", "back", "put", "advance", "look", "paint"}
    BY <2>1 DEF Drawing
  <2> QED BY <1>2, <2>1, <2>2, <2>3, <2>4 DEF Cursor, Inside
<1>13. ASSUME NEW n \in {PAGE, -PAGE}, console_scroll(n)
       PROVE  Cursor'
  BY <1>1, <1>13, CursorKept DEF console_scroll
<1>14. CASE init_keyboard \/ create_user_process \/ schedule \/ resume_kmain
  BY <1>1, <1>14, CursorKept DEF init_keyboard, create_user_process, schedule, resume_kmain, Phase
<1>15. CASE timer_callback
  BY <1>15 DEF timer_callback, Cursor, Drawing
<1>16. CASE UNCHANGED vars
  BY <1>1, <1>16, CursorKept DEF vars
<1> QED BY <1>3, <1>4, <1>5, <1>6, <1>7, <1>8, <1>9, <1>10, <1>11, <1>12, <1>13, <1>14, <1>15,
           <1>16 DEF Next, Continue

-----------------------------------------------------------------------------
(* The buffer.                                                             *)

\* kprint_char decides what is to be written.
LEMMA HistoryPrint ==
    ASSUME TypeOK, Inside, History, NEW char \in Input, kprint_char(char)
    PROVE  History'
<1>1. /\ text \in Seq(Lines) /\ Keeps(text, Len(text), g_cursor_y, history_buffer)
      /\ history_buffer \in [0 .. MAX_HISTORY - 1 -> Lines] /\ g_cursor_x \in Line
  BY DEF kprint_char, TypeOK, Inside, History
<1>2. /\ UNCHANGED <<history_buffer, g_cursor_x, g_cursor_y>>
      /\ c' = char /\ text' = TextAfter(char)
  BY DEF kprint_char, cursor
<1>3. CASE char = "newline"
  <2>1. pc' = "newline" /\ text' = Append(text, EmptyLine)
    BY <1>2, <1>3 DEF kprint_char, TextAfter
  <2>2. Behind(text', g_cursor_y, history_buffer)
    BY <1>1, <2>1, KeepsAppend
  <2> QED BY <1>2, <2>1, <2>2 DEF History, Drawing
<1>4. CASE char = "control" \/ (char = "backspace" /\ g_cursor_x = 0)
  <2>1. ~(g_cursor_x = 0 /\ g_cursor_x > 0)
    BY <1>1, ConsoleSizes DEF Line
  <2>2. pc' = "idle" /\ text' = text
    BY <1>2, <1>4, <2>1 DEF kprint_char, TextAfter
  <2> QED BY <1>1, <1>2, <2>2 DEF History
<1>5. CASE char = "backspace" /\ g_cursor_x # 0
  <2>1. g_cursor_x > 0 /\ g_cursor_x - 1 \in Line
    BY <1>1, <1>5, ConsoleSizes DEF Line
  <2>2. pc' = "back" /\ text' = [text EXCEPT ![Len(text)][g_cursor_x - 1] = " "]
    BY <1>2, <1>5, <2>1 DEF kprint_char, TextAfter
  <2>3. " " \in Printing
    BY DEF Printing
  <2>4. PICK x, ch : x = g_cursor_x - 1 /\ ch = " "
    OBVIOUS
  <2>5. x \in Line /\ ch \in Printing /\ text' = [text EXCEPT ![Len(text)][x] = ch]
    BY <2>1, <2>2, <2>3, <2>4
  <2>6. Keeps(text', Len(text'), g_cursor_y, [history_buffer EXCEPT ![g_cursor_y][x] = ch])
    BY ONLY <1>1, <2>5, KeepsWrite
  <2>7. Keeps(text', Len(text'), g_cursor_y', Written(history_buffer, g_cursor_x - 1, " ")')
    BY <1>2, <2>4, <2>6 DEF Written
  <2> QED BY <1>2, <1>5, <2>1, <2>2, <2>7 DEF History, Drawing
<1>6. CASE char \in Printing /\ char \notin {"newline", "backspace", "control"}
  <2>1. PICK s : s = [text EXCEPT ![Len(text)][g_cursor_x] = char]
    OBVIOUS
  <2>2. PICK g : g = [history_buffer EXCEPT ![g_cursor_y][g_cursor_x] = char]
    OBVIOUS
  <2>3. s \in Seq(Lines) /\ Keeps(s, Len(s), g_cursor_y, g)
    BY ONLY <1>1, <1>6, <2>1, <2>2, KeepsWrite
  <2>4. pc' = "put" /\ text' = IF Wrapped THEN Append(s, EmptyLine) ELSE s
    BY <1>2, <1>6, <2>1 DEF kprint_char, TextAfter, Wrapped
  <2>5. Wrapped' <=> Wrapped
    BY <1>2 DEF Wrapped
  <2>6. IF Wrapped THEN Behind(text', g_cursor_y, g) ELSE Keeps(text', Len(text'), g_cursor_y, g)
    BY ONLY <2>3, <2>4, KeepsAppend
  <2>7. Written(history_buffer, g_cursor_x, c)' = g
    BY <1>2, <2>2 DEF Written
  <2>8. Placed(Written(history_buffer, g_cursor_x, c))'
    BY <1>2, <2>5, <2>6, <2>7 DEF Placed
  <2> QED BY <1>2, <1>6, <2>4, <2>8 DEF History, Drawing
<1> QED BY <1>3, <1>4, <1>5, <1>6 DEF Input

\* back and put write it.
LEMMA WriteStep ==
    ASSUME TypeOK, Cursor, Inside, back \/ put
    PROVE  /\ g_cursor_y' = g_cursor_y /\ g_cursor_x' \in Line
           /\ g_cursor_y \in 0 .. MAX_HISTORY - 1 /\ pc' = "look"
           /\ c' = c /\ c \in Printing \cup {"backspace"} /\ (c = "backspace" <=> back)
           /\ history_buffer' = [history_buffer EXCEPT
                                   ![g_cursor_y][g_cursor_x'] = IF c = "backspace" THEN " " ELSE c]
<1>1. g_cursor_y \in 0 .. MAX_HISTORY - 1 /\ g_cursor_x \in Line
  BY DEF back, put, Inside
<1>2. CASE back
  <2>1. g_cursor_x > 0 /\ c = "backspace"
    BY <1>2 DEF back, Cursor
  <2>2. g_cursor_x' = g_cursor_x - 1
    BY <1>2 DEF back
  <2>3. g_cursor_x' \in Line
    BY ONLY <1>1, <2>1, <2>2, ConsoleSizes DEF Line
  <2>4. g_cursor_y' = g_cursor_y /\ c' = "backspace" /\ pc' = "look"
    BY <1>2, <2>1 DEF back
  <2> QED BY <1>1, <1>2, <2>1, <2>2, <2>3, <2>4 DEF back
<1>3. CASE put
  <2>1. c \in Printing
    BY <1>3 DEF put, Cursor
  <2>2. c # "backspace"
    BY <2>1, NoSpecial DEF Printing
  <2>3. g_cursor_y' = g_cursor_y
    BY <1>1, <1>3, PutLine
  <2>4. c' = c /\ pc' = "look" /\ g_cursor_x' = g_cursor_x /\ pc = "put"
    BY <1>3 DEF put
  <2>5. history_buffer' = [history_buffer EXCEPT ![g_cursor_y][g_cursor_x] = c]
    BY <1>1, <1>3, <2>3 DEF put, Stored
  <2> QED BY <1>1, <2>1, <2>2, <2>3, <2>4, <2>5 DEF back
<1> QED BY <1>2, <1>3

LEMMA HistoryWrite ==
    ASSUME TypeOK, Cursor, Inside, History, back \/ put
    PROVE  History'
<1>1. /\ g_cursor_y' = g_cursor_y /\ pc' = "look" /\ c' = c
      /\ (c = "backspace" <=> back)
      /\ history_buffer' = [history_buffer EXCEPT
                              ![g_cursor_y][g_cursor_x'] = IF c = "backspace" THEN " " ELSE c]
  BY WriteStep
<1>2. text' = text
  BY DEF back, put, ghosts
<1>3. CASE back
  <2>1. history_buffer' = Written(history_buffer, g_cursor_x - 1, " ")
    BY <1>1, <1>3 DEF back, Written
  <2>2. Keeps(text', Len(text'), g_cursor_y', history_buffer')
    BY <1>1, <1>2, <1>3, <2>1 DEF back, History
  <2> QED BY <1>1, <1>3, <2>2 DEF History, Drawing
<1>4. CASE put /\ ~back
  <2>1. g_cursor_x' = g_cursor_x /\ c # "backspace"
    BY <1>1, <1>4 DEF put
  <2>2. history_buffer' = Written(history_buffer, g_cursor_x, c)
    BY <1>1, <2>1 DEF Written
  <2>3. Placed(history_buffer)'
    BY <1>1, <1>2, <1>4, <2>1, <2>2 DEF put, History, Placed, Wrapped
  <2> QED BY <1>1, <2>1, <2>3 DEF History, Drawing
<1> QED BY <1>3, <1>4

LEMMA HistoryStep ==
    ASSUME CInv, [Next]_vars, ~mixed'
    PROVE  History'
<1> USE DEF cursor, ghosts
<1>0. ~mixed /\ ~timer_callback
  <2>1. mixed' = mixed \/ timer_callback
    BY DEF Next, Continue, kprint, kprint_char, newline, newline_view, back, put, look, paint,
           advance, check_history_scroll, correct, bottom, console_refresh, console_refresh_row,
           console_scroll, init_keyboard, create_user_process, schedule, resume_kmain, Phase, vars
  <2>2. ~timer_callback
    BY DEF timer_callback
  <2> QED BY <2>1, <2>2
<1>1. TypeOK /\ Cursor /\ Inside /\ History /\ text \in Seq(Lines)
  BY <1>0 DEF CInv, TypeOK, Cursor
<1>2. CASE kprint
  <2>1. PICK char \in Input : kprint_char(char)
    BY <1>2 DEF kprint, Input, Printing
  <2> QED BY <1>1, <2>1, HistoryPrint
<1>3. CASE newline
  <2>1. Behind(text, g_cursor_y, history_buffer) /\ g_cursor_y \in 0 .. MAX_HISTORY - 1
    BY <1>1, <1>3 DEF newline, History, Inside
  <2>2. g_cursor_y' - 1 = g_cursor_y
    BY <1>3, <2>1, ConsoleSizes DEF newline
  <2>3. Behind(text', g_cursor_y' - 1, history_buffer')
    BY <1>3, <2>1, <2>2 DEF newline
  <2> QED BY <1>3, <2>3 DEF newline, History, Drawing
<1>4. CASE newline_view
  <2>1. Behind(text', g_cursor_y' - 1, history_buffer')
    BY <1>1, <1>4 DEF newline_view, History
  <2> QED BY <1>4, <2>1 DEF newline_view, History, Drawing
<1>5. CASE back \/ put
  BY <1>1, <1>5, HistoryWrite
<1>6. CASE look \/ paint
  <2>1. /\ UNCHANGED <<text, g_cursor_x, g_cursor_y, history_buffer, c>>
        /\ pc \in {"look", "paint"} /\ pc' \in {"paint", Advance}
    BY <1>6 DEF look, paint
  <2>2. c \in Printing \cup {"backspace"}
    BY <1>1, <2>1 DEF Cursor
  <2>3. CASE c = "backspace"
    <3>1. Keeps(text', Len(text'), g_cursor_y', history_buffer')
      BY <1>1, <2>1, <2>3 DEF History
    <3>2. pc' \in {"paint", "idle"}
      BY <2>1, <2>3 DEF Advance
    <3> QED BY <2>1, <2>3, <3>1, <3>2 DEF History, Drawing
  <2>4. CASE c # "backspace"
    <3>1. Placed(history_buffer)
      BY <1>1, <2>1, <2>4 DEF History
    <3>2. Placed(history_buffer)'
      BY <3>1, <2>1 DEF Placed, Wrapped
    <3>3. pc' \in {"paint", "advance"}
      BY <2>1, <2>4 DEF Advance
    <3> QED BY <2>1, <2>2, <2>4, <3>2, <3>3 DEF History, Drawing
  <2> QED BY <2>3, <2>4
<1>7. CASE advance
  <2>1. c \in Printing
    BY <1>1, <1>7 DEF advance, Cursor
  <2>2. c # "backspace"
    BY <2>1, NoSpecial DEF Printing
  <2>3. Placed(history_buffer) /\ g_cursor_x \in Line
    BY <1>1, <1>7, <2>2 DEF advance, History, Inside
  <2>4. UNCHANGED <<text, history_buffer>>
    BY <1>7 DEF advance
  <2>5. CASE g_cursor_x + 1 < COLS
    <3>1. ~Wrapped
      BY <2>3, <2>5, ConsoleSizes DEF Wrapped, Line
    <3>2. pc' = "idle" /\ g_cursor_y' = g_cursor_y
      BY <1>7, <2>5 DEF advance
    <3>3. Keeps(text', Len(text'), g_cursor_y', history_buffer')
      BY <2>3, <2>4, <3>1, <3>2 DEF Placed
    <3> QED BY <3>2, <3>3 DEF History
  <2>6. CASE ~(g_cursor_x + 1 < COLS)
    <3>1. Wrapped
      BY <2>3, <2>6, ConsoleSizes DEF Wrapped, Line
    <3>2. pc' = "check" /\ g_cursor_y' = g_cursor_y + 1
      BY <1>7, <2>6 DEF advance
    <3>3. g_cursor_y' - 1 = g_cursor_y
      BY <3>2, <1>1, ConsoleSizes DEF TypeOK
    <3>4. Behind(text', g_cursor_y' - 1, history_buffer')
      BY <2>3, <2>4, <3>1, <3>3 DEF Placed
    <3> QED BY <3>2, <3>4 DEF History, Drawing
  <2> QED BY <2>5, <2>6
<1>8. CASE check_history_scroll
  <2>1. Behind(text, g_cursor_y - 1, history_buffer) /\ g_cursor_y \in 0 .. MAX_HISTORY
    BY <1>1, <1>8 DEF check_history_scroll, History, Inside
  <2>2. text' = text /\ g_cursor_y' = g_cursor_y
    BY <1>8 DEF check_history_scroll
  <2>3. CASE g_cursor_y >= MAX_HISTORY
    <3>1. g_cursor_y = MAX_HISTORY
      BY <2>1, <2>3, ConsoleSizes
    <3>2. pc' = "correct" /\ history_buffer' = Shifted
      BY <1>8, <2>3 DEF check_history_scroll, HistoryFull
    <3>3. Keeps(text, Len(text), MAX_HISTORY - 1, Shifted)
      BY <1>1, <2>1, <3>1, ShiftCatchesUp
    <3> QED BY <2>2, <3>1, <3>2, <3>3 DEF History, Drawing
  <2>4. CASE ~(g_cursor_y >= MAX_HISTORY)
    <3>1. g_cursor_y \in 0 .. MAX_HISTORY - 1
      BY <2>1, <2>4, ConsoleSizes
    <3>2. pc' = "bottom" /\ history_buffer' = history_buffer
      BY <1>8, <2>4 DEF check_history_scroll, HistoryFull
    <3>3. Keeps(text, Len(text), g_cursor_y, history_buffer)
      BY <1>1, <2>1, <3>1, BehindCatchesUp
    <3> QED BY <2>2, <3>2, <3>3 DEF History, Drawing
  <2> QED BY <2>3, <2>4
<1>9. CASE correct
  <2>1. g_cursor_y' = g_cursor_y - 1 /\ pc' = "refresh"
    BY <1>1, <1>9 DEF correct, History
  <2>2. Keeps(text', Len(text'), g_cursor_y', history_buffer')
    BY <1>1, <1>9, <2>1 DEF correct, History
  <2> QED BY <2>1, <2>2 DEF History, Drawing
<1>10. CASE \/ bottom \/ console_refresh \/ console_refresh_row
            \/ init_keyboard \/ create_user_process \/ schedule \/ resume_kmain
  <2>1. /\ pc \in {"idle"} \cup Drawing /\ pc' \in {"idle"} \cup Drawing
        /\ UNCHANGED <<text, g_cursor_y, history_buffer>>
    BY <1>10 DEF bottom, console_refresh, console_refresh_row, init_keyboard, create_user_process,
                 schedule, resume_kmain, Phase, Drawing
  <2>2. Keeps(text', Len(text'), g_cursor_y', history_buffer')
    BY <1>1, <2>1 DEF History
  <2> QED BY <2>1, <2>2 DEF History, Drawing
<1>11. ASSUME NEW n \in {PAGE, -PAGE}, console_scroll(n)
       PROVE  History'
  <2>1. UNCHANGED <<text, g_cursor_x, g_cursor_y, history_buffer, c, pc>>
    BY <1>11 DEF console_scroll
  <2> QED BY <1>1, <2>1 DEF History, Placed, Written, Wrapped
<1>12. CASE UNCHANGED vars
  BY <1>1, <1>12 DEF vars, History, Placed, Written, Wrapped
<1> QED BY <1>0, <1>2, <1>3, <1>4, <1>5, <1>6, <1>7, <1>8, <1>9, <1>10, <1>11, <1>12 DEF Next, Continue

-----------------------------------------------------------------------------
(* The screen.                                                             *)

\* A character stored in line y changes the row that shows line y, there.
LEMMA RowAfterWrite ==
    ASSUME TypeOK, NEW y \in 0 .. MAX_HISTORY - 1, NEW x \in Line, NEW ch \in Printing,
           history_buffer' = [history_buffer EXCEPT ![y][x] = ch],
           NEW t \in Nat, NEW r \in 0 .. ROWS - 1
    PROVE  RowShown(t, r, y)' = IF t + r = y THEN [RowShown(t, r, y) EXCEPT ![x] = ch]
                                ELSE RowShown(t, r, y)
<1>1. history_buffer \in [0 .. MAX_HISTORY - 1 -> Lines]
  BY DEF TypeOK
<1>2. PICK k : k = t + r
  OBVIOUS
<1>3. k \in Nat /\ MAX_HISTORY \in Nat
  BY <1>2, ConsoleSizes
<1>4. CASE k > y
  <2>1. RowShown(t, r, y)' = BlankLine /\ RowShown(t, r, y) = BlankLine
    BY <1>2, <1>4 DEF RowShown, BlankLine, Line
  <2> QED BY <1>2, <1>3, <1>4, <2>1
<1>5. CASE k < y
  <2>1. k \in 0 .. MAX_HISTORY - 1 /\ k # y /\ ~(k > y \/ k >= MAX_HISTORY)
    BY <1>3, <1>5
  <2>2. history_buffer'[k] = history_buffer[k]
    BY <1>1, <2>1
  <2>3. RowShown(t, r, y)' = RowShown(t, r, y)
    BY <1>2, <2>1, <2>2 DEF RowShown
  <2> QED BY <1>2, <2>1, <2>3
<1>6. CASE k = y
  <2>1. ~(k > y \/ k >= MAX_HISTORY)
    BY <1>3, <1>6
  <2>2. history_buffer'[k] = [history_buffer[k] EXCEPT ![x] = ch]
    BY <1>1, <1>6
  <2>3. history_buffer[k] \in [Line -> Printing \cup {"nul"}]
    BY <1>1, <1>6 DEF Lines
  <2>4. ch # "nul"
    BY NoSpecial DEF Printing
  <2>5. Glyph(ch) = ch
    BY <2>4 DEF Glyph
  <2>6. RowShown(t, r, y) = [j \in Line |-> Glyph(history_buffer[k][j])]
    BY <1>2, <2>1 DEF RowShown
  <2>7. RowShown(t, r, y)' = [j \in Line |-> Glyph(history_buffer'[k][j])]
    BY <1>2, <2>1 DEF RowShown, Line, Glyph
  <2>8. \A j \in Line : history_buffer'[k][j] = IF j = x THEN ch ELSE history_buffer[k][j]
    BY <2>2, <2>3
  <2>9. PICK f, g : f = RowShown(t, r, y) /\ g = RowShown(t, r, y)'
    OBVIOUS
  <2>10. /\ f = [j \in Line |-> f[j]] /\ g = [j \in Line |-> g[j]]
         /\ \A j \in Line : g[j] = IF j = x THEN ch ELSE f[j]
    BY <2>5, <2>6, <2>7, <2>8, <2>9
  <2>11. g = [f EXCEPT ![x] = ch]
    BY ONLY <2>10
  <2> QED BY <1>2, <1>6, <2>9, <2>11
<1> QED BY <1>3, <1>4, <1>5, <1>6

\* With the cursor below the first screen, the line it is in is the last row of
\* a view that is not scrolled, and not on the screen of one that is.
LEMMA CursorOnScreen ==
    ASSUME NEW y \in ROWS .. MAX_HISTORY - 1, NEW o \in Nat, NEW r \in 0 .. ROWS - 1
    PROVE  (TopRow(y, o) + r = y) <=> (o = 0 /\ r = ROWS - 1)
<1>1. ROWS \in Nat /\ ROWS > 0 /\ MAX_HISTORY \in Nat
  BY ConsoleSizes
<1>2. y \in 0 .. MAX_HISTORY - 1
  BY <1>1
<1>3. TopRow(y, o) = IF y - (ROWS - 1) - o > 0 THEN y - (ROWS - 1) - o ELSE 0
  BY <1>2, TopRowValue
<1> QED BY <1>1, <1>3

\* What a stored character asks of the screen: to be drawn, or nothing.
LEMMA ViewAfterWrite ==
    ASSUME TypeOK, NEW y \in ROWS .. MAX_HISTORY - 1, NEW o \in Nat, NEW x \in Line,
           NEW ch \in Printing, history_buffer' = [history_buffer EXCEPT ![y][x] = ch],
           screen = Refreshed(y, o)
    PROVE  Refreshed(y, o)' = IF o = 0 THEN [screen EXCEPT ![ROWS - 1][x] = ch] ELSE screen
<1>1. ROWS \in Nat /\ ROWS > 0 /\ MAX_HISTORY \in Nat
  BY ConsoleSizes
<1>2. y \in 0 .. MAX_HISTORY - 1
  BY <1>1
<1>3. PICK t : t = TopRow(y, o)
  OBVIOUS
<1>4. t \in Nat
  BY <1>2, <1>3, TopRowValue
<1>5. \A r \in 0 .. ROWS - 1 : screen[r] = RowShown(t, r, y)
  BY <1>3 DEF Refreshed
<1>6. screen \in [0 .. ROWS - 1 -> [Line -> Printing]]
  BY DEF TypeOK
<1>7. \A r \in 0 .. ROWS - 1 : RowShown(t, r, y)' = IF o = 0 /\ r = ROWS - 1
                                                    THEN [screen[r] EXCEPT ![x] = ch] ELSE screen[r]
  <2>1. TAKE r \in 0 .. ROWS - 1
  <2>2. RowShown(t, r, y)' = IF t + r = y THEN [RowShown(t, r, y) EXCEPT ![x] = ch]
                             ELSE RowShown(t, r, y)
    BY <1>2, <1>4, RowAfterWrite
  <2>3. (t + r = y) <=> (o = 0 /\ r = ROWS - 1)
    BY <1>3, CursorOnScreen
  <2> QED BY <1>5, <2>2, <2>3
<1>8. Refreshed(y, o)' = [r \in 0 .. ROWS - 1 |-> RowShown(t, r, y)']
  BY <1>3 DEF Refreshed, TopRow
<1>9. CASE o = 0
  BY <1>1, <1>6, <1>7, <1>8, <1>9
<1>10. CASE o # 0
  BY <1>6, <1>7, <1>8, <1>10
<1> QED BY <1>9, <1>10

LEMMA ViewStep ==
    ASSUME CInv, [Next]_vars
    PROVE  View'
<1> USE DEF cursor, ghosts
<1>1. TypeOK /\ Cursor /\ View
  BY DEF CInv
<1>2. CASE kprint
  <2>1. PICK char \in Input : kprint_char(char)
    BY <1>2 DEF kprint, Input, Printing
  <2>2. /\ pc = "idle" /\ pc' \in {"newline", "back", "idle", "put"}
        /\ UNCHANGED <<history_buffer, g_cursor_y, g_view_offset, screen, torn>>
    BY <2>1 DEF kprint_char
  <2>3. Refreshed(g_cursor_y, g_view_offset)' = Refreshed(g_cursor_y, g_view_offset)
    BY <2>2 DEF Refreshed, RowShown, TopRow
  <2> QED BY <1>1, <2>2, <2>3 DEF View
<1>3. CASE newline \/ newline_view \/ check_history_scroll \/ correct
  <2>1. pc' \in {"live", "check", "correct", "bottom", "refresh"}
    BY <1>3 DEF newline, newline_view, check_history_scroll, correct
  <2> QED BY <2>1 DEF View
<1>4. CASE back \/ put
  <2>0. UNCHANGED <<g_view_offset, screen, torn>> /\ pc \in {"back", "put"} /\ pc' = "look"
    BY <1>4 DEF back, put
  <2>2. SUFFICES ASSUME ~torn
                 PROVE  View'
    BY <2>0 DEF View
  <2>1. /\ g_cursor_y' = g_cursor_y /\ g_cursor_x' \in Line
        /\ g_cursor_y \in 0 .. MAX_HISTORY - 1
        /\ c' = c /\ c \in Printing \cup {"backspace"}
        /\ history_buffer' = [history_buffer EXCEPT
                                ![g_cursor_y][g_cursor_x'] = IF c = "backspace" THEN " " ELSE c]
    <3>1. Inside
      BY <1>1, <2>2 DEF Cursor
    <3> QED BY <1>1, <1>4, <3>1, WriteStep
  <2>3. SUFFICES ASSUME g_cursor_y >= ROWS
                 PROVE  IF g_view_offset = 0 THEN Painted' = Refreshed(g_cursor_y, 0)'
                        ELSE screen = Refreshed(g_cursor_y, g_view_offset)'
    BY <2>0, <2>1 DEF View
  <2>4. PICK y, o, x, ch : /\ y = g_cursor_y /\ o = g_view_offset /\ x = g_cursor_x'
                           /\ ch = IF c = "backspace" THEN " " ELSE c
    OBVIOUS
  <2>5. y \in ROWS .. MAX_HISTORY - 1 /\ o \in Nat /\ x \in Line
    <3>1. y \in 0 .. MAX_HISTORY - 1 /\ y >= ROWS /\ x \in Line
      BY <2>1, <2>3, <2>4
    <3>2. o \in Nat
      BY <1>1, <2>4 DEF TypeOK
    <3> QED BY <3>1, <3>2, ConsoleSizes
  <2>6. ch \in Printing
    BY <2>1, <2>4 DEF Printing
  <2>7. screen = Refreshed(y, o)
    BY <1>1, <2>0, <2>2, <2>3, <2>4 DEF View
  <2>8. history_buffer' = [history_buffer EXCEPT ![y][x] = ch]
    BY <2>1, <2>4
  <2>9. Refreshed(y, o)' = IF o = 0 THEN [screen EXCEPT ![ROWS - 1][x] = ch] ELSE screen
    BY ONLY <1>1, <2>5, <2>6, <2>7, <2>8, ViewAfterWrite
  <2>10. Painted' = [screen EXCEPT ![ROWS - 1][x] = ch]
    BY <2>0, <2>1, <2>4 DEF Painted
  <2>11. y = g_cursor_y' /\ o = g_view_offset'
    BY <2>0, <2>1, <2>4
  <2>12. Refreshed(y, o)' = Refreshed(g_cursor_y, g_view_offset)'
    BY ONLY <2>11 DEF Refreshed, RowShown, TopRow
  <2>13. CASE o = 0
    <3>1. Refreshed(y, o)' = Refreshed(g_cursor_y, 0)'
      BY ONLY <2>11, <2>13 DEF Refreshed, RowShown, TopRow
    <3> QED BY <2>4, <2>9, <2>10, <2>13, <3>1
  <2>14. CASE o # 0
    BY <2>4, <2>9, <2>12, <2>14
  <2> QED BY <2>13, <2>14
<1>5. CASE look
  <2>1. /\ pc = "look" /\ pc' = IF g_view_offset = 0 THEN "paint" ELSE Advance
        /\ UNCHANGED <<history_buffer, g_cursor_x, g_cursor_y, g_view_offset, screen, torn, c>>
    BY <1>5 DEF look
  <2>2. Refreshed(g_cursor_y, g_view_offset)' = Refreshed(g_cursor_y, g_view_offset)
    BY <2>1 DEF Refreshed, RowShown, TopRow
  <2>3. Refreshed(g_cursor_y, 0)' = Refreshed(g_cursor_y, 0) /\ Painted' = Painted
    BY <2>1 DEF Refreshed, RowShown, TopRow, Painted
  <2>4. CASE g_view_offset = 0
    <3>1. pc' = "paint" /\ g_view_offset' = 0
      BY <2>1, <2>4
    <3> QED BY <1>1, <2>1, <2>3, <2>4, <3>1 DEF View
  <2>5. CASE g_view_offset # 0
    <3>1. pc' \in {"idle", "advance"}
      BY <2>1, <2>5 DEF Advance
    <3> QED BY <1>1, <2>1, <2>2, <2>5, <3>1 DEF View
  <2> QED BY <2>4, <2>5
<1>6. CASE paint
  <2>1. /\ pc = "paint" /\ pc' \in {"idle", "advance"}
        /\ UNCHANGED <<history_buffer, g_cursor_x, g_cursor_y, g_view_offset, torn, c>>
    BY <1>6 DEF paint, Advance
  <2>2. c \in Printing \cup {"backspace"}
    BY <1>1, <2>1 DEF Cursor
  <2>3. c # "nul"
    BY <2>2, NoSpecial DEF Printing
  <2>4. SUFFICES ASSUME ~torn, g_cursor_y >= ROWS
                 PROVE  screen' = Refreshed(g_cursor_y, g_view_offset)'
    BY <2>1 DEF View
  <2>5. CursorRow = ROWS - 1
    BY <2>4 DEF CursorRow
  <2>6. Glyph(IF c = "backspace" THEN " " ELSE c) = IF c = "backspace" THEN " " ELSE c
    BY <2>3 DEF Glyph
  <2>7. screen' = Painted
    BY <1>6, <2>5, <2>6 DEF paint, draw_char_on_screen, Painted
  <2>8. g_view_offset = 0 /\ Painted = Refreshed(g_cursor_y, 0)
    BY <1>1, <2>1, <2>4 DEF View
  <2>9. Refreshed(g_cursor_y, g_view_offset)' = Refreshed(g_cursor_y, 0)
    BY <2>1, <2>8 DEF Refreshed, RowShown, TopRow
  <2> QED BY <2>7, <2>8, <2>9
<1>7. CASE advance
  <2>1. UNCHANGED <<history_buffer, g_view_offset, screen, torn>> /\ pc = "advance"
    BY <1>7 DEF advance
  <2>2. CASE pc' = "check"
    BY <2>2 DEF View
  <2>3. CASE pc' = "idle" /\ g_cursor_y' = g_cursor_y
    <3>1. Refreshed(g_cursor_y, g_view_offset)' = Refreshed(g_cursor_y, g_view_offset)
      BY <2>1, <2>3 DEF Refreshed, RowShown, TopRow
    <3> QED BY <1>1, <2>1, <2>3, <3>1 DEF View
  <2> QED BY <1>7, <2>2, <2>3 DEF advance
<1>8. CASE bottom
  <2>1. pc' = "refresh_last" \/ (pc' = "idle" /\ ~(g_cursor_y' >= ROWS))
    BY <1>8 DEF bottom, BelowScreen
  <2> QED BY <2>1 DEF View
<1>9. CASE console_refresh
  <2>1. /\ pc' \in {"row", "row_last"} /\ i' = 0
        /\ UNCHANGED <<g_cursor_y, g_view_offset>> /\ top' = TopRow(g_cursor_y, g_view_offset)
    BY <1>9 DEF console_refresh
  <2>2. top' = TopRow(g_cursor_y, g_view_offset)'
    BY <2>1 DEF TopRow
  <2> QED BY <2>1, <2>2 DEF View
<1>10. CASE console_refresh_row
  <2>1. /\ pc \in {"row", "row_last"}
        /\ UNCHANGED <<history_buffer, g_cursor_y, g_view_offset, torn>>
        /\ screen' = [screen EXCEPT ![i] = RowShown(top, i, g_cursor_y)]
    BY <1>10 DEF console_refresh_row
  <2>2. /\ screen \in [0 .. ROWS - 1 -> [Line -> Printing]] /\ i \in 0 .. ROWS - 1
        /\ ROWS \in Nat
    BY <1>1, ConsoleSizes DEF TypeOK
  <2>3. SUFFICES ASSUME ~torn
                 PROVE  View'
    BY <2>1 DEF View
  <2>4. /\ top = TopRow(g_cursor_y, g_view_offset)
        /\ \A r \in 0 .. i - 1 : screen[r] = RowShown(top, r, g_cursor_y)
    BY <1>1, <2>1, <2>3 DEF View
  <2>5. \A r \in 0 .. i : screen'[r] = RowShown(top, r, g_cursor_y)
    <3>1. TAKE r \in 0 .. i
    <3>2. CASE r = i
      BY <2>1, <2>2, <3>2
    <3>3. CASE r # i
      <4>1. r \in 0 .. i - 1
        BY <2>2, <3>3
      <4>2. screen'[r] = screen[r]
        BY <2>1, <2>2, <3>3, <4>1
      <4> QED BY <2>4, <4>1, <4>2
    <3> QED BY <3>2, <3>3
  <2>6. \A r \in 0 .. ROWS - 1 : RowShown(top, r, g_cursor_y) = RowShown(TopRow(g_cursor_y, g_view_offset), r, g_cursor_y)'
    BY <2>1, <2>4 DEF RowShown, TopRow
  <2>7. CASE i + 1 < ROWS
    <3>1. i' = i + 1 /\ pc' = pc /\ top' = top
      BY <1>10, <2>7 DEF console_refresh_row
    <3>2. \A r \in 0 .. i' - 1 : screen'[r] = RowShown(top, r, g_cursor_y)'
      <4>1. i' - 1 = i
        BY <2>2, <3>1
      <4> QED BY <2>1, <2>5, <3>1, <4>1 DEF RowShown
    <3>3. top' = TopRow(g_cursor_y, g_view_offset)'
      BY <2>1, <2>4, <3>1 DEF TopRow
    <3> QED BY <2>1, <3>1, <3>2, <3>3 DEF View
  <2>8. CASE ~(i + 1 < ROWS)
    <3>1. i = ROWS - 1
      BY <2>2, <2>8
    <3>2. screen' \in [0 .. ROWS - 1 -> [Line -> Printing]]
      BY TypeStep DEF TypeOK
    <3>3. screen' = [r \in 0 .. ROWS - 1 |-> screen'[r]]
      BY <3>2
    <3>4. Refreshed(g_cursor_y, g_view_offset)'
            = [r \in 0 .. ROWS - 1 |-> RowShown(TopRow(g_cursor_y, g_view_offset), r, g_cursor_y)']
      BY DEF Refreshed
    <3>5. \A r \in 0 .. ROWS - 1 : screen'[r] = RowShown(TopRow(g_cursor_y, g_view_offset), r, g_cursor_y)'
      BY <2>5, <2>6, <3>1
    <3>6. screen' = Refreshed(g_cursor_y, g_view_offset)'
      BY <3>3, <3>4, <3>5
    <3>7. pc' \in {"bottom", "idle"}
      BY <1>10, <2>8 DEF console_refresh_row
    <3> QED BY <3>6, <3>7 DEF View
  <2> QED BY <2>7, <2>8
<1>11. ASSUME NEW n \in {PAGE, -PAGE}, console_scroll(n)
       PROVE  View'
  <2>1. /\ screen' = Refreshed(g_cursor_y, g_view_offset')
        /\ UNCHANGED <<g_cursor_y, history_buffer, pc>> /\ torn' = (torn \/ pc # "idle")
    BY <1>11 DEF console_scroll
  <2>2. Refreshed(g_cursor_y, g_view_offset)' = Refreshed(g_cursor_y, g_view_offset')
    BY <2>1 DEF Refreshed, RowShown, TopRow
  <2>3. CASE pc = "idle"
    BY <2>1, <2>2, <2>3 DEF View
  <2>4. CASE pc # "idle"
    <3>1. torn'
      BY <2>1, <2>4
    <3> QED BY <3>1 DEF View
  <2> QED BY <2>3, <2>4
<1>12. CASE init_keyboard \/ create_user_process \/ schedule \/ resume_kmain \/ UNCHANGED vars
  <2>1. UNCHANGED <<history_buffer, g_cursor_x, g_cursor_y, g_view_offset, screen, torn, pc, c, top, i>>
    BY <1>12 DEF init_keyboard, create_user_process, schedule, resume_kmain, Phase, vars
  <2>2. Refreshed(g_cursor_y, g_view_offset)' = Refreshed(g_cursor_y, g_view_offset)
    BY <2>1 DEF Refreshed, RowShown, TopRow
  <2>3. Refreshed(g_cursor_y, 0)' = Refreshed(g_cursor_y, 0) /\ Painted' = Painted
    BY <2>1 DEF Refreshed, RowShown, TopRow, Painted
  <2>4. TopRow(g_cursor_y, g_view_offset)' = TopRow(g_cursor_y, g_view_offset)
    BY <2>1 DEF TopRow
  <2>5. \A r : RowShown(top, r, g_cursor_y)' = RowShown(top, r, g_cursor_y)
    BY <2>1 DEF RowShown
  <2> QED BY <1>1, <2>1, <2>2, <2>3, <2>4, <2>5 DEF View
<1>13. CASE timer_callback
  <2>1. torn'
    BY <1>13 DEF timer_callback
  <2> QED BY <2>1 DEF View
<1> QED BY <1>2, <1>3, <1>4, <1>5, <1>6, <1>7, <1>8, <1>9, <1>10, <1>11, <1>12, <1>13
        DEF Next, Continue

-----------------------------------------------------------------------------
(* The theorems.                                                           *)

LEMMA InitCInv == Init => CInv
<1> SUFFICES ASSUME Init PROVE CInv
  OBVIOUS
<1>1. /\ history_buffer = [y \in 0 .. MAX_HISTORY - 1 |-> EmptyLine]
      /\ g_cursor_x = 0 /\ g_cursor_y = 0 /\ g_view_offset = 0
      /\ screen = [r \in 0 .. ROWS - 1 |-> BlankLine]
      /\ pc = "idle" /\ c = "nul" /\ top = 0 /\ i = 0
      /\ text = <<EmptyLine>> /\ torn = FALSE /\ mixed = FALSE
  BY DEF Init, console_init
<1>2. text \in Seq(Lines) /\ Len(text) = 1 /\ text[1] = EmptyLine
  BY <1>1, EmptyLineType
<1>3. /\ g_cursor_x \in Line /\ g_cursor_y \in 0 .. MAX_HISTORY - 1 /\ g_cursor_y \in 0 .. MAX_HISTORY
      /\ g_cursor_x \in Nat /\ g_cursor_y \in Nat /\ g_view_offset \in Nat /\ top \in 0 .. MAX_HISTORY - 1 /\ i \in 0 .. ROWS - 1
  BY <1>1, ConsoleSizes DEF Line
<1>4. BlankLine \in [Line -> Printing]
  BY DEF BlankLine, Printing
<1>5. torn \in BOOLEAN /\ mixed \in BOOLEAN
  BY <1>1
<1>6. /\ history_buffer \in [0 .. MAX_HISTORY - 1 -> Lines]
      /\ screen \in [0 .. ROWS - 1 -> [Line -> Printing]]
  BY <1>1, <1>4, EmptyLineType
<1>7. TypeOK
  BY <1>1, <1>2, <1>3, <1>5, <1>6 DEF TypeOK
<1>8. Keeps(text, Len(text), g_cursor_y, history_buffer)
  <2>1. \A k \in 0 .. g_cursor_y : history_buffer[k] = text[Len(text) - g_cursor_y + k]
    BY <1>1, <1>2, <1>3
  <2>2. \A k \in g_cursor_y + 1 .. MAX_HISTORY - 1 : history_buffer[k] = EmptyLine
    BY <1>1, ConsoleSizes
  <2>3. Len(text) \in 1 .. Len(text) /\ g_cursor_y = Len(text) - 1
    BY <1>1, <1>2
  <2> QED BY <1>3, <2>1, <2>2, <2>3 DEF Keeps
<1>9. History
  BY <1>1, <1>8 DEF History
<1>10. ~(g_cursor_y >= ROWS)
  BY <1>1, ConsoleSizes
<1>11. View
  BY <1>1, <1>10 DEF View
<1>12. Cursor
  BY <1>1, <1>3 DEF Cursor, Inside, Drawing
<1> QED BY <1>7, <1>9, <1>11, <1>12 DEF CInv

\* The inductive invariant: in every step of kprint_char, whatever page keys
\* come in between, what the buffer lacks of the text is what the rest of it
\* adds, unless a tick switched inside a kprint_char; and what the screen lacks
\* of the buffer is what the rest of it draws, from the first console_refresh
\* after such a switch.
THEOREM ConsoleInvariant == Spec => []CInv
<1>1. Init => CInv
  BY InitCInv
<1>2. CInv /\ [Next]_vars => CInv'
  BY TypeStep, CursorStep, HistoryStep, ViewStep DEF CInv
<1> QED BY <1>1, <1>2, PTL DEF Spec

\* Between two characters the buffer of console.c holds the last lines printed,
\* and the cursor leaves it only until check_history_scroll has moved them, as
\* long as no tick switches from kmain to init inside a kprint_char.
THEOREM ConsoleHistoryIsSuffix == Spec => []HistoryIsSuffix
<1>1. CInv => HistoryIsSuffix
  <2> SUFFICES ASSUME CInv, ~mixed PROVE HistoryIsSuffix
    BY DEF HistoryIsSuffix
  <2>1. TypeOK /\ Inside /\ History /\ MAX_HISTORY \in Nat
    BY ConsoleSizes DEF CInv, Cursor
  <2>2. g_cursor_y = MAX_HISTORY => pc \in {"live", "check", "correct"}
    BY <2>1 DEF Inside
  <2>3. ASSUME pc = "idle"
        PROVE  /\ g_cursor_y = Min({Len(text), MAX_HISTORY}) - 1
               /\ \A y \in 0 .. g_cursor_y : history_buffer[y] = text[Len(text) - g_cursor_y + y]
               /\ \A y \in g_cursor_y + 1 .. MAX_HISTORY - 1 : history_buffer[y] = EmptyLine
    <3>1. Keeps(text, Len(text), g_cursor_y, history_buffer)
      BY <2>1, <2>3 DEF History
    <3>2. Len(text) \in Int /\ MAX_HISTORY \in Int
      BY <2>1 DEF TypeOK
    <3>3. Min({Len(text), MAX_HISTORY}) = IF Len(text) <= MAX_HISTORY THEN Len(text) ELSE MAX_HISTORY
      BY <3>2, MinPair
    <3>4. g_cursor_y \in 0 .. MAX_HISTORY - 1
      BY <3>1 DEF Keeps
    <3>5. g_cursor_y = Len(text) - 1 \/ (g_cursor_y = MAX_HISTORY - 1 /\ Len(text) >= MAX_HISTORY)
      BY <3>1 DEF Keeps
    <3>6. g_cursor_y = Min({Len(text), MAX_HISTORY}) - 1
      BY <3>2, <3>3, <3>4, <3>5
    <3> QED BY <3>1, <3>6 DEF Keeps
  <2> QED BY <2>1, <2>2, <2>3 DEF HistoryIsSuffix, TypeOK, Inside
<1> QED BY <1>1, ConsoleInvariant, PTL

\* Once the output fills the screen, what console_refresh and the drawing of
\* single characters leave on it is what a whole refresh would draw, and the
\* first console_refresh after a switch inside a kprint_char restores that.
THEOREM ConsoleFullScreenShowsView == Spec => []FullScreenShowsView
<1>1. CInv => FullScreenShowsView
  <2> SUFFICES ASSUME CInv, pc = "idle", ~torn, g_cursor_y >= ROWS
               PROVE  /\ screen = Refreshed(g_cursor_y, g_view_offset)
                      /\ g_cursor_x \in Line /\ g_cursor_y < MAX_HISTORY
    BY DEF FullScreenShowsView
  <2>1. g_cursor_x \in Line /\ g_cursor_y \in 0 .. MAX_HISTORY - 1
    BY DEF CInv, Cursor, Inside
  <2> QED BY <2>1, ConsoleSizes DEF CInv, View
<1> QED BY <1>1, ConsoleInvariant, PTL
=============================================================================
