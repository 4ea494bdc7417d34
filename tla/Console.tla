------------------------------ MODULE Console ------------------------------
(***************************************************************************)
(* The text console, kernel/src/drivers/console.c: a buffer of lines that  *)
(* kprint_char writes and a screen that shows a part of it, with PageUp    *)
(* and PageDown of the keyboard interrupt, which call console_scroll.      *)
(*                                                                         *)
(* kmain prints with interrupts on: console_scroll may run between any two *)
(* steps of its kprint_char, and once init is queued (proc.c:309) a tick   *)
(* may switch to init there.  Processes print by system calls, with        *)
(* interrupts off.  A pixel pattern is the character it shows.             *)
(*                                                                         *)
(* Steps are the statements of the source, in its order.  kmain runs again *)
(* when the processes have ended.  If a switch came inside its kprint_char *)
(* the rest of that works on values it read before the switch; the model   *)
(* leaves it out and stays with the processes.                             *)
(***************************************************************************)
EXTENDS Integers, Sequences, FiniteSetsExt

CONSTANTS
    MAX_HISTORY,    \* lines of the buffer, 1000
    ROWS, COLS,     \* g_screen_rows and g_screen_cols
    PAGE,           \* lines a page key scrolls, 10
    Chars,          \* printable characters other than the space
    MaxPrinted      \* bound: characters printed

ASSUME ConsoleAssumption ==
    /\ ROWS \in Nat \ {0} /\ COLS \in Nat \ {0}
    /\ MAX_HISTORY \in Nat /\ ROWS < MAX_HISTORY
    /\ PAGE \in Nat \ {0} /\ MaxPrinted \in Nat
    /\ Chars \cap {" ", "nul", "newline", "backspace", "control"} = {}

VARIABLES
    history_buffer, g_cursor_x, g_cursor_y, g_view_offset,
    screen,         \* what the frame buffer shows
    phase,          \* "early": no keyboard handler; "boot"; "queued": init is
                    \* ready; "user": processes run; "back": kmain runs again
    pc,             \* where kprint_char is
    c,              \* its argument
    top, i,         \* locals of console_refresh
    text,           \* history: every line printed
    last,           \* history: "print" or "scroll", whichever came last in the phase
    torn,           \* history: console_scroll or a switch came during a
                    \* kprint_char, and none started a console_refresh since
    mixed,          \* history: a switch came during a kprint_char
    printed

vars == <<history_buffer, g_cursor_x, g_cursor_y, g_view_offset, screen,
          phase, pc, c, top, i, text, last, torn, mixed, printed>>

cursor == <<g_cursor_x, g_cursor_y>>
ghosts == <<text, last, torn, mixed, printed>>

Line == 0 .. COLS - 1
EmptyLine == [j \in Line |-> "nul"]
BlankLine == [j \in Line |-> " "]

console_init ==
    /\ history_buffer = [y \in 0 .. MAX_HISTORY - 1 |-> EmptyLine]
    /\ g_cursor_x = 0 /\ g_cursor_y = 0 /\ g_view_offset = 0
    /\ screen = [r \in 0 .. ROWS - 1 |-> BlankLine]

Init ==
    /\ console_init
    /\ phase = "early" /\ pc = "idle" /\ c = "nul" /\ top = 0 /\ i = 0
    /\ text = <<EmptyLine>> /\ last = "none" /\ torn = FALSE /\ mixed = FALSE /\ printed = 0

-----------------------------------------------------------------------------
(* Drawing.                                                                *)

Glyph(char) == IF char = "nul" THEN " " ELSE char

draw_char_on_screen(col, row, char) == [screen EXCEPT ![row][col] = Glyph(char)]

\* The line of the buffer at the top of the screen.
TopRow(y, offset) == Max({0, y - (ROWS - 1) - offset})

\* One row of console_refresh.
RowShown(t, r, y) ==
    IF t + r > y \/ t + r >= MAX_HISTORY THEN BlankLine
    ELSE [j \in Line |-> Glyph(history_buffer[t + r][j])]

\* The screen after a console_refresh that nothing interrupts.
Refreshed(y, offset) == [r \in 0 .. ROWS - 1 |-> RowShown(TopRow(y, offset), r, y)]

\* Where the line of the cursor is on the screen of a view that is not scrolled.
CursorRow == IF g_cursor_y >= ROWS THEN ROWS - 1 ELSE g_cursor_y

-----------------------------------------------------------------------------
(* kprint_char, step by step.                                              *)

\* The lines after a character: what the buffer should keep the end of.
TextAfter(char) ==
    LET lines == Len(text)
    IN  CASE char = "newline" -> Append(text, EmptyLine)
          [] char = "backspace" ->
               IF g_cursor_x > 0 THEN [text EXCEPT ![lines][g_cursor_x - 1] = " "] ELSE text
          [] char = "control" -> text
          [] OTHER ->
               LET put == [text EXCEPT ![lines][g_cursor_x] = char]
               IN  IF g_cursor_x + 1 = COLS THEN Append(put, EmptyLine) ELSE put

\* Other control characters are dropped.
kprint_char(char) ==
    /\ pc = "idle"
    /\ printed < MaxPrinted
    /\ pc' = CASE char = "newline" -> "newline"
               [] char = "backspace" /\ g_cursor_x > 0 -> "back"
               [] char = "backspace" /\ g_cursor_x = 0 -> "idle"
               [] char = "control" -> "idle"
               [] OTHER -> "put"
    /\ c' = char
    /\ text' = TextAfter(char)
    /\ printed' = printed + 1
    /\ last' = "print"
    /\ UNCHANGED <<history_buffer, cursor, g_view_offset, screen, phase, top, i, torn, mixed>>

\* kprint, kprintf and the others print one character after the other.
kprint == \E char \in Chars \cup {" ", "newline", "backspace", "control"} : kprint_char(char)

newline ==
    /\ pc = "newline"
    /\ g_cursor_x' = 0 /\ g_cursor_y' = g_cursor_y + 1
    /\ pc' = "live"
    /\ UNCHANGED <<history_buffer, g_view_offset, screen, phase, c, top, i, ghosts>>

newline_view ==
    /\ pc = "live"
    /\ g_view_offset' = 0
    /\ pc' = "check"
    /\ UNCHANGED <<history_buffer, cursor, screen, phase, c, top, i, ghosts>>

\* Backspace: the buffer, then the screen if the view is not scrolled.
back ==
    /\ pc = "back"
    /\ g_cursor_x' = g_cursor_x - 1
    /\ history_buffer' = [history_buffer EXCEPT ![g_cursor_y][g_cursor_x - 1] = " "]
    /\ pc' = "look"
    /\ UNCHANGED <<g_cursor_y, g_view_offset, screen, phase, c, top, i, ghosts>>

\* Stored at a line and a column.  The column after the last, where a switch
\* may have left the cursor, is not shown, or it is the start of the next line.
Stored(y, x, char) ==
    IF x \in Line THEN {[history_buffer EXCEPT ![y][x] = char]}
    ELSE {history_buffer, [history_buffer EXCEPT ![y + 1][0] = char]}

put ==
    /\ pc = "put"
    /\ g_cursor_y' = Min({g_cursor_y, MAX_HISTORY - 1})
    /\ history_buffer' \in Stored(g_cursor_y', g_cursor_x, c)
    /\ pc' = "look"
    /\ UNCHANGED <<g_cursor_x, g_view_offset, screen, phase, c, top, i, ghosts>>

\* What follows the drawing: a backspace is done.
Advance == IF c = "backspace" THEN "idle" ELSE "advance"

look ==
    /\ pc = "look"
    /\ pc' = IF g_view_offset = 0 THEN "paint" ELSE Advance
    /\ UNCHANGED <<history_buffer, cursor, g_view_offset, screen, phase, c, top, i, ghosts>>

paint ==
    /\ pc = "paint"
    /\ screen' = draw_char_on_screen(g_cursor_x, CursorRow, IF c = "backspace" THEN " " ELSE c)
    /\ pc' = Advance
    /\ UNCHANGED <<history_buffer, cursor, g_view_offset, phase, c, top, i, ghosts>>

advance ==
    /\ pc = "advance"
    /\ IF g_cursor_x + 1 < COLS
       THEN g_cursor_x' = g_cursor_x + 1 /\ pc' = "idle" /\ UNCHANGED g_cursor_y
       ELSE g_cursor_x' = 0 /\ g_cursor_y' = g_cursor_y + 1 /\ pc' = "check"
    /\ UNCHANGED <<history_buffer, g_view_offset, screen, phase, c, top, i, ghosts>>

-----------------------------------------------------------------------------
(* check_history_scroll and the two calls of console_refresh.              *)

\* Mutant: the last line is not cleared.
ShiftedMutant ==
    [y \in 0 .. MAX_HISTORY - 1 |->
        IF y < MAX_HISTORY - 1 THEN history_buffer[y + 1] ELSE history_buffer[y]]

\* The buffer one line up, with an empty last line.
Shifted ==
    [y \in 0 .. MAX_HISTORY - 1 |->
        IF y < MAX_HISTORY - 1 THEN history_buffer[y + 1] ELSE EmptyLine]

HistoryFull(y) == y >= MAX_HISTORY

check_history_scroll ==
    /\ pc = "check"
    /\ IF HistoryFull(g_cursor_y)
       THEN history_buffer' = Shifted /\ pc' = "correct"
       ELSE pc' = "bottom" /\ UNCHANGED history_buffer
    /\ UNCHANGED <<cursor, g_view_offset, screen, phase, c, top, i, ghosts>>

correct ==
    /\ pc = "correct"
    /\ g_cursor_y' = MAX_HISTORY - 1
    /\ pc' = "refresh"
    /\ UNCHANGED <<history_buffer, g_cursor_x, g_view_offset, screen, phase, c, top, i, ghosts>>

\* Mutant: the screen is redrawn only when the cursor is far below it.
BelowScreenMutant(y) == y > ROWS

BelowScreen(y) == y >= ROWS

\* The refresh of check_history_scroll is followed by a second one.
bottom ==
    /\ pc = "bottom"
    /\ pc' = IF BelowScreen(g_cursor_y) THEN "refresh_last" ELSE "idle"
    /\ UNCHANGED <<history_buffer, cursor, g_view_offset, screen, phase, c, top, i, ghosts>>

console_refresh ==
    /\ pc \in {"refresh", "refresh_last"}
    /\ top' = TopRow(g_cursor_y, g_view_offset)
    /\ i' = 0
    /\ torn' = FALSE
    /\ pc' = IF pc = "refresh" THEN "row" ELSE "row_last"
    /\ UNCHANGED <<history_buffer, cursor, g_view_offset, screen, phase, c, text, last, mixed, printed>>

console_refresh_row ==
    /\ pc \in {"row", "row_last"}
    /\ screen' = [screen EXCEPT ![i] = RowShown(top, i, g_cursor_y)]
    /\ IF i + 1 < ROWS THEN i' = i + 1 /\ UNCHANGED <<pc, top>>
       ELSE i' = 0 /\ top' = 0 /\ pc' = IF pc = "row" THEN "bottom" ELSE "idle"
    /\ UNCHANGED <<history_buffer, cursor, g_view_offset, phase, c, ghosts>>

-----------------------------------------------------------------------------
(* The keyboard interrupt and the phases.                                  *)

Scrolled(lines) == Max({0, Min({g_view_offset + lines, g_cursor_y})})

\* An interrupt handler runs to its end.  It comes inside a kprint_char only
\* when kmain prints.
console_scroll(lines) ==
    /\ phase \in {"boot", "queued", "back"} \/ (phase = "user" /\ pc = "idle")
    /\ g_view_offset' = Scrolled(lines)
    /\ screen' = Refreshed(g_cursor_y, g_view_offset')
    /\ last' = "scroll"
    /\ torn' = (torn \/ pc # "idle")
    /\ UNCHANGED <<history_buffer, cursor, phase, pc, c, top, i, text, mixed, printed>>

Phase(from, to) ==
    /\ phase = from /\ pc = "idle"
    /\ phase' = to
    /\ last' = "none"
    /\ UNCHANGED <<history_buffer, cursor, g_view_offset, screen, pc, c, top, i, text, torn, mixed, printed>>

init_keyboard == Phase("early", "boot")

\* init is in the ready queue; kmain has still to print a line about it.
create_user_process == Phase("boot", "queued")

\* kmain leaves for init between two characters, by itself or in a tick.
schedule == Phase("queued", "user")

\* A tick switches to init in the middle of a character, perhaps before a
\* cursor that has left the line is set back.
timer_callback ==
    /\ phase = "queued" /\ pc # "idle"
    /\ phase' = "user" /\ pc' = "idle" /\ top' = 0 /\ i' = 0
    /\ g_cursor_x' \in IF pc = "advance" THEN {g_cursor_x, g_cursor_x + 1} ELSE {g_cursor_x}
    /\ last' = "none" /\ torn' = TRUE /\ mixed' = TRUE
    /\ UNCHANGED <<history_buffer, g_cursor_y, g_view_offset, screen, c, text, printed>>

\* The last process has gone and kmain goes on where it left.
resume_kmain == ~mixed /\ Phase("user", "back")

Continue ==
    \/ newline \/ newline_view \/ back \/ put \/ look \/ paint \/ advance
    \/ check_history_scroll \/ correct \/ bottom \/ console_refresh \/ console_refresh_row

Next ==
    \/ kprint
    \/ Continue
    \/ \E lines \in {PAGE, -PAGE} : console_scroll(lines)
    \/ init_keyboard
    \/ create_user_process
    \/ schedule
    \/ timer_callback
    \/ resume_kmain

Spec == Init /\ [][Next]_vars

-----------------------------------------------------------------------------
(* Properties.                                                             *)

\* Unless a tick switched from kmain to init inside a kprint_char: between two
\* characters the buffer holds the last lines printed, up to the line of the
\* cursor, and as many as fit, however kmain and the processes take turns and
\* whatever page keys come in between.  The cursor leaves the buffer only until
\* check_history_scroll has moved the lines, and what is drawn meanwhile is
\* inside of it.
HistoryIsSuffix ==
    ~mixed =>
      /\ g_cursor_x \in Line /\ g_cursor_y \in 0 .. MAX_HISTORY
      /\ g_cursor_y = MAX_HISTORY => pc \in {"live", "check", "correct"}
      /\ i \in 0 .. ROWS - 1 /\ top \in 0 .. MAX_HISTORY - 1
      /\ pc = "idle" =>
           /\ g_cursor_y = Min({Len(text), MAX_HISTORY}) - 1
           /\ \A y \in 0 .. g_cursor_y :
                history_buffer[y] = text[Len(text) - g_cursor_y + y]
           /\ \A y \in g_cursor_y + 1 .. MAX_HISTORY - 1 : history_buffer[y] = EmptyLine

\* Once the output fills the screen, the screen shows the lines the view is at,
\* scrolled or not, although a character is drawn alone or not at all and a
\* scrolled view moves with the output.  A page key or a switch inside a
\* kprint_char may spoil it; the next console_refresh of a kprint_char makes it
\* good, with the cursor inside the buffer again, wherever the switch came.
FullScreenShowsView ==
    (pc = "idle" /\ ~torn /\ g_cursor_y >= ROWS) =>
        /\ screen = Refreshed(g_cursor_y, g_view_offset)
        /\ g_cursor_x \in Line /\ g_cursor_y < MAX_HISTORY

-----------------------------------------------------------------------------
(* What comments and documents say and the code does not do.               *)

\* console.c:14: the buffer keeps the lines printed.  A tick that switches from
\* kmain to init inside a kprint_char leaves half a character, on which the
\* output of init goes on.
HistoryKeepsOutput ==
    pc = "idle" =>
        /\ g_cursor_y = Min({Len(text), MAX_HISTORY}) - 1
        /\ \A y \in 0 .. g_cursor_y : history_buffer[y] = text[Len(text) - g_cursor_y + y]

\* console.c:26: offset 0 is the live picture.  PageUp before the output fills
\* the screen stops the drawing of characters, and the newline that sets the
\* offset back to 0 does not draw them either.
LiveView ==
    (phase = "user" /\ pc = "idle" /\ ~torn /\ g_view_offset = 0)
    => screen = Refreshed(g_cursor_y, 0)

\* README.md:233: any character typed brings the view back to the end.  Only a
\* newline does.
PrintingReturnsView ==
    (phase = "user" /\ pc = "idle" /\ last = "print" /\ c \in Chars) => g_view_offset = 0

\* README.md:230: after PageUp the screen shows older lines.  One that comes
\* inside a kprint_char is drawn over by what that goes on to draw.
PageKeysShowHistory ==
    (pc = "idle" /\ last = "scroll" /\ g_cursor_y >= ROWS)
    => screen = Refreshed(g_cursor_y, g_view_offset)
=============================================================================
