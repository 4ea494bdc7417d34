------------------------------- MODULE Shell -------------------------------
(***************************************************************************)
(* The shell: usr/shell.c with strtok of usr/lib/string.c, and its echo    *)
(* through printf as kprint_char stores it in the line of history_buffer   *)
(* where the user types.  Whether that line is also drawn depends on the   *)
(* view (console.c:268, 295); Console models the screen.                   *)
(*                                                                         *)
(* The buffer input and the pointers into it are kept as they are: args[]  *)
(* is not cleared between two commands, and strtok cuts words in place.    *)
(* A command, an option or a name is one character.  What a system call    *)
(* answers is chosen; RamFS and Keyboard model what they do.               *)
(***************************************************************************)
EXTENDS Integers, Sequences, FiniteSets

CONSTANTS
    MAX_CMD_LEN,        \* size of input, 256
    PROMPT_LEN,         \* size of the buffers of prompt_int and prompt_str, 64
    MAX_ARGS,           \* entries of args, 16
    Cols,               \* g_screen_cols
    Script,             \* bound: the n-th key the user types is one of Script[n]
    MaxOther            \* bound: characters other processes print

ASSUME SizesAssumption ==
    /\ {MAX_CMD_LEN, PROMPT_LEN, Cols} \subseteq Nat \ {0, 1}
    /\ MAX_ARGS \in Nat \ {0, 1, 2, 3} /\ MaxOther \in Nat

NUL == "NUL"
SPACE == " "
BACKSPACE == "BS"
NEWLINE == "NL"
TAB == "TAB"            \* a character of the keyboard that has no glyph; so has Esc
Unset == "?"            \* a byte of input nobody has written

NULL == -1
Junk == -2              \* an entry of args nobody has written, not NULL

VARIABLES
    pc,             \* "prompt", "getline", "parse", "dispatch", "exited"
    input, i,       \* the line and the number of characters read
    dest,           \* the buffer getline fills: input, or one of cmd_run's
    asks,           \* lines cmd_run still asks for
    strtok_backup,  \* as in string.c: an index of input
    args, argc,
    path,           \* index the last command took its path from, or NULL
    row,            \* cells from the start of the prompt's line, and the cursor
    mark,           \* the cell after the prompt
    typed,          \* keys read so far
    other,          \* characters other processes printed so far
    plain,          \* history: since the prompt, no key without a glyph was typed
                    \* and no other process printed
    line            \* history: the line as it was before strtok cut it

buffers == <<input, i, strtok_backup, args, argc, line>>
running == <<dest, asks>>
terminal == <<row, mark, typed, other, plain>>
vars == <<pc, buffers, running, path, terminal>>

Blank == [cells |-> <<>>, cur |-> 0]

\* usrmain has used the stack before shell_main: its arrays hold anything.
Init ==
    /\ pc = "prompt"
    /\ input = [k \in 0 .. MAX_CMD_LEN - 1 |-> Unset]
    /\ i = 0
    /\ dest = "input" /\ asks = 0
    /\ strtok_backup = NULL
    /\ \E a \in {NULL, Junk} : args = [k \in 0 .. MAX_ARGS - 1 |-> a]
    /\ argc = 0
    /\ path = NULL
    /\ row = Blank /\ mark = 0
    /\ typed = 0 /\ other = 0 /\ plain = TRUE
    /\ line = <<>>

-----------------------------------------------------------------------------
(* The line of the console: what kprint_char does to history_buffer.       *)

PutChar(s, c) ==
    [cells |-> IF s.cur < Len(s.cells) THEN [s.cells EXCEPT ![s.cur + 1] = c]
                                       ELSE Append(s.cells, c),
     cur   |-> s.cur + 1]

\* printf("%c", c), of which kprint_char draws ' ' to '~' only.
Echo(s, c) == IF c = TAB THEN s ELSE PutChar(s, c)

\* At the left margin a backspace does nothing, on a continued line too.
Backspace(s) ==
    IF s.cur % Cols = 0 THEN s
    ELSE [cells |-> [s.cells EXCEPT ![s.cur] = SPACE], cur |-> s.cur - 1]

\* Mutant: one backspace is sent instead of backspace, space, backspace.
EraseMutant(s) == PutChar(Backspace(s), SPACE)

\* printf("\b \b")
Erase(s) == Backspace(PutChar(Backspace(s), SPACE))

\* A process beside the shell prints: the child of usrmain, for which wait4 does
\* not wait, or one that run made with the number of fork.
other_write ==
    /\ other < MaxOther
    /\ other' = other + 1
    /\ row' \in {PutChar(row, "["), Blank}
    /\ plain' = FALSE
    /\ UNCHANGED <<pc, buffers, running, path, mark, typed>>

-----------------------------------------------------------------------------
(* getline.  Each turn reads one key or, when none waits, nothing.         *)

Characters == {"l", "e", "q", "r", "x", ">", SPACE, TAB}

Limit == IF dest = "input" THEN MAX_CMD_LEN ELSE PROMPT_LEN

prompt ==
    /\ pc = "prompt"
    /\ row' = PutChar(row, "$")
    /\ mark' = row.cur + 1
    /\ pc' = "getline"
    /\ dest' = "input"
    /\ i' = 0
    /\ plain' = TRUE
    /\ UNCHANGED <<input, strtok_backup, args, argc, line, asks, path, typed, other>>

\* buf[i] = 0, and what the caller of getline does next: shell_main parses a
\* line that is not empty; cmd_run asks for the next line or makes its call,
\* which may be exit.
EndLine(buf, n) ==
    \/ /\ dest = "input"
       /\ input' = [buf EXCEPT ![n] = NUL]
       /\ line' = [k \in 1 .. n |-> buf[k - 1]]
       /\ argc' = 0
       /\ strtok_backup' = 0
       /\ pc' = IF n = 0 THEN "prompt" ELSE "parse"
       /\ UNCHANGED running
    \/ /\ dest = "local"
       /\ asks' = asks - 1
       /\ pc' \in IF asks > 1 THEN {"getline"} ELSE {"prompt", "exited"}
       /\ UNCHANGED <<input, line, argc, strtok_backup, dest>>

Key(c) == /\ pc = "getline"
          /\ typed < Len(Script)
          /\ c \in Script[typed + 1]
          /\ typed' = typed + 1
          /\ UNCHANGED <<args, path, other>>

getline_newline ==
    /\ Key(NEWLINE)
    /\ EndLine(input, i)
    /\ row' = Blank
    /\ mark' = 0
    /\ i' = 0
    /\ UNCHANGED plain

getline_backspace ==
    /\ Key(BACKSPACE)
    /\ i' = IF i > 0 THEN i - 1 ELSE i
    /\ row' = IF i > 0 THEN Erase(row) ELSE row
    /\ UNCHANGED <<pc, input, strtok_backup, argc, line, running, mark, plain>>

\* Only input's contents matter later.
Stored(c) == IF dest = "input" THEN [input EXCEPT ![i] = c] ELSE input

\* The buffer is full: getline returns although no newline was typed, and what
\* is typed next is another line.
Full == i + 1 = Limit - 1

getline_char ==
    \E c \in Characters :
        /\ Key(c)
        /\ row' = IF Full /\ dest = "local" THEN Blank ELSE Echo(row, c)
        /\ plain' = (plain /\ c # TAB)
        /\ mark' = IF Full THEN 0 ELSE mark
        /\ \/ /\ ~Full
              /\ input' = Stored(c)
              /\ i' = i + 1
              /\ UNCHANGED <<pc, strtok_backup, argc, line, running>>
           \/ /\ Full
              /\ EndLine(Stored(c), i + 1)
              /\ i' = 0

read_nothing == pc = "getline" /\ UNCHANGED vars

-----------------------------------------------------------------------------
(* strtok, one call a step.                                                *)

From(buf, k) == {j \in DOMAIN buf : j >= k}
Least(S) == CHOOSE j \in S : \A j2 \in S : j <= j2

TokenStart(buf, k) == Least({j \in From(buf, k) : buf[j] # SPACE})

\* Mutant: a word ends behind its first character.
TokenEndMutant(buf, k) == k + 1

TokenEnd(buf, k) == Least({j \in From(buf, k) : buf[j] \in {SPACE, NUL}})

\* No word is left, or no entry of args (the word found then is cut off all
\* the same).
parse_end ==
    /\ pc = "parse"
    /\ LET s == TokenStart(input, strtok_backup)
       IN  /\ strtok_backup = NULL \/ input[s] = NUL \/ argc = MAX_ARGS
           /\ IF strtok_backup = NULL \/ input[s] = NUL
              THEN strtok_backup' = NULL /\ UNCHANGED input
              ELSE LET e == TokenEnd(input, s)
                   IN  /\ strtok_backup' = IF input[e] = SPACE THEN e + 1 ELSE NULL
                       /\ input' = [input EXCEPT ![e] = NUL]
    /\ pc' = IF argc = 0 THEN "prompt" ELSE "dispatch"
    /\ UNCHANGED <<i, args, argc, line, running, path, terminal>>

parse_token ==
    /\ pc = "parse"
    /\ strtok_backup # NULL
    /\ argc < MAX_ARGS
    /\ LET s == TokenStart(input, strtok_backup)
           e == TokenEnd(input, s)
       IN  /\ input[s] # NUL
           /\ args' = [args EXCEPT ![argc] = s]
           /\ argc' = argc + 1
           /\ strtok_backup' = IF input[e] = SPACE THEN e + 1 ELSE NULL
           /\ input' = [input EXCEPT ![e] = NUL]
    /\ UNCHANGED <<pc, i, line, running, path, terminal>>

-----------------------------------------------------------------------------
(* Commands.                                                               *)

\* The string a pointer into input leads to.
StringAt(buf, k) ==
    LET e == Least({j \in From(buf, k) : buf[j] = NUL})
    IN  [j \in 1 .. e - k |-> buf[k + j - 1]]

Is(k, c) == args[k] >= 0 /\ StringAt(input, args[k]) = <<c>>

\* echo writes to a file in one form only.
Redirects == Is(0, "e") /\ argc >= 4 /\ Is(2, ">")

\* Commands that use a path; "l" stands for ls, cd, mkdir, cat and touch.
UsesPath == Is(0, "l") \/ Redirects

\* The word a command works on, wherever the pointer is from.
Operand == IF Redirects THEN args[3] ELSE args[1]

\* The calls of one command; a message or a listing ends with a newline.
file_command ==
    /\ pc = "dispatch" /\ UsesPath
    /\ path' = Operand
    /\ row' \in IF Redirects THEN {row} ELSE {row, Blank}
    /\ pc' = "prompt"
    /\ UNCHANGED <<buffers, running, mark, typed, other, plain>>

\* Everything that only prints: help, pwd, clear, echo without a file, unknown
\* names.  pwd prints nothing when getcwd fails.
print ==
    /\ pc = "dispatch" /\ ~UsesPath /\ ~Is(0, "q") /\ ~Is(0, "r")
    /\ row' \in IF Is(0, "e") THEN {Blank} ELSE {row, Blank}
    /\ pc' = "prompt"
    /\ UNCHANGED <<buffers, running, path, mark, typed, other, plain>>

exit ==
    /\ pc = "dispatch" /\ Is(0, "q")
    /\ pc' = "exited"
    /\ UNCHANGED <<buffers, running, path, terminal>>

\* run: a usage message without an argument, else the lines the call asks for,
\* none, one or two.
cmd_run ==
    /\ pc = "dispatch" /\ Is(0, "r")
    /\ path' = Operand
    /\ row' = Blank
    /\ asks' \in IF Operand = NULL THEN {0} ELSE 0 .. 2
    /\ dest' = IF asks' > 0 THEN "local" ELSE dest
    /\ pc' = IF asks' > 0 THEN "getline" ELSE "prompt"
    /\ i' = 0
    /\ UNCHANGED <<input, strtok_backup, args, argc, line, mark, typed, other, plain>>

\* The kernel, or atoi and printf, follow a pointer nobody has written: where
\* nothing is mapped, that is a page fault, and the machine stops.
junk_fault ==
    /\ pc = "dispatch" /\ (UsesPath \/ Is(0, "r") \/ Is(0, "e")) /\ Operand = Junk
    /\ pc' = "exited"
    /\ UNCHANGED <<buffers, running, path, terminal>>

exited == pc = "exited" /\ UNCHANGED vars

Next ==
    \/ prompt
    \/ getline_newline \/ getline_backspace \/ getline_char \/ read_nothing
    \/ parse_token \/ parse_end
    \/ file_command \/ print \/ cmd_run \/ junk_fault \/ exit \/ exited
    \/ other_write

Spec == Init /\ [][Next]_vars

-----------------------------------------------------------------------------
(* Properties.                                                             *)

\* The words of a line, by definition: maximal runs without a space.
WordStarts(s) == {k \in DOMAIN s : s[k] # SPACE /\ (k = 1 \/ s[k - 1] = SPACE)}

WordAt(s, k) ==
    LET e == Least({j \in k .. Len(s) + 1 : j = Len(s) + 1 \/ s[j] = SPACE})
    IN  SubSeq(s, k, e - 1)

\* While strtok cuts the line word by word in place, and until the command has
\* run, args holds the first words of the line in their order, as many as there
\* is room for in the end, and what strtok has still to read ends inside input,
\* whatever earlier lines and backspaces left in input and args.
ArgsAreWords ==
    pc \in {"parse", "dispatch"} =>
        /\ \A k \in WordStarts(line) :
             LET n == Cardinality({j \in WordStarts(line) : j < k})
             IN  n < argc => StringAt(input, args[n]) = WordAt(line, k)
        /\ strtok_backup # NULL => \E j \in From(input, strtok_backup) : input[j] = NUL
        /\ pc = "dispatch" =>
             argc = IF Cardinality(WordStarts(line)) > MAX_ARGS
                    THEN MAX_ARGS ELSE Cardinality(WordStarts(line))

\* The index never leaves the buffer, and the console keeps what getline has: as
\* long as prompt and line fit in one row, every key has a glyph and no other
\* process prints since the prompt, the line of history_buffer after the prompt
\* is the characters in input, and blank behind the cursor.  The page keys do not
\* matter: they change what is drawn, not what is stored.
EchoKeepsLine ==
    pc = "getline" =>
        /\ i \in 0 .. Limit - 2
        /\ (dest = "input" /\ plain /\ Len(row.cells) < Cols) =>
             /\ SubSeq(row.cells, mark + 1, row.cur) = [k \in 1 .. i |-> input[k - 1]]
             /\ \A k \in row.cur + 1 .. Len(row.cells) : row.cells[k] = SPACE

-----------------------------------------------------------------------------
(* What does not hold.                                                     *)

\* shell.c:93: "if (!path) path = "."; // 默认当前目录": ls without an argument
\* lists the working directory, not what an earlier line left in args[1].
LsDefaultsToCwd ==
    (pc = "prompt" /\ argc = 1 /\ Is(0, "l")) => path < 0

\* shell.c:271: open is given a string.  The text an old args[1] leads to need
\* not end in input: a longer line taken back with backspaces may have written
\* over its end.
OldArgsTerminated ==
    (pc = "dispatch" /\ UsesPath /\ Operand >= 0)
    => \E j \in From(input, Operand) : input[j] = NUL

\* The echo on every row, for every key and beside other output: a backspace at
\* the start of a continued row or over a Tab, or a message of the child of
\* usrmain, leaves the console and the line different.
EchoAlwaysKeepsLine ==
    (pc = "getline" /\ dest = "input") =>
        SubSeq(row.cells, mark + 1, row.cur) = [k \in 1 .. i |-> input[k - 1]]
=============================================================================
