------------------------------ MODULE MCShell ------------------------------
(***************************************************************************)
(* The keys of a user of the shell: each position offers what makes a      *)
(* difference there.  Together they hold all commands with and without an  *)
(* argument, a second line shorter or longer than the first or taken back  *)
(* with backspaces, blank lines, five words, full buffers and backspaces   *)
(* at both margins.                                                        *)
(***************************************************************************)
EXTENDS Shell

Keys ==
    << {"l", "e", "q", "r", "x", SPACE, BACKSPACE, TAB},
       {SPACE, BACKSPACE, NEWLINE},
       {"x"},
       {SPACE, NEWLINE},
       {">", "l", BACKSPACE, SPACE},
       {SPACE, NEWLINE, BACKSPACE, "x"},
       {"x", "r"},
       {NEWLINE, SPACE, BACKSPACE, "x"},
       {"l", NEWLINE, BACKSPACE},
       {NEWLINE, SPACE, BACKSPACE},
       {"x", NEWLINE, BACKSPACE},
       {NEWLINE} >>
=============================================================================
