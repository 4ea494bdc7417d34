------------------------------ MODULE MCRamFS ------------------------------
(***************************************************************************)
(* Paths for RamFS: names in two directories, each form of path the        *)
(* resolver treats in its own way, a name that makes paths too long and    *)
(* one that is itself too long.                                            *)
(***************************************************************************)
EXTENDS RamFS

Abs(comps) == [abs |-> TRUE, comps |-> comps]
Rel(comps) == [abs |-> FALSE, comps |-> comps]

MCPaths ==
    {Abs(<<>>), Abs(<<"init">>), Abs(<<"usr">>), Abs(<<"usr", "lib", "..", "x">>),
     Rel(<<"yyyyyy">>), Rel(<<"yyyyyy", "yyyyyy">>), Rel(<<"zzzzzzzzzz">>),
     Rel(<<"x">>), Rel(<<"x", "/">>), Rel(<<"x", "usr">>), Rel(<<"..">>)}

MCNameLen(name) == IF name = "/" THEN 0 ELSE Len(name)

MCCutName(name, n) == IF n < Len(name) THEN SubSeq(name, 1, n) ELSE name

\* A negative count, a part of the buffer and all of it.
MCCounts == {-1, 1, 3}
=============================================================================
