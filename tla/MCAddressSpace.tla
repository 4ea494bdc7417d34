--------------------------- MODULE MCAddressSpace ---------------------------
(***************************************************************************)
(* A small layout for AddressSpace: pages of two bytes and tables of four  *)
(* entries.  The heap grows from page 0; the program of init has two      *)
(* segments, the second not full, under another last-level table; the user *)
(* stack is under another table of the level above.  execve is given that  *)
(* file, one whose second segment is under a table of its own, and one     *)
(* whose entry point is 0.                                                 *)
(***************************************************************************)
EXTENDS AddressSpace

MCInitProgram == [segs |-> <<[va |-> 8, size |-> 2], [va |-> 10, size |-> 1]>>, entry |-> 8]

MCPrograms ==
    {MCInitProgram,
     [segs |-> <<[va |-> 12, size |-> 2], [va |-> 40, size |-> 3]>>, entry |-> 12],
     [segs |-> <<[va |-> 12, size |-> 2]>>, entry |-> 0]}

MCUserStack == [va |-> 62, size |-> 2]
=============================================================================
