------------------------------- MODULE MCPMM -------------------------------
(***************************************************************************)
(* PMM on every well-formed map of up to three entries inside six pages,   *)
(* in address order, whose other entries may end inside a page.            *)
(***************************************************************************)
EXTENDS PMM

CONSTANT MaxPages   \* the highest page any entry reaches

E(first, last, u) == [base |-> first * PAGE_SIZE,
                      length |-> (last - first) * PAGE_SIZE, usable |-> u]

\* A reserved entry that begins and ends in the middle of a page.
Ragged(first, last) == [base |-> first * PAGE_SIZE + 1024,
                        length |-> (last - first) * PAGE_SIZE, usable |-> FALSE]

\* Page bounds a <= b <= c <= d cut memory into three stretches; each is
\* usable or reserved, and empty stretches are left out.
Stretches(a, b, c, d, u, v, w) ==
    (IF a < b THEN <<E(a, b, u)>> ELSE <<>>) \o
    (IF b < c THEN <<E(b, c, v)>> ELSE <<>>) \o
    (IF c < d THEN <<E(c, d, w)>> ELSE <<>>)

Maps == {Stretches(a, b, c, d, u, v, w) :
            a \in 0 .. 1, b \in 1 .. MaxPages, c \in 1 .. MaxPages,
            d \in 2 .. MaxPages, u \in BOOLEAN, v \in BOOLEAN, w \in BOOLEAN}

MCMemMaps ==
    {m \in Maps : Len(m) > 0 /\ \A i \in 1 .. Len(m) - 1 : End(m[i]) <= m[i + 1].base}
    \cup {Append(<<E(1, 4, TRUE)>>, Ragged(4, MaxPages - 1)), <<Ragged(1, 3)>>}
=============================================================================
