------------------------------ MODULE UserHeap ------------------------------
(***************************************************************************)
(* malloc and free of usr/lib/stdlib.c over sbrk and brk of                *)
(* usr/lib/syscall.c and the system call SYS_BRK of                        *)
(* kernel/src/arch/interrupts.c, in one process.                           *)
(*                                                                         *)
(* The break starts at address 0, so the first header is at the address    *)
(* that is NULL.  A break inside a page makes the next brk replace that    *)
(* page, headers included: its bytes are then what the new frame held.     *)
(* AddressSpace models the page tables; here a page is mapped or not.      *)
(***************************************************************************)
EXTENDS Integers, FiniteSets

CONSTANTS
    PAGE_SIZE,
    Word,           \* 2^64: addresses and sizes are remainders of it
    Sizes,          \* arguments of malloc
    MaxCalls        \* bound: calls of malloc

HEADER == 24        \* sizeof(header_t): size at 0, next at 8, free at 16

ASSUME HeapAssumption ==
    /\ PAGE_SIZE \in Nat /\ PAGE_SIZE > HEADER
    /\ Word \in Nat /\ Word > PAGE_SIZE
    /\ Sizes \subseteq 0 .. Word - 1
    /\ MaxCalls \in Nat

NULL == 0
Junk == -1          \* bytes nobody of this process has written, not all zero

VARIABLES
    brk,            \* mm->heap
    mapped,         \* numbers of the mapped heap pages
    header,         \* header_t at each address where malloc wrote one
    head, tail,
    live,           \* blocks the program holds: address of the data and size
    pc,             \* "idle" or "walk"
    size, curr,     \* malloc's argument and its position in the list
    calls,
    status,         \* "ok", "fault" (unmapped access) or "corrupt" (junk used)
    wiped           \* history: headers a byte of which was replaced

vars == <<brk, mapped, header, head, tail, live, pc, size, curr, calls, status, wiped>>

Init ==
    /\ brk = 0
    /\ mapped = {}
    /\ header = [a \in {} |-> NULL]
    /\ head = NULL /\ tail = NULL
    /\ live = {}
    /\ pc = "idle" /\ size = 0 /\ curr = NULL
    /\ calls = 0
    /\ status = "ok"
    /\ wiped = {}

PagesOf(from, n) == from \div PAGE_SIZE .. (from + n - 1) \div PAGE_SIZE

\* Fields of a header and the pages they lie in.
SizePages(a) == PagesOf(a, 8)
NextPages(a) == PagesOf(a + 8, 8)
FreePages(a) == PagesOf(a + 16, 4)
HeaderPages(a) == PagesOf(a, 20)

-----------------------------------------------------------------------------
(* SYS_BRK.                                                                *)

\* mm_map_range(mm, cur_brk, new_brk - cur_brk)
BrkPages(new_brk) == PagesOf(brk, new_brk - brk)

\* The frames of these pages are new and hold c.
Replaced(pages, c) ==
    [a \in DOMAIN header |->
        [size |-> IF SizePages(a) \cap pages = {} THEN header[a].size ELSE c,
         next |-> IF NextPages(a) \cap pages = {} THEN header[a].next ELSE c,
         free |-> IF FreePages(a) \cap pages = {} THEN header[a].free ELSE c]]

Hit(pages) == {a \in DOMAIN header : HeaderPages(a) \cap pages # {}}

\* All pages are mapped anew, the one the old break lies in too.  For the first
\* page of the heap vmm_map_page needs page tables; without memory for them
\* it returns and nobody notices.  This is for a heap below 2 MiB: each 2 MiB
\* would need one more table (paging.c:69), and from 4 MiB on a break would
\* replace the pages of the program.
Grown(new_brk) ==
    {[pages |-> mapped \cup BrkPages(new_brk), headers |-> Replaced(BrkPages(new_brk), c)] :
        c \in {0, Junk}}
    \cup (IF brk = 0 THEN {[pages |-> mapped, headers |-> header]} ELSE {})

\* No memory for the vma or the first page, or a later page is missing and
\* the pages before it are unmapped again, the one of the break included.
BrkFails(new_brk) ==
    \E n \in 0 .. Cardinality(BrkPages(new_brk)) - 1 :
        mapped' = mapped \ (brk \div PAGE_SIZE .. brk \div PAGE_SIZE + n - 1)

-----------------------------------------------------------------------------
(* malloc.                                                                 *)

\* A request of 0 bytes answers NULL at once.
malloc ==
    /\ status = "ok" /\ pc = "idle"
    /\ calls < MaxCalls
    /\ calls' = calls + 1
    /\ \E n \in Sizes :
         /\ size' = n
         /\ pc' = IF n = 0 THEN "idle" ELSE "walk"
         /\ curr' = IF n = 0 THEN NULL ELSE head
    /\ UNCHANGED <<brk, mapped, header, head, tail, live, status, wiped>>

\* Mutant: the first block that is large enough is taken.
FitsMutant(h) == h.size >= size

\* Mutant: a block that is just large enough is not taken.
FitsStrictMutant(h) == h.free # 0 /\ h.size > size

Fits(h) == h.free # 0 /\ h.size >= size

\* The loop reads free, then size if free is set, then next.
ReadsJunk(h) ==
    \/ h.free = Junk
    \/ h.free # 0 /\ h.size = Junk
    \/ ~Fits(h) /\ h.next = Junk

Walking == status = "ok" /\ pc = "walk" /\ curr # NULL

Readable == HeaderPages(curr) \subseteq mapped /\ ~ReadsJunk(header[curr])

Block(a) == [at |-> a + HEADER, size |-> size]

malloc_found ==
    /\ Walking /\ Readable
    /\ Fits(header[curr])
    /\ header' = [header EXCEPT ![curr].free = 0]
    /\ live' = live \cup {Block(curr)}
    /\ pc' = "idle" /\ size' = 0 /\ curr' = NULL
    /\ UNCHANGED <<brk, mapped, head, tail, calls, status, wiped>>

malloc_next ==
    /\ Walking /\ Readable
    /\ ~Fits(header[curr])
    /\ curr' = header[curr].next
    /\ UNCHANGED <<brk, mapped, header, head, tail, live, pc, size, calls, status, wiped>>

\* What junk leads to is anybody's guess; the model stops here.
malloc_astray ==
    /\ Walking /\ ~Readable
    /\ status' = IF HeaderPages(curr) \subseteq mapped THEN "corrupt" ELSE "fault"
    /\ UNCHANGED <<brk, mapped, header, head, tail, live, pc, size, curr, calls, wiped>>

Growing == status = "ok" /\ pc = "walk" /\ curr = NULL

NewBrk == (brk + HEADER + size) % Word

\* sbrk answers -1, unless new_brk is not above the break: then it succeeds.
malloc_fails ==
    /\ Growing
    /\ NewBrk > brk
    /\ BrkFails(NewBrk)
    /\ pc' = "idle" /\ size' = 0
    /\ UNCHANGED <<brk, header, head, tail, live, curr, calls, status, wiped>>

\* Mutant: tail is set before the link is made.
LinkMutant(headers, a) == [headers EXCEPT ![a].next = a]

\* if (tail) tail->next = header
Link(headers, a) == IF tail = NULL THEN headers ELSE [headers EXCEPT ![tail].next = a]

NewHeader == [size |-> size, next |-> NULL, free |-> 0]

With(headers, a, h) == [b \in DOMAIN headers \cup {a} |-> IF b = a THEN h ELSE headers[b]]

\* The header is written at the old break, then linked: head and tail with the
\* address 0 of the first one still say that the list is empty.
malloc_grows ==
    /\ Growing
    /\ \E g \in IF NewBrk > brk THEN Grown(NewBrk) ELSE {[pages |-> mapped, headers |-> header]} :
         /\ HeaderPages(brk) \subseteq g.pages
         /\ tail # NULL => NextPages(tail) \subseteq g.pages
         /\ mapped' = g.pages
         /\ header' = Link(With(g.headers, brk, NewHeader), brk)
         /\ wiped' = IF g.headers = header THEN wiped ELSE wiped \cup Hit(BrkPages(NewBrk))
    /\ brk' = IF NewBrk > brk THEN NewBrk ELSE brk
    /\ head' = IF head = NULL THEN brk ELSE head
    /\ tail' = brk
    /\ live' = live \cup {Block(brk)}
    /\ pc' = "idle" /\ size' = 0
    /\ UNCHANGED <<curr, calls, status>>

\* The header, or the one before it, is in a page that is not there.
malloc_faults ==
    /\ Growing
    /\ \E g \in IF NewBrk > brk THEN Grown(NewBrk) ELSE {[pages |-> mapped, headers |-> header]} :
         \/ ~(HeaderPages(brk) \subseteq g.pages)
         \/ tail # NULL /\ ~(NextPages(tail) \subseteq g.pages)
    /\ status' = "fault"
    /\ UNCHANGED <<brk, mapped, header, head, tail, live, pc, size, curr, calls, wiped>>

\* free: the flag is set and nothing else looked at.
free ==
    /\ status = "ok" /\ pc = "idle"
    /\ \E b \in live :
         LET a == b.at - HEADER
         IN  \/ /\ FreePages(a) \subseteq mapped
                /\ header' = [header EXCEPT ![a].free = 1]
                /\ live' = live \ {b}
                /\ UNCHANGED status
             \/ /\ ~(FreePages(a) \subseteq mapped)
                /\ status' = "fault"
                /\ UNCHANGED <<header, live>>
    /\ UNCHANGED <<brk, mapped, head, tail, pc, size, curr, calls, wiped>>

Rest == /\ status # "ok" \/ (pc = "idle" /\ calls = MaxCalls)
        /\ UNCHANGED vars

Steps == malloc_found \/ malloc_next \/ malloc_astray
           \/ malloc_fails \/ malloc_grows \/ malloc_faults

Next == malloc \/ Steps \/ free \/ Rest

Spec == Init /\ [][Next]_vars

\* A malloc that has begun goes on; nobody has to call it.
FairSpec == Spec /\ WF_vars(Steps)

-----------------------------------------------------------------------------
(* Properties.                                                             *)

\* Blocks that are given out, with their headers, do not overlap and lie below
\* the break: through first fit, growth, failures of brk and pages that brk
\* replaced, as long as malloc did not have to follow junk.
BlocksDisjoint ==
    status = "ok" =>
        /\ \A b \in live : b.at + b.size <= brk
        /\ \A b, c \in live :
             b # c => b.at + b.size <= c.at - HEADER \/ c.at + c.size <= b.at - HEADER

Listed == DOMAIN header \ {0}
Least(S) == CHOOSE a \in S : \A b \in S : a <= b
Greatest(S) == CHOOSE a \in S : \A b \in S : b <= a

\* The list is in the order of addresses, from the second block on (the first,
\* at address 0, is never in it), and is cut only where brk replaced a header.
ListInOrder ==
    /\ head = IF Listed = {} THEN NULL ELSE Least(Listed)
    /\ tail = IF Listed = {} THEN NULL ELSE Greatest(Listed)
    /\ \A a \in Listed :
         LET after == {b \in Listed : b > a}
             next  == IF after = {} THEN NULL ELSE Least(after)
         IN  header[a].next = next \/ (a \in wiped /\ header[a].next \in {0, Junk})

\* Both hold after every sequence of calls whose sizes do not wrap around 2^64
\* with a header added: two owners never share a byte, and what free gives back
\* can be found again.
HeapSound == BlocksDisjoint /\ ListInOrder

\* The heap grows only when no block that was freed serves the request, save
\* blocks the program cannot find any more: the first, and those behind a
\* header that was replaced.
GrowsOnlyWhenNeeded ==
    [][brk' # brk =>
         \A a \in Listed :
            (header[a].free = 1 /\ {b \in wiped : b <= a} \cap Listed = {})
                => header[a].size < size]_vars

\* malloc returns, whatever the list went through, or stops at a fault, for
\* sizes that do not wrap around 2^64 with a header added.
MallocReturns == (pc = "walk") ~> (pc = "idle" \/ status # "ok")

-----------------------------------------------------------------------------
(* What a caller of malloc relies on and does not get.                     *)

\* stdlib.c:32: a request that cannot be met answers NULL ("内存耗尽").
NeverFaults == status # "fault"

\* A header is what malloc and free wrote.
NeverCorrupt == status # "corrupt"
=============================================================================
