--------------------------- MODULE UserHeapProofs ---------------------------
(***************************************************************************)
(* Theorems about malloc and free, for pages, requests and numbers of      *)
(* calls of any size, as long as no break wraps.                           *)
(***************************************************************************)
EXTENDS UserHeap, TLAPS

\* The break that sbrk computes is an address.  malloc does not test it: a
\* request of nearly 2^64 bytes answers a block beyond the break.
NoWrap == pc = "walk" => brk + HEADER + size < Word

-----------------------------------------------------------------------------
(* The inductive invariant.                                                *)

Headers == DOMAIN header

Fields == [size : Int, next : Int, free : {0, 1, Junk}]

TypeOK ==
    /\ brk \in Nat /\ size \in Nat /\ head \in Nat /\ tail \in Nat /\ curr \in Int
    /\ Headers \subseteq Nat
    /\ header \in [Headers -> Fields]
    /\ live \subseteq [at : Nat, size : Nat]
    /\ pc \in {"idle", "walk"}

\* n bytes of data behind the header at a end below the next header and the break.
Room(a, n) == a + HEADER + n <= brk /\ \A b \in Headers : a < b => a + HEADER + n <= b

\* Headers do not overlap, nor does what they say, whoever wrote it.
Layout == \A a \in Headers : Room(a, 0) /\ Room(a, header[a].size)

\* A block given out has a header of its own, which is not free.
Owned ==
    /\ \A b \in live :
         /\ b.at - HEADER \in Headers
         /\ Room(b.at - HEADER, b.size)
         /\ header[b.at - HEADER].free # 1
    /\ \A b, c \in live : b.at = c.at => b = c

\* n is the first of the list, or of the part of the list above a.
First(n, S) == IF S = {} THEN n = NULL ELSE n \in S /\ \A b \in S : n <= b

Above(a) == {b \in Listed : b > a}

Chain ==
    /\ First(head, Listed)
    /\ IF Listed = {} THEN tail = NULL ELSE tail \in Listed /\ \A b \in Listed : b <= tail
    /\ \A a \in Listed :
         First(header[a].next, Above(a)) \/ (a \in wiped /\ header[a].next \in {0, Junk})

\* No replaced header is between the start of the list and a.
Reached(a) == {b \in wiped : b <= a} \cap Listed = {}

\* malloc has passed only blocks that do not serve, or lost its way.
Walked ==
    pc = "walk" =>
        /\ curr \in Listed \cup {NULL}
        /\ \A a \in Listed : Reached(a) => (curr # NULL /\ curr <= a) \/ ~Fits(header[a])

UInv == TypeOK /\ Layout /\ Owned /\ Chain /\ Walked

-----------------------------------------------------------------------------
(* Pages.                                                                  *)

LEMMA DivMonotone ==
    ASSUME NEW p \in Nat, p > 0, NEW x \in Nat, NEW y \in Nat, x <= y
    PROVE  x \div p <= y \div p /\ x \div p \in Nat /\ y \div p \in Nat
OBVIOUS

\* The field next is in the pages of its header.
LEMMA NextInHeader ==
    ASSUME NEW a \in Nat
    PROVE  NextPages(a) \subseteq HeaderPages(a)
<1>1. PICK p : p = PAGE_SIZE
  OBVIOUS
<1>2. p \in Nat /\ p > 0
  BY <1>1, HeapAssumption DEF HeapAssumption, HEADER
<1>3. PICK x, y, z : x = a + 8 /\ y = a + 8 + 8 - 1 /\ z = a + 20 - 1
  OBVIOUS
<1>4. x \in Nat /\ y \in Nat /\ z \in Nat /\ a <= x /\ y <= z
  BY <1>3
<1>5. a \div p <= x \div p /\ a \div p \in Nat /\ x \div p \in Nat
  BY <1>2, <1>4, DivMonotone
<1>6. y \div p <= z \div p /\ y \div p \in Nat /\ z \div p \in Nat
  BY <1>2, <1>4, DivMonotone
<1>7. x \div p .. y \div p \subseteq a \div p .. z \div p
  BY <1>5, <1>6
<1> QED BY <1>1, <1>3, <1>7 DEF NextPages, HeaderPages, PagesOf

\* What a brk that succeeds does to the headers.
LEMMA GrownHeaders ==
    ASSUME TypeOK, NEW g \in Grown(NewBrk)
    PROVE  /\ g.headers \in [Headers -> Fields]
           /\ \A a \in Headers :
                /\ g.headers[a].size \in {header[a].size, 0, Junk}
                /\ g.headers[a].free \in {header[a].free, 0, Junk}
                /\ \/ g.headers[a].next = header[a].next
                   \/ /\ g.headers # header /\ a \in Hit(BrkPages(NewBrk))
                      /\ g.headers[a].next \in {0, Junk}
<1>1. header \in [Headers -> Fields] /\ Headers \subseteq Nat
  BY DEF TypeOK
<1>2. CASE g = [pages |-> mapped, headers |-> header]
  BY <1>1, <1>2
<1>3. CASE \E c \in {0, Junk} : g.headers = Replaced(BrkPages(NewBrk), c)
  <2>1. PICK c \in {0, Junk} : g.headers = Replaced(BrkPages(NewBrk), c)
    BY <1>3
  <2>2. PICK P : P = BrkPages(NewBrk)
    OBVIOUS
  <2>3. g.headers = [a \in Headers |->
                       [size |-> IF SizePages(a) \cap P = {} THEN header[a].size ELSE c,
                        next |-> IF NextPages(a) \cap P = {} THEN header[a].next ELSE c,
                        free |-> IF FreePages(a) \cap P = {} THEN header[a].free ELSE c]]
    BY <2>1, <2>2 DEF Replaced, Headers
  <2>4. c \in Int /\ c \in {0, 1, Junk}
    BY DEF Junk
  <2>5. ASSUME NEW a \in Headers
        PROVE  /\ g.headers[a] \in Fields
               /\ g.headers[a].size \in {header[a].size, 0, Junk}
               /\ g.headers[a].free \in {header[a].free, 0, Junk}
               /\ NextPages(a) \cap P = {} => g.headers[a].next = header[a].next
               /\ g.headers[a].next \in {header[a].next, 0, Junk}
    <3>1. header[a] \in Fields
      BY <1>1
    <3>2. g.headers[a] = [size |-> IF SizePages(a) \cap P = {} THEN header[a].size ELSE c,
                          next |-> IF NextPages(a) \cap P = {} THEN header[a].next ELSE c,
                          free |-> IF FreePages(a) \cap P = {} THEN header[a].free ELSE c]
      BY <2>3
    <3>3. PICK s, n, f : /\ s = IF SizePages(a) \cap P = {} THEN header[a].size ELSE c
                         /\ n = IF NextPages(a) \cap P = {} THEN header[a].next ELSE c
                         /\ f = IF FreePages(a) \cap P = {} THEN header[a].free ELSE c
      OBVIOUS
    <3>4. s \in Int /\ n \in Int /\ f \in {0, 1, Junk}
      BY <2>4, <3>1, <3>3 DEF Fields
    <3>5. g.headers[a] = [size |-> s, next |-> n, free |-> f]
      BY <3>2, <3>3
    <3> QED BY <3>3, <3>4, <3>5 DEF Fields
  <2>6. ASSUME NEW a \in Headers, g.headers[a].next # header[a].next
        PROVE  g.headers # header /\ a \in Hit(BrkPages(NewBrk))
    <3>1. NextPages(a) \cap P # {}
      BY <2>5, <2>6
    <3>2. HeaderPages(a) \cap P # {}
      BY <1>1, <3>1, NextInHeader
    <3> QED BY <2>2, <2>6, <3>2 DEF Hit, Headers
  <2>7. g.headers \in [Headers -> Fields]
    BY <2>3, <2>5
  <2> QED BY <2>5, <2>6, <2>7
<1>4. g = [pages |-> mapped, headers |-> header] \/ \E c \in {0, Junk} : g.headers = Replaced(BrkPages(NewBrk), c)
  BY DEF Grown
<1> QED BY <1>2, <1>3, <1>4

-----------------------------------------------------------------------------
(* malloc_grows.                                                           *)

\* The block that is added, and what becomes of the others.
LEMMA GrowsStep ==
    ASSUME UInv, NoWrap, malloc_grows
    PROVE  /\ brk' = brk + HEADER + size /\ brk \notin Headers /\ Headers' = Headers \cup {brk}
           /\ header' \in [Headers' -> Fields]
           /\ header'[brk] = NewHeader
           /\ wiped \subseteq wiped'
           /\ tail # NULL => header'[tail].next = brk
           /\ \A a \in Headers :
                /\ header'[a].size \in {header[a].size, 0, Junk}
                /\ header'[a].free \in {header[a].free, 0, Junk}
                /\ \/ header'[a].next = header[a].next
                   \/ a \in wiped' /\ header'[a].next \in {0, Junk}
                   \/ a = tail
<1>1. TypeOK /\ Layout /\ Chain
  BY DEF UInv
<1>2. brk \in Nat /\ size \in Nat /\ HEADER = 24 /\ tail \in Nat /\ Headers \subseteq Nat
  BY <1>1 DEF TypeOK, HEADER
<1>3. brk + HEADER + size < Word /\ Word \in Nat
  BY HeapAssumption DEF NoWrap, malloc_grows, Growing, HeapAssumption
<1>4. NewBrk = brk + HEADER + size /\ NewBrk > brk
  <2>1. PICK n : n = brk + HEADER + size
    OBVIOUS
  <2>2. n \in Nat /\ n < Word /\ n > brk
    BY <1>2, <1>3, <2>1
  <2>3. n % Word = n
    BY <1>3, <2>2
  <2> QED BY <2>1, <2>2, <2>3 DEF NewBrk
<1>5. brk \notin Headers
  <2>1. \A a \in Headers : a + 24 + 0 <= brk
    BY <1>1, <1>2 DEF Layout, Room
  <2> QED BY <1>2, <2>1
<1>6. PICK g \in Grown(NewBrk) :
         /\ header' = Link(With(g.headers, brk, NewHeader), brk)
         /\ wiped' = IF g.headers = header THEN wiped ELSE wiped \cup Hit(BrkPages(NewBrk))
  BY <1>4 DEF malloc_grows
<1>7. PICK hs : hs = g.headers
  OBVIOUS
<1>8. /\ hs \in [Headers -> Fields]
      /\ \A a \in Headers :
           /\ hs[a].size \in {header[a].size, 0, Junk}
           /\ hs[a].free \in {header[a].free, 0, Junk}
           /\ \/ hs[a].next = header[a].next
              \/ hs # header /\ a \in Hit(BrkPages(NewBrk)) /\ hs[a].next \in {0, Junk}
  BY <1>1, <1>7, GrownHeaders
<1>9. PICK ws : ws = With(hs, brk, NewHeader)
  OBVIOUS
<1>10. ws = [b \in Headers \cup {brk} |-> IF b = brk THEN NewHeader ELSE hs[b]]
  BY <1>8, <1>9 DEF With
<1>11. NewHeader \in Fields
  BY <1>2 DEF NewHeader, Fields, NULL
<1>12. ws \in [Headers \cup {brk} -> Fields] /\ ws[brk] = NewHeader /\ \A a \in Headers : ws[a] = hs[a]
  BY <1>5, <1>8, <1>10, <1>11
<1>13. brk' = brk + HEADER + size
  BY <1>4 DEF malloc_grows
<1>14. wiped \subseteq wiped' /\ \A a \in Hit(BrkPages(NewBrk)) : hs # header => a \in wiped'
  BY <1>6, <1>7
<1>15. CASE tail = NULL
  <2>1. header' = ws
    BY <1>6, <1>7, <1>9, <1>15 DEF Link
  <2>2. Headers' = Headers \cup {brk}
    BY <2>1, <1>12 DEF Headers
  <2> QED BY <1>5, <1>8, <1>12, <1>13, <1>14, <1>15, <2>1, <2>2
<1>16. CASE tail # NULL
  <2>1. tail \in Headers
    BY <1>1, <1>16 DEF Chain, Listed, Headers
  <2>2. header' = [ws EXCEPT ![tail].next = brk]
    BY <1>6, <1>7, <1>9, <1>16 DEF Link
  <2>3. tail # brk /\ ws[tail] \in Fields /\ brk \in Int
    BY <1>2, <1>5, <1>12, <2>1
  <2>4. header'[tail] = [ws[tail] EXCEPT !.next = brk] /\ tail \in Headers \cup {brk}
    BY <1>12, <2>1, <2>2
  <2>5. /\ header'[tail].next = brk /\ header'[tail].size = ws[tail].size
        /\ header'[tail].free = ws[tail].free /\ header'[tail] \in Fields
    BY <2>3, <2>4 DEF Fields
  <2>6. \A a \in Headers \cup {brk} : a # tail => header'[a] = ws[a]
    BY <1>12, <2>2
  <2>7. DOMAIN header' = Headers \cup {brk} /\ header' = [a \in Headers \cup {brk} |-> header'[a]]
    BY <1>12, <2>2
  <2>8. Headers' = Headers \cup {brk}
    BY <2>7 DEF Headers
  <2>9. header' \in [Headers' -> Fields]
    BY <1>12, <2>5, <2>6, <2>7, <2>8
  <2>10. header'[brk] = NewHeader
    BY <1>12, <2>3, <2>6
  <2>11. ASSUME NEW a \in Headers
         PROVE  /\ header'[a].size \in {header[a].size, 0, Junk}
                /\ header'[a].free \in {header[a].free, 0, Junk}
                /\ \/ header'[a].next = header[a].next
                   \/ a \in wiped' /\ header'[a].next \in {0, Junk}
                   \/ a = tail
    <3>1. ws[a] = hs[a]
      BY <1>12
    <3>2. CASE a = tail
      BY <1>8, <2>5, <3>1, <3>2
    <3>3. CASE a # tail
      BY <1>8, <1>14, <2>6, <3>1, <3>3
    <3> QED BY <3>2, <3>3
  <2> QED BY <1>5, <1>13, <1>14, <2>5, <2>8, <2>9, <2>10, <2>11
<1> QED BY <1>15, <1>16

\* The rest of what malloc_grows does.
LEMMA GrowsRest ==
    ASSUME malloc_grows
    PROVE  /\ pc = "walk" /\ pc' = "idle" /\ size' = 0 /\ curr' = curr /\ curr = NULL
           /\ head' = (IF head = NULL THEN brk ELSE head) /\ tail' = brk
           /\ live' = live \cup {Block(brk)}
BY DEF malloc_grows, Growing

LEMMA GrowsInv ==
    ASSUME UInv, NoWrap, malloc_grows
    PROVE  UInv'
<1>1. TypeOK /\ Layout /\ Owned /\ Chain
  BY DEF UInv
<1>2. /\ brk \in Nat /\ size \in Nat /\ HEADER = 24 /\ head \in Nat /\ tail \in Nat /\ curr \in Int
      /\ Headers \subseteq Nat /\ header \in [Headers -> Fields] /\ NULL = 0
  BY <1>1 DEF TypeOK, HEADER, NULL
<1>3. /\ brk' = brk + 24 + size /\ brk \notin Headers /\ Headers' = Headers \cup {brk}
      /\ header' \in [Headers' -> Fields]
      /\ header'[brk] = NewHeader
      /\ wiped \subseteq wiped'
      /\ tail # NULL => header'[tail].next = brk
  BY <1>2, GrowsStep
<1>4. \A a \in Headers :
        /\ header'[a].size \in {header[a].size, 0, Junk}
        /\ header'[a].free \in {header[a].free, 0, Junk}
        /\ \/ header'[a].next = header[a].next
           \/ a \in wiped' /\ header'[a].next \in {0, Junk}
           \/ a = tail
  BY GrowsStep
<1>5. /\ pc' = "idle" /\ size' = 0 /\ curr' = curr
      /\ head' = (IF head = NULL THEN brk ELSE head) /\ tail' = brk
      /\ live' = live \cup {Block(brk)}
  BY GrowsRest
<1>6. NewHeader.size = size /\ NewHeader.next = NULL /\ NewHeader.free = 0
  BY DEF NewHeader
<1>7. PICK new, z, s : new = Block(brk) /\ z = brk /\ s = size
  OBVIOUS
<1>8. new \in [at : Nat, size : Nat] /\ new.at = brk + 24 /\ new.size = size /\ new.at - HEADER = brk
  BY <1>2, <1>7 DEF Block
<1>9. TypeOK'
  <2>1. brk' \in Nat /\ size' \in Nat /\ head' \in Nat /\ tail' \in Nat /\ curr' \in Int
    BY <1>2, <1>3, <1>5
  <2>2. Headers' \subseteq Nat /\ live' \subseteq [at : Nat, size : Nat]
    BY <1>1, <1>2, <1>3, <1>5, <1>7, <1>8 DEF TypeOK
  <2> QED BY <1>3, <1>5, <2>1, <2>2 DEF TypeOK
<1>10. ASSUME NEW a \in Headers, NEW n \in Int, Room(a, n)
       PROVE  Room(a, n)'
  <2>1. a \in Nat /\ a + 24 + n <= brk /\ \A b \in Headers : a < b => a + 24 + n <= b
    BY <1>2, <1>10 DEF Room
  <2>2. a + 24 + n <= brk' /\ \A b \in Headers' : a < b => a + 24 + n <= b
    BY <1>2, <1>3, <2>1
  <2> QED BY <1>2, <2>2 DEF Room
<1>11. ASSUME NEW n \in Int, n <= s
       PROVE  Room(z, n)'
  <2>1. \A a \in Headers : a + 24 + 0 <= brk
    BY <1>1, <1>2 DEF Layout, Room
  <2>2. \A b \in Headers' : ~(brk < b)
    BY <1>2, <1>3, <2>1
  <2>3. brk + 24 + n <= brk'
    BY <1>2, <1>3, <1>7, <1>11
  <2> QED BY <1>2, <1>7, <2>2, <2>3 DEF Room
<1>12. Layout'
  <2>1. ASSUME NEW a \in Headers
        PROVE  Room(a, 0)' /\ Room(a, header[a].size)'
    <3>1. Room(a, 0) /\ Room(a, header[a].size) /\ header[a] \in Fields /\ a \in Nat
      BY <1>1, <1>2 DEF Layout
    <3>2. Room(a, 0)'
      BY <3>1, <1>10
    <3>3. PICK n : n = header'[a].size
      OBVIOUS
    <3>4. n = header[a].size \/ n = 0 \/ n = Junk
      BY <1>4, <3>3
    <3>5. CASE n = header[a].size \/ n = 0
      <4>1. n \in Int /\ Room(a, n)
        BY <3>1, <3>5 DEF Fields
      <4>2. Room(a, n)'
        BY <4>1, <1>10
      <4> QED BY <3>2, <3>3, <4>2
    <3>6. CASE n = Junk
      <4>1. n = -1
        BY <3>6 DEF Junk
      <4>2. /\ brk' \in Nat /\ Headers' \subseteq Nat /\ a + 24 + 0 <= brk'
            /\ \A b \in Headers' : a < b => a + 24 + 0 <= b
        BY <1>2, <1>9, <3>2 DEF Room, TypeOK
      <4>3. a + 24 + n <= brk' /\ \A b \in Headers' : a < b => a + 24 + n <= b
        BY <3>1, <4>1, <4>2
      <4>4. Room(a, n)'
        BY <1>2, <4>3 DEF Room
      <4> QED BY <3>2, <3>3, <4>4
    <3> QED BY <3>4, <3>5, <3>6
  <2>2. s \in Int /\ 0 <= s
    BY <1>2, <1>7
  <2>3. Room(z, 0)' /\ Room(z, s)'
    BY <1>11, <2>2
  <2>4. header'[z].size = s /\ Headers' = Headers \cup {z}
    BY <1>3, <1>6, <1>7
  <2>5. Room(z, header[z].size)'
    BY <2>3, <2>4
  <2> QED BY <2>1, <2>3, <2>4, <2>5 DEF Layout
<1>13. Owned'
  <2>1. ASSUME NEW b \in live
        PROVE  /\ b.at - HEADER \in Headers' /\ Room(b.at - HEADER, b.size)'
               /\ header'[b.at - HEADER].free # 1 /\ b.at # new.at
    <3>1. PICK a : a = b.at - HEADER
      OBVIOUS
    <3>2. b \in [at : Nat, size : Nat] /\ b.at \in Nat /\ b.size \in Nat
      BY <1>1 DEF TypeOK
    <3>3. a \in Headers /\ Room(a, b.size) /\ header[a].free # 1
      BY <1>1, <3>1 DEF Owned
    <3>4. Room(a, b.size)'
      BY <1>10, <3>2, <3>3
    <3>5. header'[a].free # 1
      BY <1>4, <3>3 DEF Junk
    <3>6. b.at # new.at
      BY <1>2, <1>3, <1>8, <3>1, <3>2, <3>3
    <3> QED BY <1>3, <3>1, <3>3, <3>4, <3>5, <3>6
  <2>2. /\ new.at - HEADER \in Headers' /\ Room(new.at - HEADER, new.size)'
        /\ header'[new.at - HEADER].free # 1
    <3>1. new.at - HEADER = z /\ new.size = s /\ s \in Int /\ s <= s
      BY <1>2, <1>7, <1>8
    <3>2. Room(z, s)'
      BY <1>11, <3>1
    <3>3. z \in Headers' /\ header'[z].free # 1
      BY <1>3, <1>6, <1>7
    <3> QED BY <3>1, <3>2, <3>3
  <2>3. \A b, c \in live : b.at = c.at => b = c
    BY <1>1 DEF Owned
  <2>4. \A b \in live' : /\ b.at - HEADER \in Headers' /\ Room(b.at - HEADER, b.size)'
                         /\ header'[b.at - HEADER].free # 1
    BY <1>5, <1>7, <2>1, <2>2
  <2>5. \A b, c \in live' : b.at = c.at => b = c
    BY <1>5, <1>7, <2>1, <2>3
  <2> QED BY <2>4, <2>5 DEF Owned
<1>14. Chain'
  <2>1. Listed = Headers \ {0} /\ Listed' = Headers' \ {0}
    BY DEF Listed, Headers
  <2>2. \A a \in Headers : a < brk
    <3>1. \A a \in Headers : a + 24 + 0 <= brk
      BY <1>1, <1>2 DEF Layout, Room
    <3> QED BY <1>2, <3>1
  <2>3. CASE brk = 0
    <3>1. Listed = {} /\ Listed' = {}
      BY <1>2, <1>3, <2>1, <2>2, <2>3
    <3>2. head' = NULL /\ tail' = NULL
      BY <1>2, <1>5, <2>3, <1>1, <3>1 DEF Chain, First
    <3> QED BY <3>1, <3>2 DEF Chain, First
  <2>4. CASE brk # 0
    <3>1. Listed' = Listed \cup {brk} /\ \A b \in Listed : b < brk /\ b # 0 /\ b \in Nat
      BY <1>2, <1>3, <2>1, <2>2, <2>4
    <3>2. First(head', Listed')
      <4>1. CASE Listed = {}
        <5>1. head' = brk
          BY <1>1, <1>5, <4>1 DEF Chain, First
        <5> QED BY <1>2, <3>1, <4>1, <5>1 DEF First
      <4>2. CASE Listed # {}
        <5>1. head \in Listed /\ \A b \in Listed : head <= b
          BY <1>1, <4>2 DEF Chain, First
        <5>2. head' = head /\ head <= brk
          BY <1>2, <1>5, <3>1, <5>1
        <5> QED BY <3>1, <5>1, <5>2 DEF First
      <4> QED BY <4>1, <4>2
    <3>3. tail' \in Listed' /\ \A b \in Listed' : b <= tail'
      BY <1>2, <1>5, <3>1
    <3>4. ASSUME NEW a \in Listed
          PROVE  First(header'[a].next, Above(a)') \/ (a \in wiped' /\ header'[a].next \in {0, Junk})
      <4>1. Above(a) = {b \in Listed : b > a} /\ Above(a)' = Above(a) \cup {brk}
        BY <1>2, <3>1 DEF Above
      <4>2. tail \in Listed /\ \A b \in Listed : b <= tail
        BY <1>1, <3>4 DEF Chain
      <4>3. CASE a = tail
        <5>1. Above(a) = {}
          BY <3>1, <4>1, <4>2, <4>3
        <5>2. header'[a].next = brk
          BY <1>2, <1>3, <3>1, <4>2, <4>3
        <5> QED BY <1>2, <4>1, <5>1, <5>2 DEF First
      <4>4. CASE a # tail
        <5>1. tail \in Above(a)
          BY <3>1, <4>1, <4>2, <4>4
        <5>2. a \in Headers
          BY <2>1
        <5>3. CASE header'[a].next = header[a].next /\ First(header[a].next, Above(a))
          <6>1. PICK n : n = header[a].next
            OBVIOUS
          <6>2. n \in Above(a) /\ \A b \in Above(a) : n <= b
            BY <5>1, <5>3, <6>1 DEF First
          <6>3. n <= brk
            BY <1>2, <3>1, <4>1, <6>2
          <6>4. First(n, Above(a)')
            BY <4>1, <6>2, <6>3 DEF First
          <6> QED BY <5>3, <6>1, <6>4
        <5>4. CASE header'[a].next = header[a].next /\ a \in wiped /\ header[a].next \in {0, Junk}
          BY <1>3, <5>4
        <5> QED BY <1>1, <1>4, <4>4, <5>2, <5>3, <5>4 DEF Chain
      <4> QED BY <4>3, <4>4
    <3>5. First(header'[z].next, Above(z)')
      <4>1. Above(z)' = {}
        BY <1>2, <1>7, <3>1 DEF Above
      <4> QED BY <1>3, <1>6, <1>7, <4>1 DEF First
    <3>6. Listed' = Listed \cup {z} /\ Listed' # {}
      BY <1>7, <3>1
    <3>7. \A a \in Listed' : First(header'[a].next, Above(a)') \/ (a \in wiped' /\ header'[a].next \in {0, Junk})
      BY <3>4, <3>5, <3>6
    <3> QED BY <3>2, <3>3, <3>6, <3>7 DEF Chain
  <2> QED BY <2>3, <2>4
<1>15. Walked'
  BY <1>5 DEF Walked
<1> QED BY <1>9, <1>12, <1>13, <1>14, <1>15 DEF UInv

-----------------------------------------------------------------------------
(* The other actions.                                                      *)

\* A flag is set or cleared: nothing moves, and the list stays as it is.
LEMMA FlagStep ==
    ASSUME UInv, NEW a \in Headers, NEW f \in {0, 1}, header' = [header EXCEPT ![a].free = f],
           UNCHANGED <<brk, head, tail, wiped>>
    PROVE  /\ Headers' = Headers /\ Listed' = Listed /\ header' \in [Headers -> Fields]
           /\ header'[a].free = f
           /\ \A b \in Headers : /\ header'[b].size = header[b].size
                                 /\ b # a => header'[b].free = header[b].free
           /\ \A b, n : Room(b, n)' <=> Room(b, n)
           /\ Layout' /\ Chain'
<1>1. header \in [Headers -> Fields] /\ Layout /\ Chain
  BY DEF UInv, TypeOK
<1>2. header[a] \in Fields /\ f \in {0, 1, Junk}
  BY <1>1
<1>3. header'[a] = [header[a] EXCEPT !.free = f]
  BY <1>1
<1>4. /\ header'[a].size = header[a].size /\ header'[a].next = header[a].next
      /\ header'[a].free = f /\ header'[a] \in Fields
  BY <1>2, <1>3 DEF Fields
<1>5. \A b \in Headers : b # a => header'[b] = header[b]
  BY <1>1
<1>6. DOMAIN header' = Headers /\ header' = [b \in Headers |-> header'[b]]
  BY <1>1
<1>7. Headers' = Headers /\ Listed' = Listed
  BY <1>6 DEF Headers, Listed
<1>8. header' \in [Headers -> Fields]
  BY <1>1, <1>4, <1>5, <1>6
<1>9. \A b, n : Room(b, n)' <=> Room(b, n)
  BY <1>7 DEF Room
<1>10. \A b \in Headers : header'[b].size = header[b].size /\ header'[b].next = header[b].next
  BY <1>4, <1>5
<1>11. Layout'
  <2>1. SUFFICES ASSUME NEW b \in Headers PROVE Room(b, 0)' /\ Room(b, header[b].size)'
    BY <1>7 DEF Layout
  <2>2. Room(b, 0) /\ Room(b, header[b].size)
    BY <1>1 DEF Layout
  <2>3. PICK n : n = header[b].size
    OBVIOUS
  <2>4. Room(b, n)' /\ n = header'[b].size
    BY <1>9, <1>10, <2>2, <2>3
  <2>5. Room(b, header[b].size)'
    BY <2>4
  <2> QED BY <1>9, <2>2, <2>5
<1>12. Chain'
  <2>1. \A b : Above(b)' = Above(b)
    BY <1>7 DEF Above
  <2>2. \A b \in Listed : header'[b].next = header[b].next
    BY <1>10 DEF Listed, Headers
  <2> QED BY <1>1, <1>7, <2>1, <2>2 DEF Chain
<1> QED BY <1>4, <1>5, <1>7, <1>8, <1>9, <1>10, <1>11, <1>12

\* A block that fits becomes a block of the program.
LEMMA FoundInv ==
    ASSUME UInv, malloc_found
    PROVE  UInv'
<1>1. TypeOK /\ Layout /\ Owned /\ Walked
  BY DEF UInv
<1>2. pc = "walk" /\ curr \in Listed /\ curr # NULL
  BY <1>1 DEF malloc_found, Walking, Walked
<1>3. curr \in Headers /\ curr \in Nat /\ HEADER = 24 /\ size \in Nat
  BY <1>1, <1>2 DEF Listed, Headers, TypeOK, HEADER
<1>4. header[curr] \in Fields
  BY <1>1, <1>3 DEF TypeOK
<1>5. header[curr].free = 1 /\ header[curr].size >= size
  BY <1>4 DEF malloc_found, Readable, ReadsJunk, Fits, Fields
<1>6. /\ header' = [header EXCEPT ![curr].free = 0]
      /\ UNCHANGED <<brk, head, tail, wiped>> /\ pc' = "idle" /\ size' = 0 /\ curr' = 0
      /\ live' = live \cup {Block(curr)}
  BY DEF malloc_found, NULL
<1>7. PICK a, f : a = curr /\ f = 0
  OBVIOUS
<1>8. a \in Headers /\ f \in {0, 1} /\ header' = [header EXCEPT ![a].free = f]
  BY <1>3, <1>6, <1>7
<1>9. /\ Headers' = Headers /\ Listed' = Listed /\ header' \in [Headers -> Fields]
      /\ header'[a].free = f
      /\ \A b \in Headers : /\ header'[b].size = header[b].size
                            /\ b # a => header'[b].free = header[b].free
      /\ \A b, n : Room(b, n)' <=> Room(b, n)
      /\ Layout' /\ Chain'
  BY <1>6, <1>8, FlagStep
<1>10. PICK new : new = Block(a) /\ new = Block(curr)
  BY <1>7
<1>11. new = [at |-> a + 24, size |-> size]
  BY <1>3, <1>10 DEF Block
<1>12. new \in [at : Nat, size : Nat] /\ new.at - HEADER = a /\ new.size = size
  BY <1>3, <1>7, <1>11
<1>13. TypeOK'
  <2>1. live' \subseteq [at : Nat, size : Nat]
    BY <1>1, <1>6, <1>10, <1>12 DEF TypeOK
  <2> QED BY <1>1, <1>6, <1>9, <2>1 DEF TypeOK
<1>14. Room(a, size)
  <2>1. PICK n : n = header[a].size
    OBVIOUS
  <2>2. n \in Int /\ n >= size /\ Room(a, n)
    BY <1>1, <1>4, <1>5, <1>7, <1>8, <2>1 DEF Layout, Fields
  <2>3. a \in Nat /\ brk \in Nat /\ Headers \subseteq Nat
    BY <1>1, <1>3, <1>7 DEF TypeOK
  <2> QED BY <1>3, <2>2, <2>3 DEF Room
<1>15. Owned'
  <2>1. ASSUME NEW b \in live
        PROVE  /\ b.at - HEADER \in Headers' /\ Room(b.at - HEADER, b.size)'
               /\ header'[b.at - HEADER].free # 1 /\ b.at # new.at
    <3>1. PICK h : h = b.at - HEADER
      OBVIOUS
    <3>2. h \in Headers /\ Room(h, b.size) /\ header[h].free # 1
      BY <1>1, <3>1 DEF Owned
    <3>3. h # a
      BY <1>5, <1>7, <3>2
    <3>4. header'[h].free # 1 /\ Room(h, b.size)'
      BY <1>9, <3>2, <3>3
    <3> QED BY <1>9, <1>12, <3>1, <3>2, <3>3, <3>4
  <2>2. /\ new.at - HEADER \in Headers' /\ Room(new.at - HEADER, new.size)'
        /\ header'[new.at - HEADER].free # 1
    <3>1. PICK s : s = size
      OBVIOUS
    <3>2. Room(a, s)'
      BY <1>9, <1>14, <3>1
    <3> QED BY <1>7, <1>8, <1>9, <1>12, <3>1, <3>2
  <2>3. \A b, c \in live : b.at = c.at => b = c
    BY <1>1 DEF Owned
  <2>4. \A b \in live' : /\ b.at - HEADER \in Headers' /\ Room(b.at - HEADER, b.size)'
                         /\ header'[b.at - HEADER].free # 1
    BY <1>6, <1>10, <2>1, <2>2
  <2>5. \A b, c \in live' : b.at = c.at => b = c
    BY <1>6, <1>10, <2>1, <2>3
  <2> QED BY <2>4, <2>5 DEF Owned
<1>16. Walked'
  BY <1>6 DEF Walked
<1> QED BY <1>9, <1>13, <1>15, <1>16 DEF UInv

\* free sets a flag, or runs into a page that is not there.
LEMMA FreeInv ==
    ASSUME UInv, free
    PROVE  UInv'
<1>1. TypeOK /\ Layout /\ Owned /\ Chain
  BY DEF UInv
<1>2. UNCHANGED <<brk, mapped, head, tail, pc, size, curr, calls, wiped>> /\ pc = "idle"
  BY DEF free
<1>3. PICK b \in live :
        \/ header' = [header EXCEPT ![b.at - HEADER].free = 1] /\ live' = live \ {b}
        \/ UNCHANGED <<header, live>>
  BY DEF free
<1>4. Walked'
  BY <1>2 DEF Walked
<1>5. CASE UNCHANGED <<header, live>>
  <2>1. Headers' = Headers /\ Listed' = Listed
    BY <1>5 DEF Headers, Listed
  <2>2. TypeOK' /\ \A a, n : Room(a, n)' <=> Room(a, n)
    BY <1>1, <1>2, <1>5, <2>1 DEF TypeOK, Room
  <2>3. Layout' /\ Owned'
    BY <1>1, <1>2, <1>5, <2>1 DEF Layout, Owned, Room
  <2>4. Chain'
    BY <1>1, <1>2, <1>5, <2>1 DEF Chain, Above
  <2> QED BY <1>4, <2>2, <2>3, <2>4 DEF UInv
<1>6. CASE header' = [header EXCEPT ![b.at - HEADER].free = 1] /\ live' = live \ {b}
  <2>1. PICK a, f : a = b.at - HEADER /\ f = 1
    OBVIOUS
  <2>2. a \in Headers /\ f \in {0, 1} /\ header' = [header EXCEPT ![a].free = f]
    BY <1>1, <1>6, <2>1 DEF Owned
  <2>3. /\ Headers' = Headers /\ Listed' = Listed /\ header' \in [Headers -> Fields]
        /\ \A d \in Headers : d # a => header'[d].free = header[d].free
        /\ \A d, n : Room(d, n)' <=> Room(d, n)
        /\ Layout' /\ Chain'
    BY <1>2, <2>2, FlagStep
  <2>4. TypeOK'
    BY <1>1, <1>2, <1>6, <2>3 DEF TypeOK
  <2>5. Owned'
    <3>1. ASSUME NEW d \in live'
          PROVE  /\ d.at - HEADER \in Headers' /\ Room(d.at - HEADER, d.size)'
                 /\ header'[d.at - HEADER].free # 1
      <4>1. PICK h : h = d.at - HEADER
        OBVIOUS
      <4>2. d \in live /\ d # b
        BY <1>6
      <4>3. h \in Headers /\ Room(h, d.size) /\ header[h].free # 1 /\ d.at # b.at
        BY <1>1, <4>1, <4>2 DEF Owned
      <4>4. h # a
        <5>1. d.at \in Nat /\ b.at \in Nat
          BY <1>1, <4>2 DEF TypeOK
        <5> QED BY <2>1, <4>1, <4>3, <5>1 DEF HEADER
      <4> QED BY <2>3, <4>1, <4>3, <4>4
    <3>2. \A d, e \in live' : d.at = e.at => d = e
      BY <1>1, <1>6 DEF Owned
    <3> QED BY <3>1, <3>2 DEF Owned
  <2> QED BY <1>4, <2>3, <2>4, <2>5 DEF UInv
<1> QED BY <1>3, <1>5, <1>6

\* Steps that leave the heap alone.
LEMMA HeapKept ==
    ASSUME UInv, UNCHANGED <<brk, header, head, tail, live, wiped>>, size' \in Nat,
           curr' \in Int, pc' \in {"idle", "walk"}, Walked'
    PROVE  UInv'
<1>1. TypeOK /\ Layout /\ Owned /\ Chain
  BY DEF UInv
<1>2. Headers' = Headers /\ Listed' = Listed
  BY DEF Headers, Listed
<1>3. TypeOK'
  BY <1>1, <1>2 DEF TypeOK
<1>4. Layout' /\ Owned'
  BY <1>1, <1>2 DEF Layout, Owned, Room
<1>5. Chain'
  BY <1>1, <1>2 DEF Chain, Above
<1> QED BY <1>3, <1>4, <1>5 DEF UInv

LEMMA MallocInv ==
    ASSUME UInv, malloc
    PROVE  UInv'
<1>1. TypeOK /\ Chain
  BY DEF UInv
<1>2. UNCHANGED <<brk, header, head, tail, live, wiped>> /\ pc = "idle"
  BY DEF malloc
<1>3. PICK n \in Sizes : size' = n /\ pc' = (IF n = 0 THEN "idle" ELSE "walk")
                         /\ curr' = IF n = 0 THEN NULL ELSE head
  BY DEF malloc
<1>4. size' \in Nat /\ curr' \in Int /\ pc' \in {"idle", "walk"}
  <2>1. n \in Nat
    BY HeapAssumption DEF HeapAssumption
  <2> QED BY <1>1, <1>3, <2>1 DEF TypeOK, NULL
<1>5. Walked'
  <2>1. Listed' = Listed /\ Listed \subseteq Nat \ {0}
    BY <1>1, <1>2 DEF Listed, TypeOK, Headers
  <2>2. CASE pc' = "walk"
    <3>1. curr' = head
      BY <1>3, <2>2
    <3>2. head \in Listed \cup {NULL} /\ \A a \in Listed : head # NULL /\ head <= a
      BY <1>1, <2>1 DEF Chain, First, NULL
    <3> QED BY <2>1, <3>1, <3>2 DEF Walked
  <2> QED BY <1>4, <2>2 DEF Walked
<1> QED BY <1>2, <1>4, <1>5, HeapKept

LEMMA NextInv ==
    ASSUME UInv, malloc_next
    PROVE  UInv'
<1>1. TypeOK /\ Chain /\ Walked
  BY DEF UInv
<1>2. /\ UNCHANGED <<brk, header, head, tail, live, wiped, pc, size>> /\ pc = "walk"
      /\ curr' = header[curr].next /\ ~Fits(header[curr]) /\ header[curr].next # Junk
  BY DEF malloc_next, Walking, Readable, ReadsJunk
<1>3. curr \in Listed
  BY <1>1, <1>2 DEF malloc_next, Walking, Walked
<1>4. Listed \subseteq Nat \ {0} /\ Listed \subseteq Headers /\ Listed' = Listed
  BY <1>1, <1>2 DEF Listed, TypeOK, Headers
<1>5. PICK n : n = header[curr].next
  OBVIOUS
<1>6. n \in Int
  <2>1. header[curr] \in Fields
    BY <1>1, <1>3, <1>4 DEF TypeOK
  <2> QED BY <1>5, <2>1 DEF Fields
<1>7. First(n, Above(curr)) \/ (curr \in wiped /\ n = 0)
  BY <1>1, <1>2, <1>3, <1>5 DEF Chain
<1>8. Above(curr) = {b \in Listed : b > curr}
  BY DEF Above
<1>9. n \in Listed \cup {NULL}
  BY <1>7, <1>8 DEF First, NULL
<1>10. ASSUME NEW a \in Listed, Reached(a)
       PROVE  (n # NULL /\ n <= a) \/ ~Fits(header[a])
  <2>1. CASE a = curr
    BY <1>2, <2>1
  <2>2. CASE curr < a
    <3>1. curr \notin wiped
      BY <1>3, <1>4, <1>10, <2>2 DEF Reached
    <3>2. a \in Above(curr)
      BY <1>4, <1>8, <2>2
    <3>3. n \in Above(curr) /\ n <= a
      BY <1>7, <3>1, <3>2 DEF First
    <3> QED BY <1>4, <1>8, <3>3 DEF NULL
  <2>3. CASE ~(curr <= a)
    BY <1>1, <1>2, <1>10, <2>3 DEF Walked
  <2> QED BY <1>3, <1>4, <2>1, <2>2, <2>3
<1>11. Walked'
  <2>1. \A a : Reached(a)' <=> Reached(a)
    BY <1>2, <1>4 DEF Reached
  <2>2. \A a \in Listed : Fits(header[a])' <=> Fits(header[a])
    BY <1>2 DEF Fits
  <2> QED BY <1>2, <1>4, <1>5, <1>9, <1>10, <2>1, <2>2 DEF Walked
<1>12. size' \in Nat /\ pc' \in {"idle", "walk"} /\ curr' \in Int
  BY <1>1, <1>2, <1>5, <1>6 DEF TypeOK
<1> QED BY <1>2, <1>11, <1>12, HeapKept

LEMMA UInvStep ==
    ASSUME UInv, NoWrap, [Next]_vars
    PROVE  UInv'
<1>1. TypeOK /\ Walked
  BY DEF UInv
<1>2. CASE malloc
  BY <1>2, MallocInv
<1>3. CASE malloc_found
  BY <1>3, FoundInv
<1>4. CASE malloc_next
  BY <1>4, NextInv
<1>5. CASE malloc_fails
  <2>1. /\ UNCHANGED <<brk, header, head, tail, live, wiped, curr>> /\ pc' = "idle" /\ size' = 0
    BY <1>5 DEF malloc_fails
  <2>2. size' \in Nat /\ curr' \in Int /\ pc' \in {"idle", "walk"} /\ Walked'
    BY <1>1, <2>1 DEF TypeOK, Walked
  <2> QED BY <2>1, <2>2, HeapKept
<1>6. CASE malloc_grows
  BY <1>6, GrowsInv
<1>7. CASE free
  BY <1>7, FreeInv
<1>8. CASE malloc_astray \/ malloc_faults \/ Rest \/ UNCHANGED vars
  <2>1. UNCHANGED <<brk, header, head, tail, live, wiped, curr, size, pc>>
    BY <1>8 DEF malloc_astray, malloc_faults, Rest, vars
  <2>2. size' \in Nat /\ curr' \in Int /\ pc' \in {"idle", "walk"}
    BY <1>1, <2>1 DEF TypeOK
  <2>3. Walked'
    <3>1. Listed' = Listed
      BY <2>1 DEF Listed
    <3>2. \A a : Reached(a)' <=> Reached(a)
      BY <2>1, <3>1 DEF Reached
    <3>3. \A a \in Listed : Fits(header[a])' <=> Fits(header[a])
      BY <2>1 DEF Fits
    <3> QED BY <1>1, <2>1, <3>1, <3>2, <3>3 DEF Walked
  <2> QED BY <2>1, <2>2, <2>3, HeapKept
<1> QED BY <1>2, <1>3, <1>4, <1>5, <1>6, <1>7, <1>8 DEF Next, Steps

LEMMA InitUInv == Init => UInv
<1> SUFFICES ASSUME Init PROVE UInv
  OBVIOUS
<1>1. Headers = {} /\ Listed = {}
  BY DEF Init, Headers, Listed
<1>2. header \in [Headers -> Fields]
  BY <1>1 DEF Init, Headers
<1>3. TypeOK
  BY <1>1, <1>2 DEF Init, TypeOK, NULL
<1>4. Layout /\ Owned /\ Chain /\ Walked
  BY <1>1 DEF Init, Layout, Owned, Chain, First, Walked
<1> QED BY <1>3, <1>4 DEF UInv

-----------------------------------------------------------------------------
(* The theorems.                                                           *)

\* The inductive invariant holds as long as no break wraps: headers lie apart
\* with room for what they say, even when brk has replaced it, and malloc walks
\* along them in the order of addresses.
THEOREM UserHeapInvariant == Spec /\ []NoWrap => []UInv
<1>1. Init => UInv
  BY InitUInv
<1>2. UInv /\ NoWrap /\ [Next]_vars => UInv'
  BY UInvStep
<1> QED BY <1>1, <1>2, PTL DEF Spec

\* malloc never gives two owners a byte of the heap, and its list is in the
\* order of addresses and cut only where brk replaced a header.
THEOREM UserHeapSound == Spec /\ []NoWrap => []HeapSound
<1>1. UInv => HeapSound
  <2> SUFFICES ASSUME UInv PROVE HeapSound
    OBVIOUS
  <2>1. TypeOK /\ Owned /\ Chain /\ HEADER = 24
    BY DEF UInv, HEADER
  <2>2. BlocksDisjoint
    <3>1. ASSUME NEW b \in live
          PROVE  /\ b.at \in Nat /\ b.size \in Nat /\ brk \in Nat /\ b.at - 24 \in Headers
                 /\ b.at + b.size <= brk
                 /\ \A a \in Headers : b.at - 24 < a => b.at + b.size <= a
      <4>1. b.at \in Nat /\ b.size \in Nat /\ brk \in Nat /\ Headers \subseteq Nat
        BY <2>1 DEF TypeOK
      <4>2. PICK h : h = b.at - 24
        OBVIOUS
      <4>3. h \in Headers /\ Room(h, b.size)
        BY <2>1, <4>2 DEF Owned
      <4>4. h + 24 + b.size = b.at + b.size
        BY <4>1, <4>2
      <4> QED BY <2>1, <4>1, <4>2, <4>3, <4>4 DEF Room
    <3>2. ASSUME NEW b \in live, NEW c \in live, b # c
          PROVE  b.at + b.size <= c.at - HEADER \/ c.at + c.size <= b.at - HEADER
      <4>1. b.at # c.at
        BY <2>1, <3>2 DEF Owned
      <4> QED BY <2>1, <3>1, <4>1
    <3> QED BY <3>1, <3>2 DEF BlocksDisjoint
  <2>3. ListInOrder
    <3>1. Listed \subseteq Nat \ {0}
      BY <2>1 DEF TypeOK, Listed, Headers
    <3>2. ASSUME NEW S \in SUBSET Nat, NEW n, First(n, S)
          PROVE  n = IF S = {} THEN NULL ELSE Least(S)
      <4>1. CASE S = {}
        BY <3>2, <4>1 DEF First
      <4>2. CASE S # {}
        <5>1. n \in S /\ \A b \in S : n <= b
          BY <3>2, <4>2 DEF First
        <5>2. Least(S) \in S /\ \A b \in S : Least(S) <= b
          BY <5>1 DEF Least
        <5>3. PICK m : m = Least(S)
          OBVIOUS
        <5>4. n \in Nat /\ m \in Nat /\ n <= m /\ m <= n
          BY <5>1, <5>2, <5>3
        <5>5. n = m
          BY ONLY <5>4
        <5> QED BY <4>2, <5>3, <5>5
      <4> QED BY <4>1, <4>2
    <3>3. head = IF Listed = {} THEN NULL ELSE Least(Listed)
      BY <2>1, <3>1, <3>2 DEF Chain
    <3>4. tail = IF Listed = {} THEN NULL ELSE Greatest(Listed)
      <4>1. CASE Listed = {}
        BY <2>1, <4>1 DEF Chain
      <4>2. CASE Listed # {}
        <5>1. tail \in Listed /\ \A b \in Listed : b <= tail
          BY <2>1, <4>2 DEF Chain
        <5>2. Greatest(Listed) \in Listed /\ \A b \in Listed : b <= Greatest(Listed)
          BY <5>1 DEF Greatest
        <5>3. PICK m : m = Greatest(Listed)
          OBVIOUS
        <5>4. tail \in Nat /\ m \in Nat /\ tail <= m /\ m <= tail
          BY <3>1, <5>1, <5>2, <5>3
        <5>5. tail = m
          BY ONLY <5>4
        <5> QED BY <4>2, <5>3, <5>5
      <4> QED BY <4>1, <4>2
    <3>5. ASSUME NEW a \in Listed
          PROVE  \/ header[a].next = IF {b \in Listed : b > a} = {} THEN NULL
                                     ELSE Least({b \in Listed : b > a})
                 \/ a \in wiped /\ header[a].next \in {0, Junk}
      <4>1. PICK S : S = Above(a)
        OBVIOUS
      <4>2. S \in SUBSET Nat /\ S = {b \in Listed : b > a}
        BY <3>1, <4>1 DEF Above
      <4>3. First(header[a].next, S) \/ (a \in wiped /\ header[a].next \in {0, Junk})
        BY <2>1, <4>1 DEF Chain
      <4>4. PICK n : n = header[a].next
        OBVIOUS
      <4>5. n = (IF S = {} THEN NULL ELSE Least(S)) \/ (a \in wiped /\ n \in {0, Junk})
        BY <3>2, <4>2, <4>3, <4>4
      <4> QED BY <4>2, <4>4, <4>5
    <3> QED BY <3>3, <3>4, <3>5 DEF ListInOrder
  <2> QED BY <2>2, <2>3 DEF HeapSound
<1> QED BY <1>1, UserHeapInvariant, PTL

\* malloc asks for more memory only when no freed block that it can still find
\* is large enough.
THEOREM UserHeapGrowsOnlyWhenNeeded == Spec /\ []NoWrap => GrowsOnlyWhenNeeded
<1> DEFINE Needed == brk' # brk =>
                       \A a \in Listed :
                         (header[a].free = 1 /\ {b \in wiped : b <= a} \cap Listed = {})
                           => header[a].size < size
<1>1. UInv /\ [Next]_vars => [Needed]_vars
  <2> SUFFICES ASSUME UInv, [Next]_vars, brk' # brk, NEW a \in Listed, header[a].free = 1,
                      {b \in wiped : b <= a} \cap Listed = {}
               PROVE  header[a].size < size
    OBVIOUS
  <2>1. malloc_grows
    BY DEF Next, Steps, malloc, malloc_found, malloc_next, malloc_astray, malloc_fails,
           malloc_faults, free, Rest, vars
  <2>2. pc = "walk" /\ curr = NULL
    BY <2>1, GrowsRest
  <2>3. ~Fits(header[a])
    BY <2>2 DEF UInv, Walked, Reached
  <2>4. header[a].size \in Int /\ size \in Int
    <3>1. a \in Headers
      BY DEF Listed, Headers
    <3>2. header[a] \in Fields /\ size \in Nat
      BY <3>1 DEF UInv, TypeOK
    <3> QED BY <3>2 DEF Fields
  <2> QED BY <2>3, <2>4 DEF Fits
<1> QED BY <1>1, UserHeapInvariant, PTL DEF Spec, GrowsOnlyWhenNeeded

-----------------------------------------------------------------------------
(* When no break wraps.                                                    *)

\* All the calls together ask for less than the address space.
SmallRequests(most) ==
    /\ most \in Nat
    /\ \A n \in Sizes : n <= most
    /\ MaxCalls * (HEADER + most) < Word

\* The break, with the request under way, is paid for by the calls made.
Paid(most) ==
    /\ brk \in Nat /\ size \in Nat /\ calls \in 0 .. MaxCalls
    /\ pc = "walk" => brk + HEADER + size <= calls * (HEADER + most)
    /\ brk <= calls * (HEADER + most)

\* Requests that are small, taken together, satisfy the hypothesis NoWrap.
THEOREM UserHeapNoWrap ==
    ASSUME NEW most, SmallRequests(most)
    PROVE  Spec => []NoWrap
<1> DEFINE P == Paid(most)
<1>1. PICK K, C : K = HEADER + most /\ C = MaxCalls * (HEADER + most)
  OBVIOUS
<1>2. K \in Nat /\ MaxCalls \in Nat /\ Word \in Nat /\ C < Word /\ C = MaxCalls * K /\ HEADER = 24
  BY <1>1, HeapAssumption DEF HeapAssumption, SmallRequests, HEADER
<1>3. \A k \in 0 .. MaxCalls : k * K \in Nat /\ k * K <= C
  <2>1. \A k, m \in Nat : k <= m => k * K \in Nat /\ k * K <= m * K
    BY <1>2
  <2> QED BY <1>2, <2>1
<1>4. \A k \in 0 .. MaxCalls : (k + 1) * K = k * K + K
  BY <1>2
<1>5. P => NoWrap
  <2> SUFFICES ASSUME P, pc = "walk" PROVE brk + HEADER + size < Word
    BY DEF NoWrap
  <2>1. PICK k : k = calls
    OBVIOUS
  <2>2. k \in 0 .. MaxCalls /\ brk \in Nat /\ size \in Nat /\ brk + 24 + size <= k * K
    BY <1>1, <1>2, <2>1 DEF Paid
  <2>3. k * K \in Nat /\ k * K <= C /\ C \in Int
    BY <1>2, <1>3, <2>2
  <2> QED BY <1>2, <2>2, <2>3
<1>6. Init => P
  <2> SUFFICES ASSUME Init PROVE P
    OBVIOUS
  <2>1. brk = 0 /\ size = 0 /\ calls = 0 /\ pc = "idle"
    BY DEF Init
  <2>2. 0 * K = 0 /\ 0 \in 0 .. MaxCalls
    BY <1>2
  <2> QED BY <1>1, <2>1, <2>2 DEF Paid
<1>7. P /\ [Next]_vars => P'
  <2> SUFFICES ASSUME P, [Next]_vars PROVE P'
    OBVIOUS
  <2>1. /\ brk \in Nat /\ size \in Nat /\ calls \in 0 .. MaxCalls
        /\ pc = "walk" => brk + 24 + size <= calls * K
        /\ brk <= calls * K
    BY <1>1, <1>2 DEF Paid
  <2>2. CASE malloc
    <3>1. PICK n \in Sizes : size' = n
      BY <2>2 DEF malloc
    <3>2. n \in Nat /\ n <= most /\ most \in Nat
      BY <3>1, HeapAssumption DEF HeapAssumption, SmallRequests
    <3>3. brk' = brk /\ calls' = calls + 1 /\ calls < MaxCalls
      BY <2>2 DEF malloc
    <3>4. PICK k : k = calls
      OBVIOUS
    <3>5. k \in 0 .. MaxCalls /\ k + 1 \in 0 .. MaxCalls /\ calls' = k + 1
      BY <1>2, <2>1, <3>3, <3>4
    <3>6. (k + 1) * K = k * K + K /\ k * K \in Nat
      BY <1>3, <1>4, <3>5
    <3>7. K = 24 + most
      BY <1>1, <1>2
    <3>8. brk + 24 + n <= (k + 1) * K /\ brk <= (k + 1) * K
      BY <2>1, <3>2, <3>4, <3>6, <3>7
    <3> QED BY <1>1, <1>2, <2>1, <3>1, <3>2, <3>3, <3>5, <3>8 DEF Paid
  <2>3. CASE malloc_grows
    <3>1. pc = "walk" /\ pc' = "idle" /\ size' = 0 /\ calls' = calls
      BY <2>3 DEF malloc_grows, Growing
    <3>2. PICK n : n = brk + 24 + size
      OBVIOUS
    <3>3. n \in Nat /\ n < Word
      BY <1>2, <1>5, <2>1, <3>1, <3>2 DEF NoWrap
    <3>4. n % Word = n
      BY <1>2, <3>3
    <3>5. brk' = n \/ brk' = brk
      BY <1>2, <2>3, <3>2, <3>4 DEF malloc_grows, NewBrk
    <3> QED BY <1>1, <1>2, <2>1, <3>1, <3>2, <3>3, <3>5 DEF Paid
  <2>4. CASE malloc_found \/ malloc_fails
    <3>1. pc' = "idle" /\ size' = 0 /\ calls' = calls /\ brk' = brk
      BY <2>4 DEF malloc_found, malloc_fails
    <3> QED BY <1>1, <2>1, <3>1 DEF Paid
  <2>5. CASE malloc_next \/ malloc_astray \/ malloc_faults \/ free \/ Rest \/ UNCHANGED vars
    <3>1. UNCHANGED <<pc, size, calls, brk>>
      BY <2>5 DEF malloc_next, malloc_astray, malloc_faults, free, Rest, vars
    <3> QED BY <1>1, <1>2, <2>1, <3>1 DEF Paid
  <2> QED BY <2>2, <2>3, <2>4, <2>5 DEF Next, Steps
<1> HIDE DEF P
<1> QED BY <1>5, <1>6, <1>7, PTL DEF Spec

\* For small requests nothing is left to assume: no byte of the heap of malloc
\* has two owners, and the heap grows only when nothing in reach fits.
THEOREM UserHeapSmallRequests ==
    ASSUME NEW most, SmallRequests(most)
    PROVE  Spec => []HeapSound /\ GrowsOnlyWhenNeeded
<1>1. Spec => []NoWrap
  BY UserHeapNoWrap
<1> QED BY <1>1, UserHeapSound, UserHeapGrowsOnlyWhenNeeded, PTL
=============================================================================
