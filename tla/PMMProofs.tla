----------------------------- MODULE PMMProofs -----------------------------
(***************************************************************************)
(* Proofs about PMM for every set of well-formed memory maps: any number   *)
(* of entries, any amount of memory, a bitmap of any number of pages.      *)
(***************************************************************************)
EXTENDS PMM, WellFoundedInduction, FiniteSetTheorems, TLAPS

-----------------------------------------------------------------------------
(* Induction: the least counterexample.                                    *)

\* A non-empty set of naturals has a least element.
LEMMA LeastNatural ==
    ASSUME NEW S, S \subseteq Nat, S # {}
    PROVE  \E x \in S : \A y \in S : x <= y
<1> DEFINE Below == {p \in Nat \X Nat : p[1] < p[2]}
<1>1. IsWellFoundedOn(Below, Nat)
  BY NatLessThanWellFounded DEF OpToRel
<1>2. PICK x \in S : \A y \in S : ~(<<y, x>> \in Below)
  <2> HIDE DEF Below
  <2> QED BY <1>1, WFMin
<1>3. \A y \in S : ~(y < x)
  BY <1>2
<1> QED BY <1>3

\* Finitely many naturals have a greatest one.
LEMMA GreatestOfFirst ==
    ASSUME NEW len \in Nat \ {0}, NEW f, \A i \in 1 .. len : f[i] \in Nat
    PROVE  \E k \in 1 .. len : \A i \in 1 .. len : f[i] <= f[k]
<1> DEFINE Good(l) == \E k \in 1 .. l : \A i \in 1 .. l : f[i] <= f[k]
           Bad == {l \in 1 .. len : ~Good(l)}
<1>1. SUFFICES ASSUME Bad # {} PROVE FALSE
  <2>1. len \in 1 .. len
    OBVIOUS
  <2> QED BY <2>1
<1>2. PICK l \in Bad : \A j \in Bad : l <= j
  <2>1. Bad \subseteq Nat
    OBVIOUS
  <2> HIDE DEF Bad
  <2> QED BY <1>1, <2>1, LeastNatural
<1>3. l \in 1 .. len /\ ~Good(l)
  OBVIOUS
<1>4. CASE l = 1
  <2>1. Good(1)
    <3>1. \A i \in 1 .. 1 : f[i] <= f[1]
      OBVIOUS
    <3> QED BY <3>1
  <2> QED BY <1>3, <1>4, <2>1
<1>5. CASE l > 1
  <2>1. l - 1 \in 1 .. len /\ l - 1 \notin Bad
    <3>1. l - 1 \in 1 .. len /\ ~(l <= l - 1)
      BY <1>3, <1>5
    <3> HIDE DEF Bad
    <3> QED BY <1>2, <3>1
  <2>2. PICK k \in 1 .. l - 1 : \A i \in 1 .. l - 1 : f[i] <= f[k]
    <3>1. Good(l - 1)
      BY <2>1
    <3> QED BY <3>1
  <2>3. CASE f[l] <= f[k]
    <3>1. k \in 1 .. l /\ \A i \in 1 .. l : f[i] <= f[k]
      BY <1>3, <1>5, <2>2, <2>3
    <3> QED BY <1>3, <3>1
  <2>4. CASE f[k] < f[l]
    <3>1. l \in 1 .. l /\ \A i \in 1 .. l : f[i] <= f[l]
      BY <1>3, <1>5, <2>2, <2>4
    <3> QED BY <1>3, <3>1
  <2>5. f[k] \in Nat /\ f[l] \in Nat
    BY <1>3, <1>5
  <2> QED BY <2>3, <2>4, <2>5
<1> QED BY <1>3, <1>4, <1>5

-----------------------------------------------------------------------------
(* Lemmas about the operators.                                             *)

\* Lowest really is the least element of a non-empty set of frames.
LEMMA LowestProperties ==
    ASSUME NEW S, S \subseteq Nat, S # {}
    PROVE  /\ Lowest(S) \in S
           /\ \A j \in S : Lowest(S) <= j
BY LeastNatural DEF Lowest

\* An entry of a well-formed map has a base, a length and an end.
LEMMA EntryType ==
    ASSUME NEW m, WellFormedMap(m), NEW i \in DOMAIN m
    PROVE  /\ DOMAIN m = 1 .. Len(m) /\ Len(m) \in Nat \ {0}
           /\ m[i].base \in Nat /\ m[i].length \in Nat /\ m[i].usable \in BOOLEAN
           /\ End(m[i]) \in Nat
<1>1. m[i] \in Entry /\ DOMAIN m = 1 .. Len(m) /\ Len(m) \in Nat \ {0}
  BY DEF WellFormedMap
<1>2. m[i].base \in Nat /\ m[i].length \in Nat /\ m[i].usable \in BOOLEAN
  BY <1>1 DEF Entry
<1> QED BY <1>1, <1>2 DEF End

\* The highest address of a map is an address.
LEMMA HighestPaType ==
    ASSUME NEW m, WellFormedMap(m)
    PROVE  /\ HighestPa(m) \in Nat
           /\ \A i \in DOMAIN m : End(m[i]) <= HighestPa(m)
<1> DEFINE ends == [i \in DOMAIN m |-> End(m[i])]
<1>1. DOMAIN m = 1 .. Len(m) /\ Len(m) \in Nat \ {0}
  BY DEF WellFormedMap
<1>2. \A i \in 1 .. Len(m) : ends[i] \in Nat
  BY <1>1, EntryType
<1>3. PICK k \in DOMAIN m : \A i \in DOMAIN m : ends[i] <= ends[k]
  <2> HIDE DEF ends
  <2> QED BY <1>1, <1>2, GreatestOfFirst
<1>4. End(m[k]) \in {End(m[i]) : i \in DOMAIN m}
      /\ \A i \in DOMAIN m : End(m[i]) <= End(m[k])
  BY <1>3
<1>5. HighestPa(m) \in {End(m[i]) : i \in DOMAIN m}
      /\ \A i \in DOMAIN m : End(m[i]) <= HighestPa(m)
  BY <1>4 DEF HighestPa
<1> QED BY <1>5, EntryType

\* The size of the bitmap in pages is a number.
LEMMA BitmapPagesType ==
    ASSUME NEW n \in Nat
    PROVE  BitmapPages(n) \in Nat
BY DEF BitmapPages, BitmapSize, AlignUp, PAGE_SIZE

\* Marking a run of frames free changes the number of clear bits by the
\* number of bits it clears.
LEMMA SetFreeCount ==
    ASSUME NEW P, IsFiniteSet(P), NEW B \in SUBSET P, NEW R \in SUBSET P
    PROVE  Cardinality(P \ (B \ R)) = Cardinality(P \ B) + Cardinality(R \cap B)
<1>1. P \ (B \ R) = (P \ B) \cup (R \cap B)
  OBVIOUS
<1>2. (P \ B) \cap (R \cap B) = {}
  OBVIOUS
<1>3. IsFiniteSet(P \ B) /\ IsFiniteSet(R \cap B)
  BY FS_Subset
<1>4. Cardinality(P \ B) \in Nat /\ Cardinality(R \cap B) \in Nat
  BY <1>3, FS_CardinalityType
<1>5. Cardinality((P \ B) \cup (R \cap B)) = Cardinality(P \ B)
        + Cardinality(R \cap B) - Cardinality((P \ B) \cap (R \cap B))
  BY <1>3, FS_Union
<1>6. Cardinality((P \ B) \cap (R \cap B)) = 0
  BY <1>2, FS_EmptySet
<1>7. Cardinality(P \ (B \ R)) = Cardinality((P \ B) \cup (R \cap B))
  BY <1>1
<1> QED BY <1>4, <1>5, <1>6, <1>7

\* Marking frames busy changes the number of clear bits by the number of bits
\* it sets.
LEMMA SetBusyCount ==
    ASSUME NEW P, IsFiniteSet(P), NEW B \in SUBSET P, NEW R \in SUBSET P
    PROVE  Cardinality(P \ (B \cup R)) = Cardinality(P \ B) - Cardinality(R \ B)
<1>1. P \ (B \cup R) = (P \ B) \ (R \ B) /\ (P \ B) \cap (R \ B) = R \ B
  OBVIOUS
<1>2. IsFiniteSet(P \ B)
  BY FS_Subset
<1>3. Cardinality((P \ B) \ (R \ B)) =
        Cardinality(P \ B) - Cardinality((P \ B) \cap (R \ B))
  BY <1>2, FS_Difference
<1>4. Cardinality(P \ (B \cup R)) = Cardinality((P \ B) \ (R \ B))
  BY <1>1
<1>5. Cardinality((P \ B) \cap (R \ B)) = Cardinality(R \ B)
  BY <1>1
<1> QED BY <1>3, <1>4, <1>5

-----------------------------------------------------------------------------
(* The inductive invariant.                                                *)

\* Where boot stands: nothing is handed out before it ends, the cursor is at
\* the start, and before the bitmap is placed there are no frames at all.
BootState ==
    /\ phase # "ready" => /\ last_free_index = 0
                          /\ ret = 0
                          /\ held = {}
                          /\ managed = {}
    /\ phase = "boot" => /\ total_pages = 0
                         /\ bitmap = {}
                         /\ free_pages = 0
                         /\ entry = 1

\* The bitmap lies at the start of a usable entry large enough for it.
BitmapPlaced ==
    phase \in {"freeing", "ready"} =>
        \E h \in DOMAIN mmap :
            /\ HoldsBitmap(mmap[h], total_pages)
            /\ bitmap_pa = mmap[h].base
            /\ bitmap_pages = BitmapPages(total_pages)

EntryFrames(e) == Run(pa2pgidx(e.base), e.length \div PAGE_SIZE)

\* A frame that is clear, or was, is in a usable entry pmm_set_free accepted.
ClearAccepted ==
    phase \in {"freeing", "ready"} =>
        \A p \in Clear \cup held : \E i \in DOMAIN mmap :
            /\ mmap[i].usable
            /\ p \in EntryFrames(mmap[i])
            /\ InRange(pa2pgidx(mmap[i].base), mmap[i].length \div PAGE_SIZE)

IInv ==
    /\ TypeOK
    /\ CountExact
    /\ BootState
    /\ BitmapPlaced
    /\ ClearAccepted
    /\ Conservation
    /\ ReservedStaysBusy
    /\ NoClearBelowCursor

-----------------------------------------------------------------------------
(* What the proofs of the steps share.                                     *)

\* Sets of frames are finite, so their cardinalities are numbers.
LEMMA PagesFinite ==
    ASSUME TypeOK
    PROVE  /\ IsFiniteSet(Pages) /\ Pages \subseteq Nat
           /\ IsFiniteSet(Clear) /\ Cardinality(Clear) \in Nat
<1>1. IsFiniteSet(Pages) /\ Pages \subseteq Nat
  BY FS_Interval DEF TypeOK, Pages
<1>2. IsFiniteSet(Clear)
  BY <1>1, FS_Subset DEF Clear
<1> QED BY <1>1, <1>2, FS_CardinalityType

\* The map is well formed.
LEMMA MapFacts ==
    ASSUME TypeOK
    PROVE  /\ WellFormedMap(mmap)
           /\ DOMAIN mmap = 1 .. Len(mmap) /\ Len(mmap) \in Nat \ {0}
BY MemMapsAssumption DEF TypeOK, WellFormedMap

\* Initially there is nothing to go wrong.
LEMMA InitIInv == Init => IInv
<1> SUFFICES ASSUME Init PROVE IInv
  OBVIOUS
<1>1. TypeOK
  <2>1. WellFormedMap(mmap)
    BY MemMapsAssumption DEF Init
  <2>2. Len(mmap) \in Nat
    BY <2>1 DEF WellFormedMap
  <2> QED BY <2>2 DEF Init, TypeOK, Pages
<1>2. Clear = {}
  BY DEF Init, Clear, Pages
<1>3. CountExact
  BY <1>2, FS_EmptySet DEF Init, CountExact
<1> QED
  BY <1>1, <1>2, <1>3 DEF IInv, Init, BootState, BitmapPlaced, ClearAccepted,
     Conservation, ReservedStaysBusy, NoClearBelowCursor

\* Placing the bitmap: every bit is set, so the counter's 0 is exact.
LEMMA InitBitmapStep ==
    ASSUME IInv, pmm_init_bitmap
    PROVE  IInv'
<1> DEFINE pages == HighestPa(mmap) \div PAGE_SIZE
           hosts == {i \in DOMAIN mmap : HoldsBitmap(mmap[i], pages)}
           pa    == IF hosts = {} THEN 0 ELSE mmap[Lowest(hosts)].base
<1>0. TypeOK /\ BootState /\ phase = "boot"
  BY DEF IInv, pmm_init_bitmap
<1>1. pages \in Nat /\ BitmapPages(pages) \in Nat
  <2>1. HighestPa(mmap) \in Nat
    BY <1>0, MapFacts, HighestPaType
  <2>2. pages \in Nat
    BY <2>1 DEF PAGE_SIZE
  <2> HIDE DEF pages
  <2> QED BY <2>2, BitmapPagesType
<1>2. hosts # {} => Lowest(hosts) \in hosts
  <2>1. hosts \subseteq Nat
    BY <1>0, MapFacts
  <2> HIDE DEF hosts
  <2> QED BY <2>1, LowestProperties
<1>3. pa \in Nat
  BY <1>0, <1>2, MapFacts, EntryType
<1>4. /\ total_pages' = pages /\ bitmap_pages' = BitmapPages(pages)
      /\ bitmap_pa' = pa
      /\ pa = 0 => phase' = "hung" /\ bitmap' = bitmap
      /\ pa # 0 => phase' = "freeing" /\ bitmap' = 0 .. pages - 1
      /\ UNCHANGED <<mmap, entry, free_pages, last_free_index, ret, held, managed>>
  BY DEF pmm_init_bitmap
<1> HIDE DEF pages, pa
<1>5. TypeOK'
  <2>1. /\ bitmap' \subseteq Pages'
        /\ last_free_index' \in 0 .. total_pages'
        /\ held' \subseteq Pages' /\ managed' \subseteq Pages'
    BY <1>0, <1>1, <1>4 DEF BootState, Pages
  <2>2. /\ phase' \in {"boot", "freeing", "ready", "hung"}
        /\ mmap' \in MemMaps
        /\ entry' \in 1 .. Len(mmap') + 1
        /\ free_pages' \in Nat /\ ret' \in Nat
    BY <1>0, <1>4 DEF TypeOK
  <2> QED BY <1>1, <1>3, <1>4, <2>1, <2>2 DEF TypeOK
<1>6. phase' # "hung" => Clear' = {}
  BY <1>4 DEF Clear, Pages
<1>7. CountExact'
  BY <1>0, <1>4, <1>6, FS_EmptySet DEF CountExact, BootState
<1>8. BootState'
  BY <1>0, <1>4 DEF BootState
<1>9. BitmapPlaced'
  <2>1. CASE pa = 0
    BY <2>1, <1>4 DEF BitmapPlaced
  <2>2. CASE pa # 0
    <3>1. /\ Lowest(hosts) \in DOMAIN mmap
          /\ HoldsBitmap(mmap[Lowest(hosts)], pages)
          /\ pa = mmap[Lowest(hosts)].base
      BY <2>2, <1>2 DEF pa
    <3> QED BY <3>1, <1>4 DEF BitmapPlaced
  <2> QED BY <2>1, <2>2
<1>10. ClearAccepted' /\ Conservation' /\ ReservedStaysBusy'
  BY <1>0, <1>4, <1>6 DEF ClearAccepted, Conservation, ReservedStaysBusy, BootState
<1>11. NoClearBelowCursor'
  BY <1>0, <1>4, <1>5 DEF NoClearBelowCursor, BootState, Clear, TypeOK, Pages
<1> QED BY <1>5, <1>7, <1>8, <1>9, <1>10, <1>11 DEF IInv

\* A usable entry is a whole run of frames, so aligning it changes nothing.
LEMMA UsableEntryFrames ==
    ASSUME NEW m, WellFormedMap(m), NEW i \in DOMAIN m, m[i].usable
    PROVE  LET start == AlignUp(m[i].base)
               end   == AlignDown(End(m[i]))
           IN  /\ start < end
               /\ pa2pgidx(start) = pa2pgidx(m[i].base)
               /\ (end - start) \div PAGE_SIZE = m[i].length \div PAGE_SIZE
               /\ pa2pgidx(m[i].base) \in Nat
               /\ m[i].length \div PAGE_SIZE \in Nat
<1> DEFINE b == m[i].base
           l == m[i].length
<1>1. b \in Nat /\ l \in Nat
  BY EntryType
<1>2. b % PAGE_SIZE = 0 /\ l % PAGE_SIZE = 0 /\ l > 0
  BY DEF WellFormedMap
<1>3. End(m[i]) = b + l
  BY DEF End
<1> HIDE DEF b, l
<1>4. /\ AlignUp(b) < AlignDown(b + l)
      /\ pa2pgidx(AlignUp(b)) = pa2pgidx(b)
      /\ (AlignDown(b + l) - AlignUp(b)) \div PAGE_SIZE = l \div PAGE_SIZE
      /\ pa2pgidx(b) \in Nat
      /\ l \div PAGE_SIZE \in Nat
  BY <1>1, <1>2 DEF AlignUp, AlignDown, pa2pgidx, PAGE_SIZE
<1> QED BY <1>3, <1>4 DEF b, l

\* One entry of the map: either nothing changes, or the entry's frames are
\* all inside memory and become clear.
LEMMA InitFreeStep ==
    ASSUME IInv, pmm_init_free
    PROVE  IInv'
<1> DEFINE e == mmap[entry]
           F == EntryFrames(e)
           first == pa2pgidx(e.base)
           n == e.length \div PAGE_SIZE
<1>0. /\ TypeOK /\ BootState /\ CountExact /\ ClearAccepted /\ BitmapPlaced
      /\ phase = "freeing"
  BY DEF IInv, pmm_init_free
<1>1. entry \in DOMAIN mmap /\ WellFormedMap(mmap)
  BY <1>0, MapFacts DEF pmm_init_free, TypeOK
<1>2. /\ entry' = entry + 1
      /\ UNCHANGED <<phase, mmap, bitmap_pa, bitmap_pages, total_pages,
                     last_free_index, ret, held, managed>>
  BY DEF pmm_init_free
<1>3. entry' \in 1 .. Len(mmap) + 1
  BY <1>0, <1>1, <1>2, MapFacts
<1>4. BootState' /\ BitmapPlaced' /\ Conservation' /\ ReservedStaysBusy'
  BY <1>0, <1>2 DEF BootState, BitmapPlaced, Conservation, ReservedStaysBusy
<1>5. Pages' = Pages
  BY <1>2 DEF Pages
<1>6. CASE UNCHANGED <<bitmap, free_pages>>
  <2>1. Clear' = Clear
    BY <1>5, <1>6 DEF Clear
  <2>2. TypeOK'
    BY <1>0, <1>2, <1>3, <1>5, <1>6 DEF TypeOK
  <2>3. CountExact'
    BY <1>0, <1>2, <1>6, <2>1 DEF CountExact
  <2>4. ClearAccepted'
    BY <1>0, <1>2, <2>1 DEF ClearAccepted, InRange
  <2>5. NoClearBelowCursor'
    BY <1>2, <2>1 DEF IInv, NoClearBelowCursor
  <2> QED BY <1>4, <2>2, <2>3, <2>4, <2>5 DEF IInv
<1>7. CASE /\ e.usable /\ InRange(first, n)
           /\ bitmap' = bitmap \ F
           /\ free_pages' = free_pages + Cardinality(F \cap bitmap)
  <2>1. F \subseteq Pages
    <3>1. first \in Nat /\ n \in Nat
      BY <1>1, <1>7, UsableEntryFrames
    <3>2. F = first .. first + n - 1
      BY DEF EntryFrames, Run
    <3> HIDE DEF first, n, F
    <3> QED BY <1>0, <1>7, <3>1, <3>2 DEF InRange, Pages, TypeOK
  <2> HIDE DEF F
  <2>2. Cardinality(F \cap bitmap) \in Nat
    <3>1. IsFiniteSet(F \cap bitmap)
      BY <1>0, <2>1, PagesFinite, FS_Subset
    <3> QED BY <3>1, FS_CardinalityType
  <2>3. TypeOK'
    <3>1. free_pages' \in Nat /\ bitmap' \subseteq Pages
      BY <1>0, <1>7, <2>2 DEF TypeOK
    <3> QED BY <1>0, <1>2, <1>3, <1>5, <3>1 DEF TypeOK
  <2>4. CountExact'
    <3>1. Cardinality(Pages \ (bitmap \ F)) =
            Cardinality(Pages \ bitmap) + Cardinality(F \cap bitmap)
      BY <1>0, <2>1, PagesFinite, SetFreeCount DEF TypeOK
    <3>2. free_pages = Cardinality(Pages \ bitmap)
      BY <1>0 DEF CountExact, Clear
    <3>3. Clear' = Pages \ (bitmap \ F)
      BY <1>5, <1>7 DEF Clear
    <3> QED BY <1>7, <3>1, <3>2, <3>3 DEF CountExact
  <2>5. Clear' \subseteq Clear \cup F
    BY <1>5, <1>7 DEF Clear
  <2>6. ClearAccepted'
    <3> SUFFICES ASSUME NEW p \in Clear' \cup held
                 PROVE  \E i \in DOMAIN mmap :
                            /\ mmap[i].usable
                            /\ p \in EntryFrames(mmap[i])
                            /\ InRange(pa2pgidx(mmap[i].base),
                                       mmap[i].length \div PAGE_SIZE)
      BY <1>2 DEF ClearAccepted, InRange
    <3>1. CASE p \in Clear \cup held
      BY <1>0, <3>1 DEF ClearAccepted
    <3>2. CASE p \in F
      BY <1>1, <1>7, <3>2 DEF F
    <3> QED BY <2>5, <3>1, <3>2
  <2>7. NoClearBelowCursor'
    <3>1. last_free_index' = 0 /\ Clear' \subseteq Nat
      BY <1>0, <1>2, <1>5, PagesFinite DEF BootState, Clear
    <3> QED BY <3>1 DEF NoClearBelowCursor
  <2> QED BY <1>4, <2>3, <2>4, <2>6, <2>7 DEF IInv
<1>8. UNCHANGED <<bitmap, free_pages>> \/
      /\ e.usable /\ InRange(first, n)
      /\ bitmap' = bitmap \ F
      /\ free_pages' = free_pages + Cardinality(F \cap bitmap)
  <2>1. CASE e.usable
    BY <1>1, <2>1, UsableEntryFrames DEF pmm_init_free, pmm_set_free, EntryFrames
  <2>2. CASE ~e.usable
    BY <2>2 DEF pmm_init_free
  <2> QED BY <2>1, <2>2
<1> QED BY <1>6, <1>7, <1>8

\* The frames of the bitmap are frames of the entry that holds it, and only of
\* that usable entry.
LEMMA BitmapInEntry ==
    ASSUME TypeOK, BitmapPlaced, ClearAccepted, phase = "freeing"
    PROVE  Clear \cap BitmapFrames \subseteq pmm_set_busy(pa2pgidx(bitmap_pa), bitmap_pages)
<1> SUFFICES ASSUME NEW p \in Clear, p \in BitmapFrames,
                    ~InRange(pa2pgidx(bitmap_pa), bitmap_pages)
             PROVE  FALSE
  BY DEF pmm_set_busy, BitmapFrames
<1>1. PICK h \in DOMAIN mmap : /\ HoldsBitmap(mmap[h], total_pages)
                               /\ bitmap_pa = mmap[h].base
                               /\ bitmap_pages = BitmapPages(total_pages)
  BY DEF BitmapPlaced
<1>2. PICK i \in DOMAIN mmap :
         /\ mmap[i].usable
         /\ p \in EntryFrames(mmap[i])
         /\ InRange(pa2pgidx(mmap[i].base), mmap[i].length \div PAGE_SIZE)
  BY DEF ClearAccepted
<1>3. WellFormedMap(mmap)
  BY MapFacts
<1> DEFINE b == mmap[h].base
           l == mmap[h].length
           c == mmap[i].base
           k == mmap[i].length
<1>4. /\ b \in Nat /\ l \in Nat /\ c \in Nat /\ k \in Nat
      /\ p \in Nat /\ bitmap_pages \in Nat /\ total_pages \in Nat
  BY <1>3, EntryType, PagesFinite DEF TypeOK, Clear
<1>5. b % PAGE_SIZE = 0 /\ l % PAGE_SIZE = 0 /\ c % PAGE_SIZE = 0 /\ k % PAGE_SIZE = 0
  BY <1>1, <1>2, <1>3 DEF WellFormedMap, HoldsBitmap
<1>6. l >= bitmap_pages * PAGE_SIZE
  BY <1>1 DEF HoldsBitmap
<1>7. /\ b \div PAGE_SIZE <= p /\ p < b \div PAGE_SIZE + bitmap_pages
      /\ c \div PAGE_SIZE <= p /\ p < c \div PAGE_SIZE + k \div PAGE_SIZE
      /\ c \div PAGE_SIZE + k \div PAGE_SIZE < total_pages
      /\ ~(b \div PAGE_SIZE + bitmap_pages < total_pages)
  BY <1>1, <1>2, <1>4 DEF BitmapFrames, EntryFrames, Run, pa2pgidx, InRange, PAGE_SIZE
<1>8. h # i => (b + l <= c \/ c + k <= b)
  BY <1>1, <1>2, <1>3 DEF WellFormedMap, HoldsBitmap, End
<1>9. h = i => b = c /\ l = k
  OBVIOUS
<1> HIDE DEF b, l, c, k
<1>10. CASE h = i
  BY <1>4, <1>5, <1>6, <1>7, <1>9, <1>10 DEF PAGE_SIZE
<1>11. CASE h # i
  BY <1>4, <1>5, <1>6, <1>7, <1>8, <1>11 DEF PAGE_SIZE
<1> QED BY <1>10, <1>11

\* The end of pmm_init: a reservation that pmm_set_busy refuses is one that
\* pmm_set_free refused before.
LEMMA InitReserveStep ==
    ASSUME IInv, pmm_init_reserve
    PROVE  IInv'
<1>0. /\ TypeOK /\ BootState /\ CountExact /\ ClearAccepted /\ BitmapPlaced
      /\ phase = "freeing"
  BY DEF IInv, pmm_init_reserve
<1>1. /\ bitmap' = bitmap \cup Reserved
      /\ free_pages' = free_pages - Cardinality(Reserved \ bitmap)
      /\ managed' = Clear \ Reserved
      /\ phase' = "ready"
      /\ UNCHANGED <<mmap, entry, bitmap_pa, bitmap_pages, total_pages,
                     last_free_index, ret, held>>
  BY DEF pmm_init_reserve
<1>2. Pages' = Pages /\ UsableFrames' = UsableFrames /\ BitmapFrames' = BitmapFrames
  BY <1>1 DEF Pages, UsableFrames, BitmapFrames
<1>3. Reserved \subseteq Pages
  <2>1. pa2pgidx(bitmap_pa) \in Nat
    BY <1>0 DEF TypeOK, pa2pgidx, PAGE_SIZE
  <2> QED BY <1>0, <2>1 DEF Reserved, pmm_set_busy, InRange, Run, Pages, TypeOK
<1>4. Clear' = Clear \ Reserved
  BY <1>1, <1>2 DEF Clear
<1>5. CountExact' /\ free_pages' \in Nat
  <2>1. Cardinality(Pages \ (bitmap \cup Reserved)) =
          Cardinality(Pages \ bitmap) - Cardinality(Reserved \ bitmap)
    BY <1>0, <1>3, PagesFinite, SetBusyCount DEF TypeOK
  <2>2. free_pages = Cardinality(Pages \ bitmap)
    BY <1>0 DEF CountExact, Clear
  <2>3. Clear' = Pages \ (bitmap \cup Reserved)
    BY <1>1, <1>2 DEF Clear
  <2>4. Cardinality(Clear') \in Nat
    <3>1. IsFiniteSet(Clear')
      BY <1>0, <1>4, PagesFinite, FS_Subset
    <3> QED BY <3>1, FS_CardinalityType
  <2> QED BY <1>1, <2>1, <2>2, <2>3, <2>4 DEF CountExact
<1>6. TypeOK'
  <2>1. bitmap' \subseteq Pages' /\ managed' \subseteq Pages'
    BY <1>0, <1>1, <1>2, <1>3 DEF TypeOK, Clear
  <2> QED BY <1>0, <1>1, <1>2, <1>5, <2>1 DEF TypeOK
<1>7. BootState' /\ BitmapPlaced' /\ Conservation'
  BY <1>0, <1>1, <1>4 DEF BootState, BitmapPlaced, Conservation
<1>8. ClearAccepted'
  BY <1>0, <1>1, <1>4 DEF ClearAccepted, InRange
<1>9. ReservedStaysBusy'
  <2>1. SUFFICES ASSUME NEW p \in Clear, p \notin Reserved
                 PROVE  p \in UsableFrames /\ p \notin BitmapFrames /\ p # 0
    BY <1>0, <1>1, <1>2, <1>4 DEF ReservedStaysBusy, BootState
  <2>2. PICK i \in DOMAIN mmap :
           /\ mmap[i].usable
           /\ p \in EntryFrames(mmap[i])
           /\ InRange(pa2pgidx(mmap[i].base), mmap[i].length \div PAGE_SIZE)
    BY <1>0 DEF ClearAccepted
  <2>3. p \in UsableFrames
    BY <2>2 DEF UsableFrames, EntryFrames
  <2>4. p \notin BitmapFrames
    BY <1>0, <2>1, BitmapInEntry DEF Reserved
  <2>5. p # 0
    <3>1. /\ pa2pgidx(mmap[i].base) \in Nat
          /\ mmap[i].length \div PAGE_SIZE \in Nat
      BY <1>0, <2>2, MapFacts, UsableEntryFrames
    <3>2. p = 0 => 1 < total_pages
      BY <1>0, <2>2, <3>1 DEF EntryFrames, Run, InRange, TypeOK
    <3>3. 1 < total_pages => 0 \in Reserved
      BY DEF Reserved, pmm_set_busy, InRange, Run
    <3> QED BY <2>1, <3>2, <3>3
  <2> QED BY <2>3, <2>4, <2>5
<1>10. NoClearBelowCursor'
  <2>1. last_free_index' = 0 /\ Clear' \subseteq Nat
    BY <1>0, <1>1, <1>4, PagesFinite DEF BootState, Clear
  <2> QED BY <2>1 DEF NoClearBelowCursor
<1> QED BY <1>5, <1>6, <1>7, <1>8, <1>9, <1>10 DEF IInv

\* In a ready manager the scan finds the lowest clear frame if there is one.
LEMMA ScanFacts ==
    ASSUME IInv, phase = "ready"
    PROVE  /\ Scan = Clear
           /\ OutOfFrames <=> Clear = {}
           /\ Clear # {} => /\ Lowest(Clear) \in Clear
                            /\ Lowest(Clear) \in Nat \ {0}
                            /\ pa2pgidx(pgidx2pa(Lowest(Clear))) = Lowest(Clear)
                            /\ pgidx2pa(Lowest(Clear)) \in Nat \ {0}
<1>1. FirstRound = Clear
  BY DEF FirstRound, IInv, NoClearBelowCursor
<1>2. SecondRound \subseteq Clear
  BY DEF SecondRound
<1>3. Scan = Clear
  BY <1>1, <1>2 DEF Scan
<1>4. free_pages = 0 <=> Clear = {}
  BY PagesFinite, FS_EmptySet DEF IInv, CountExact
<1>5. ASSUME Clear # {}
      PROVE  Lowest(Clear) \in Clear /\ Lowest(Clear) \in Nat \ {0}
  <2>1. Lowest(Clear) \in Clear /\ Clear \subseteq Nat
    BY <1>5, PagesFinite, LowestProperties DEF IInv, Clear
  <2> QED BY <2>1 DEF IInv, ReservedStaysBusy
<1>6. \A i \in Nat \ {0} : pa2pgidx(pgidx2pa(i)) = i /\ pgidx2pa(i) \in Nat \ {0}
  BY DEF pa2pgidx, pgidx2pa, PAGE_SIZE
<1> QED BY <1>3, <1>4, <1>5, <1>6 DEF OutOfFrames

\* What an allocation does, in terms of the set of clear frames.
LEMMA AllocEffect ==
    ASSUME IInv, pmm_alloc_page
    PROVE  /\ phase = "ready" /\ UNCHANGED bootvars
           /\ Clear = {} => /\ ret' = 0
                            /\ UNCHANGED <<bitmap, free_pages, last_free_index, held>>
           /\ Clear # {} => /\ bitmap' = bitmap \cup {Lowest(Clear)}
                            /\ free_pages' = free_pages - 1
                            /\ last_free_index' = Lowest(Clear) + 1
                            /\ ret' = pgidx2pa(Lowest(Clear))
                            /\ held' = held \cup {Lowest(Clear)}
<1>1. phase = "ready" /\ UNCHANGED bootvars
  BY DEF pmm_alloc_page
<1>2. CASE Clear = {}
  <2>1. OutOfFrames
    BY <1>1, <1>2, ScanFacts
  <2> QED BY <1>1, <1>2, <2>1 DEF pmm_alloc_page
<1>3. CASE Clear # {}
  <2>1. ~OutOfFrames /\ Scan = Clear
    BY <1>1, <1>3, ScanFacts
  <2>2. Take(Lowest(Clear)) /\ held' = IF ret' = 0 THEN held
                                       ELSE held \cup {pa2pgidx(ret')}
    BY <2>1 DEF pmm_alloc_page
  <2>3. ret' = pgidx2pa(Lowest(Clear))
    BY <2>2 DEF Take
  <2>4. held' = held \cup {Lowest(Clear)}
    BY <1>1, <1>3, <2>2, <2>3, ScanFacts
  <2> QED BY <1>1, <1>3, <2>2, <2>3, <2>4 DEF Take
<1> QED BY <1>1, <1>2, <1>3

\* pmm_alloc_page keeps the invariant, when it succeeds and when it fails.
LEMMA AllocStep ==
    ASSUME IInv, pmm_alloc_page
    PROVE  IInv'
<1> DEFINE i == Lowest(Clear)
<1>0. TypeOK /\ phase = "ready" /\ UNCHANGED bootvars
  BY AllocEffect DEF IInv
<1>1. Pages' = Pages /\ UsableFrames' = UsableFrames /\ BitmapFrames' = BitmapFrames
  BY <1>0 DEF bootvars, Pages, UsableFrames, BitmapFrames
<1>2. BitmapPlaced' /\ BootState'
  BY <1>0 DEF IInv, BitmapPlaced, BootState, bootvars
<1>3. CASE Clear = {}
  <2>1. ret' = 0 /\ UNCHANGED <<bitmap, free_pages, last_free_index, held>>
    BY <1>3, AllocEffect
  <2>2. Clear' = Clear
    BY <1>1, <2>1 DEF Clear
  <2>3. TypeOK' /\ CountExact'
    BY <1>0, <1>1, <2>1, <2>2 DEF IInv, TypeOK, CountExact, bootvars
  <2>4. ClearAccepted' /\ Conservation' /\ ReservedStaysBusy' /\ NoClearBelowCursor'
    BY <1>0, <1>1, <1>3, <2>1, <2>2 DEF IInv, ClearAccepted, Conservation,
       ReservedStaysBusy, NoClearBelowCursor, InRange, bootvars
  <2> QED BY <1>2, <2>3, <2>4 DEF IInv
<1>4. CASE Clear # {}
  <2>1. /\ bitmap' = bitmap \cup {i} /\ free_pages' = free_pages - 1
        /\ last_free_index' = i + 1 /\ ret' = pgidx2pa(i)
        /\ held' = held \cup {i}
    BY <1>4, AllocEffect
  <2>2. i \in Clear /\ i \in Nat \ {0} /\ pgidx2pa(i) \in Nat
    BY <1>0, <1>4, ScanFacts
  <2>3. \A j \in Clear : i <= j
    BY <1>0, <1>4, PagesFinite, LowestProperties DEF Clear
  <2> HIDE DEF i
  <2>4. Clear' = Clear \ {i}
    BY <1>1, <2>1 DEF Clear
  <2>5. CountExact' /\ free_pages' \in Nat
    <3>1. Cardinality(Clear \ {i}) = Cardinality(Clear) - 1
          /\ IsFiniteSet(Clear \ {i})
      BY <1>0, <2>2, PagesFinite, FS_RemoveElement
    <3>2. Cardinality(Clear \ {i}) \in Nat
      BY <3>1, FS_CardinalityType
    <3> QED BY <1>0, <2>1, <2>4, <3>1, <3>2 DEF IInv, CountExact
  <2>6. i \in Pages /\ i + 1 \in 0 .. total_pages
    BY <1>0, <2>2 DEF Clear, Pages, TypeOK
  <2>7. TypeOK'
    BY <1>0, <1>1, <2>1, <2>2, <2>5, <2>6 DEF TypeOK, bootvars
  <2>8. ClearAccepted'
    BY <1>0, <2>1, <2>2, <2>4 DEF IInv, ClearAccepted, InRange, bootvars
  <2>9. Conservation'
    BY <1>0, <2>1, <2>2, <2>4 DEF IInv, Conservation, bootvars
  <2>10. ReservedStaysBusy'
    BY <1>0, <1>1, <2>1, <2>2, <2>4 DEF IInv, ReservedStaysBusy, bootvars
  <2>11. NoClearBelowCursor'
    <3>1. \A j \in Clear \ {i} : j \in Nat /\ i <= j /\ j # i
      BY <1>0, <2>3, PagesFinite DEF Clear
    <3> QED BY <2>1, <2>2, <2>4, <3>1 DEF NoClearBelowCursor
  <2> QED BY <1>2, <2>5, <2>7, <2>8, <2>9, <2>10, <2>11 DEF IInv
<1> QED BY <1>3, <1>4

\* What a free does: nothing, or the freed frame was held and becomes clear.
LEMMA FreeEffect ==
    ASSUME IInv, NEW pa \in FreeArguments, pmm_free_page(pa)
    PROVE  /\ phase = "ready" /\ UNCHANGED <<bootvars, ret>>
           /\ \/ UNCHANGED <<bitmap, free_pages, last_free_index, held>>
              \/ \E i \in held : Release(i) /\ held' = held \ {i}
<1>0. TypeOK /\ Conservation /\ phase = "ready" /\ UNCHANGED <<bootvars, ret>>
  BY DEF IInv, pmm_free_page
<1>1. PICK i \in managed \cup {total_pages} : pa = pgidx2pa(i)
  BY DEF FreeArguments
<1>2. i \in Nat
  BY <1>0, PagesFinite DEF TypeOK
<1>3. pa2pgidx(pa) = i
  BY <1>1, <1>2 DEF pa2pgidx, pgidx2pa, PAGE_SIZE
<1>4. managed = Clear \cup held /\ Clear \cap held = {} /\ held \subseteq Pages
      /\ \A p \in Pages : p \in Nat /\ ~(p >= total_pages)
  BY <1>0 DEF Conservation, TypeOK, Pages
<1>5. CASE Rejects(i)
  <2>1. i \notin held
    BY <1>4, <1>5 DEF Rejects, Clear
  <2>2. held' = held \ {i} /\ UNCHANGED <<bitmap, free_pages, last_free_index>>
    BY <1>3, <1>5 DEF pmm_free_page
  <2> QED BY <1>0, <2>1, <2>2
<1>6. CASE ~Rejects(i)
  <2>1. i \in bitmap /\ i \in managed
    BY <1>0, <1>2, <1>6 DEF Rejects, TypeOK
  <2>2. i \in held
    BY <1>4, <2>1 DEF Clear
  <2>3. Release(i) /\ held' = held \ {i}
    BY <1>3, <1>6 DEF pmm_free_page
  <2> QED BY <1>0, <2>1, <2>2, <2>3
<1> QED BY <1>5, <1>6

\* pmm_free_page keeps the invariant, when it frees and when it refuses.
LEMMA FreeStep ==
    ASSUME IInv, NEW pa \in FreeArguments, pmm_free_page(pa)
    PROVE  IInv'
<1>0. TypeOK /\ phase = "ready" /\ UNCHANGED <<bootvars, ret>>
  BY FreeEffect DEF IInv
<1>1. Pages' = Pages /\ UsableFrames' = UsableFrames /\ BitmapFrames' = BitmapFrames
  BY <1>0 DEF bootvars, Pages, UsableFrames, BitmapFrames
<1>2. BitmapPlaced' /\ BootState'
  BY <1>0 DEF IInv, BitmapPlaced, BootState, bootvars
<1>3. CASE UNCHANGED <<bitmap, free_pages, last_free_index, held>>
  <2>1. Clear' = Clear
    BY <1>1, <1>3 DEF Clear
  <2>2. TypeOK' /\ CountExact'
    BY <1>0, <1>1, <1>3, <2>1 DEF IInv, TypeOK, CountExact, bootvars
  <2>3. ClearAccepted' /\ Conservation' /\ ReservedStaysBusy' /\ NoClearBelowCursor'
    BY <1>0, <1>1, <1>3, <2>1 DEF IInv, ClearAccepted, Conservation,
       ReservedStaysBusy, NoClearBelowCursor, InRange, bootvars
  <2> QED BY <1>2, <2>2, <2>3 DEF IInv
<1>4. ASSUME NEW i \in held, Release(i), held' = held \ {i}
      PROVE  IInv'
  <2>1. i \in Pages /\ i \in Nat /\ i \notin Clear /\ i \in bitmap
    BY <1>0, PagesFinite DEF IInv, TypeOK, Conservation, Clear
  <2>2. Clear' = Clear \cup {i}
    BY <1>1, <1>4, <2>1 DEF Release, Clear
  <2>3. CountExact' /\ free_pages' \in Nat
    <3>1. Cardinality(Clear \cup {i}) = Cardinality(Clear) + 1
      BY <1>0, <2>1, PagesFinite, FS_AddElement
    <3> QED BY <1>0, <1>4, <2>2, <3>1 DEF Release, IInv, CountExact, TypeOK
  <2>4. TypeOK'
    <3>1. last_free_index' \in 0 .. total_pages
      BY <1>0, <1>4, <2>1 DEF Release, TypeOK
    <3>2. bitmap' \subseteq Pages /\ held' \subseteq Pages
      BY <1>0, <1>4 DEF Release, TypeOK
    <3> QED BY <1>0, <1>1, <2>3, <3>1, <3>2 DEF TypeOK, bootvars
  <2>5. Clear' \cup held' = Clear \cup held
    BY <1>4, <2>2
  <2>6. ClearAccepted' /\ ReservedStaysBusy'
    BY <1>0, <1>1, <2>5 DEF IInv, ClearAccepted, ReservedStaysBusy, InRange, bootvars
  <2>7. Conservation'
    BY <1>0, <1>4, <2>2, <2>5 DEF IInv, Conservation, bootvars
  <2>8. NoClearBelowCursor'
    <3>1. \A j \in Clear : j \in Nat /\ j >= last_free_index
      BY <1>0, PagesFinite DEF IInv, NoClearBelowCursor, Clear
    <3>2. last_free_index' <= i /\ last_free_index' <= last_free_index
          /\ last_free_index \in Nat /\ last_free_index' \in Nat
      BY <1>0, <1>4, <2>1 DEF Release, TypeOK
    <3> QED BY <2>1, <2>2, <3>1, <3>2 DEF NoClearBelowCursor
  <2> QED BY <1>2, <2>3, <2>4, <2>6, <2>7, <2>8 DEF IInv
<1> QED BY <1>3, <1>4, FreeEffect

\* A step that changes nothing keeps the invariant.
LEMMA StutterStep ==
    ASSUME IInv, UNCHANGED vars
    PROVE  IInv'
BY DEF IInv, vars, TypeOK, CountExact, BootState, BitmapPlaced, ClearAccepted,
   Conservation, ReservedStaysBusy, NoClearBelowCursor, Clear, Pages,
   UsableFrames, BitmapFrames, InRange, EntryFrames

\* Every call into pmm.c keeps the invariant.
LEMMA NextIInv == IInv /\ [Next]_vars => IInv'
<1> SUFFICES ASSUME IInv, [Next]_vars PROVE IInv'
  OBVIOUS
<1>1. CASE pmm_init_bitmap
  BY <1>1, InitBitmapStep
<1>2. CASE pmm_init_free
  BY <1>2, InitFreeStep
<1>3. CASE pmm_init_reserve
  BY <1>3, InitReserveStep
<1>4. CASE pmm_alloc_page
  BY <1>4, AllocStep
<1>5. CASE \E pa \in FreeArguments : pmm_free_page(pa)
  BY <1>5, FreeStep
<1>6. CASE Halted \/ UNCHANGED vars
  BY <1>6, StutterStep DEF Halted
<1> QED BY <1>1, <1>2, <1>3, <1>4, <1>5, <1>6 DEF Next

-----------------------------------------------------------------------------
(* The theorems.                                                           *)

\* The inductive invariant holds in every reachable state of pmm.c.
THEOREM PMMInvariant == Spec => []IInv
BY InitIInv, NextIInv, PTL DEF Spec

\* The globals keep their types and last_free_index stays within the bitmap.
THEOREM PMMTypeCorrect == Spec => []TypeOK
<1>1. IInv => TypeOK
  BY DEF IInv
<1> QED BY <1>1, PMMInvariant, PTL

\* free_pages is the number of clear bits, for every memory map.
THEOREM PMMCountExact == Spec => []CountExact
<1>1. IInv => CountExact
  BY DEF IInv
<1> QED BY <1>1, PMMInvariant, PTL

\* No frame is ever lost or given to two callers.
THEOREM PMMConservation == Spec => []Conservation
<1>1. IInv => Conservation
  BY DEF IInv
<1> QED BY <1>1, PMMInvariant, PTL

\* Frame 0, the bitmap's own frames and memory that is not usable are never
\* free and never handed out, bitmaps of several pages included.
THEOREM PMMReservedStaysBusy == Spec => []ReservedStaysBusy
<1>1. IInv => ReservedStaysBusy
  BY DEF IInv
<1> QED BY <1>1, PMMInvariant, PTL

\* last_free_index is a lower bound of the free frames.
THEOREM PMMNoClearBelowCursor == Spec => []NoClearBelowCursor
<1>1. IInv => NoClearBelowCursor
  BY DEF IInv
<1> QED BY <1>1, PMMInvariant, PTL

\* pmm_alloc_page fails only when no frame is free, and otherwise returns the
\* lowest free frame.
THEOREM PMMAllocLowest == Spec => AllocLowest
<1>1. ASSUME IInv, pmm_alloc_page
      PROVE  IF Clear = {} THEN ret' = 0
             ELSE ret' = pgidx2pa(Lowest(Clear)) /\ ret' # 0
  BY <1>1, AllocEffect, ScanFacts
<1>2. IInv /\ [Next]_vars =>
        [pmm_alloc_page => IF Clear = {} THEN ret' = 0
                           ELSE ret' = pgidx2pa(Lowest(Clear)) /\ ret' # 0]_vars
  BY <1>1
<1> QED BY <1>2, PMMInvariant, PTL DEF Spec, AllocLowest

\* The manager implements the frame pool of FrameAllocator.
THEOREM PMMImplementsFrameAllocator == Spec => ImplementsFrameAllocator
<1>1. Init => Pool!AInit
  BY DEF Init, Pool!AInit, Pool!NoFrame, pa2pgidx, PAGE_SIZE
<1>2. ASSUME IInv, IInv', [Next]_vars PROVE [Pool!ANext]_Pool!avars
  <2>1. CASE pmm_init_bitmap \/ pmm_init_free
    <3>1. /\ phase # "ready" /\ phase' # "ready"
          /\ UNCHANGED <<ret, held>>
      BY <2>1 DEF pmm_init_bitmap, pmm_init_free
    <3> QED BY <3>1 DEF Pool!avars
  <2>2. CASE pmm_init_reserve
    <3>1. Clear' \subseteq Nat \ {0}
      <4>1. Clear' \subseteq Nat /\ 0 \notin Clear'
        BY <1>2, <2>2 DEF IInv, ReservedStaysBusy, pmm_init_reserve, Clear, Pages, TypeOK
      <4> QED BY <4>1
    <3> QED
      BY <1>2, <2>2, <3>1 DEF pmm_init_reserve, Pool!ANext, Pool!Provision, Pool!NoFrame
  <2>3. CASE pmm_alloc_page
    <3>0. phase = "ready" /\ phase' = "ready" /\ Pages' = Pages
      BY <1>2, <2>3, AllocEffect DEF bootvars, Pages
    <3>1. CASE Clear = {}
      <4>1. ret' = 0 /\ UNCHANGED <<bitmap, held>>
        BY <1>2, <2>3, <3>1, AllocEffect
      <4>2. pa2pgidx(ret') = 0 /\ Clear' = Clear
        BY <3>0, <4>1 DEF pa2pgidx, PAGE_SIZE, Clear
      <4> QED BY <3>0, <3>1, <4>1, <4>2 DEF Pool!ANext, Pool!Refuse, Pool!NoFrame
    <3>2. CASE Clear # {}
      <4>1. /\ bitmap' = bitmap \cup {Lowest(Clear)}
            /\ held' = held \cup {Lowest(Clear)}
            /\ pa2pgidx(ret') = Lowest(Clear)
            /\ Lowest(Clear) \in Clear
        BY <1>2, <2>3, <3>0, <3>2, AllocEffect, ScanFacts
      <4>2. Clear' = Clear \ {Lowest(Clear)}
        BY <3>0, <4>1 DEF Clear
      <4> QED BY <3>0, <4>1, <4>2 DEF Pool!ANext, Pool!Grant
    <3> QED BY <3>1, <3>2
  <2>4. CASE \E pa \in FreeArguments : pmm_free_page(pa)
    <3>0. phase = "ready" /\ phase' = "ready" /\ ret' = ret /\ Pages' = Pages
      BY <1>2, <2>4, FreeEffect DEF bootvars, Pages
    <3>1. CASE UNCHANGED <<bitmap, held>>
      BY <3>0, <3>1 DEF Pool!avars, Clear
    <3>2. ASSUME NEW i \in held, Release(i), held' = held \ {i}
          PROVE  Pool!GiveBack
      <4>1. i \in Pages
        BY <1>2 DEF IInv, TypeOK
      <4>2. Clear' = Clear \cup {i}
        BY <3>0, <3>2, <4>1 DEF Release, Clear
      <4> QED BY <3>0, <3>2, <4>2 DEF Pool!GiveBack
    <3> QED BY <1>2, <2>4, <3>1, <3>2, FreeEffect DEF Pool!ANext
  <2>5. CASE Halted \/ UNCHANGED vars
    BY <2>5 DEF Halted, vars, Pool!avars, Clear, Pages
  <2> QED BY <1>2, <2>1, <2>2, <2>3, <2>4, <2>5 DEF Next
<1> QED BY <1>1, <1>2, PMMInvariant, PTL DEF Spec, ImplementsFrameAllocator, Pool!ASpec
=============================================================================
