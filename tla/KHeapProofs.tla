---------------------------- MODULE KHeapProofs ----------------------------
(***************************************************************************)
(* Proofs about KHeap for any requests, any amount of memory and any       *)
(* number of calls.                                                        *)
(***************************************************************************)
EXTENDS KHeap, WellFoundedInduction, SequenceTheorems, TLAPS

-----------------------------------------------------------------------------
(* Induction: the least counterexample.                                    *)

\* A non-empty set of naturals has a least element.
LEMMA LeastNatural ==
    ASSUME NEW S, S \subseteq Nat, S # {}
    PROVE  \E x \in S : \A y \in S : x <= y
<1> DEFINE Below == {p \in Nat \X Nat : p[1] < p[2]}
<1>1. IsWellFoundedOn(Below, Nat)
  BY NatLessThanWellFounded DEF OpToRel
<1>2. PICK x \in S : \A y \in S : ~(<<y, x>> \in Below)
  <2> HIDE DEF Below
  <2> QED BY <1>1, WFMin
<1>3. \A y \in S : ~(y < x)
  BY <1>2
<1> QED BY <1>3

-----------------------------------------------------------------------------
(* Sequences.                                                              *)

LEMMA RemoveAtIs ==
    ASSUME NEW S, NEW s \in Seq(S), NEW i \in 1 .. Len(s)
    PROVE  /\ RemoveAt(s, i) \in Seq(S)
           /\ Len(RemoveAt(s, i)) = Len(s) - 1
           /\ \A k \in 1 .. Len(s) - 1 : RemoveAt(s, i)[k] = IF k < i THEN s[k] ELSE s[k + 1]
<1> DEFINE a == SubSeq(s, 1, i - 1)
           b == SubSeq(s, i + 1, Len(s))
<1>1. /\ a \in Seq(S) /\ Len(a) = i - 1
      /\ \A k \in 1 .. i - 1 : a[k] = s[k]
  BY SubSeqProperties
<1>2. /\ b \in Seq(S) /\ Len(b) = Len(s) - i
      /\ \A k \in 1 .. Len(s) - i : b[k] = s[i + k]
  BY SubSeqProperties
<1> HIDE DEF a, b
<1>0. Len(s) \in Nat
  OBVIOUS
<1>3. /\ a \o b \in Seq(S) /\ Len(a \o b) = Len(s) - 1
      /\ \A k \in 1 .. Len(s) - 1 : (a \o b)[k] = IF k <= i - 1 THEN a[k] ELSE b[k - (i - 1)]
  <2>1. /\ a \o b \in Seq(S) /\ Len(a \o b) = Len(a) + Len(b)
        /\ \A k \in 1 .. Len(a) + Len(b) : (a \o b)[k] = IF k <= Len(a) THEN a[k] ELSE b[k - Len(a)]
    BY <1>1, <1>2, ConcatProperties
  <2>2. Len(a) + Len(b) = Len(s) - 1
    BY <1>0, <1>1, <1>2
  <2> QED BY <1>1, <2>1, <2>2
<1>4. RemoveAt(s, i) = a \o b
  BY DEF RemoveAt, a, b
<1>5. ASSUME NEW k \in 1 .. Len(s) - 1
      PROVE  (a \o b)[k] = IF k < i THEN s[k] ELSE s[k + 1]
  <2>1. CASE k < i
    BY <1>0, <1>1, <1>3, <2>1
  <2>2. CASE k >= i
    <3>1. (a \o b)[k] = b[k - (i - 1)] /\ k - (i - 1) \in 1 .. Len(s) - i
      BY <1>0, <1>3, <2>2
    <3> QED BY <1>0, <1>2, <2>2, <3>1
  <2>3. k < i \/ k >= i
    BY <1>0
  <2> QED BY <2>1, <2>2, <2>3
<1> QED BY <1>3, <1>4, <1>5

\* An element put behind element i.
InsertAfter(s, i, e) == InsertAt(s, i + 1, e)

LEMMA InsertAfterIs ==
    ASSUME NEW S, NEW s \in Seq(S), NEW i \in 1 .. Len(s), NEW e \in S
    PROVE  /\ InsertAfter(s, i, e) \in Seq(S)
           /\ Len(InsertAfter(s, i, e)) = Len(s) + 1
           /\ \A k \in 1 .. i : InsertAfter(s, i, e)[k] = s[k]
           /\ InsertAfter(s, i, e)[i + 1] = e
           /\ \A k \in i + 1 .. Len(s) : InsertAfter(s, i, e)[k + 1] = s[k]
<1> DEFINE a == SubSeq(s, 1, (i + 1) - 1)
           b == SubSeq(s, i + 1, Len(s))
           c == a \o <<e>>
<1>0. Len(s) \in Nat /\ (i + 1) - 1 = i
  OBVIOUS
<1>1. /\ a \in Seq(S) /\ Len(a) = i
      /\ \A k \in 1 .. i : a[k] = s[k]
  BY <1>0, SubSeqProperties
<1>2. /\ b \in Seq(S) /\ Len(b) = Len(s) - i
      /\ \A k \in 1 .. Len(s) - i : b[k] = s[i + k]
  BY SubSeqProperties
<1>3. <<e>> \in Seq(S) /\ Len(<<e>>) = 1 /\ <<e>>[1] = e
  OBVIOUS
<1>6. InsertAfter(s, i, e) = c \o b
  BY DEF InsertAfter, InsertAt
<1> HIDE DEF a, b
<1>4. /\ c \in Seq(S) /\ Len(c) = i + 1
      /\ \A k \in 1 .. i + 1 : c[k] = IF k <= i THEN s[k] ELSE e
  <2> DEFINE d == <<e>>
  <2>0. d \in Seq(S) /\ Len(d) = 1 /\ d[1] = e /\ c = a \o d
    BY <1>3
  <2> HIDE DEF d, c
  <2>1. /\ a \o d \in Seq(S) /\ Len(a \o d) = Len(a) + Len(d)
        /\ \A k \in 1 .. Len(a) + Len(d) : (a \o d)[k] = IF k <= Len(a) THEN a[k] ELSE d[k - Len(a)]
    BY <1>1, <2>0, ConcatProperties
  <2>2. Len(a) + Len(d) = i + 1
    BY <1>1, <2>0
  <2> QED BY <1>0, <1>1, <2>0, <2>1, <2>2
<1> HIDE DEF c
<1>5. /\ c \o b \in Seq(S) /\ Len(c \o b) = Len(s) + 1
      /\ \A k \in 1 .. Len(s) + 1 : (c \o b)[k] = IF k <= i + 1 THEN c[k] ELSE b[k - (i + 1)]
  <2>1. /\ c \o b \in Seq(S) /\ Len(c \o b) = Len(c) + Len(b)
        /\ \A k \in 1 .. Len(c) + Len(b) : (c \o b)[k] = IF k <= Len(c) THEN c[k] ELSE b[k - Len(c)]
    BY <1>2, <1>4, ConcatProperties
  <2>2. Len(c) + Len(b) = Len(s) + 1
    BY <1>0, <1>2, <1>4
  <2> QED BY <1>0, <1>4, <2>1, <2>2
<1>7. ASSUME NEW k \in i + 1 .. Len(s) PROVE (c \o b)[k + 1] = s[k]
  <2>1. (c \o b)[k + 1] = b[k - i] /\ k - i \in 1 .. Len(s) - i /\ i + (k - i) = k
    BY <1>0, <1>5
  <2> QED BY <1>2, <2>1
<1>8. \A k \in 1 .. i : (c \o b)[k] = s[k]
  BY <1>0, <1>4, <1>5
<1>9. (c \o b)[i + 1] = e
  BY <1>0, <1>4, <1>5
<1> QED BY <1>5, <1>6, <1>7, <1>8, <1>9

-----------------------------------------------------------------------------
(* Lists of blocks that tile the heap up to top.                           *)

Blocks == [addr : Nat, size : Nat, is_free : BOOLEAN]

Tiles(bs, top) ==
    /\ bs \in Seq(Blocks)
    /\ top \in Nat
    /\ \A i \in 1 .. Len(bs) : bs[i].addr % 8 = 0 /\ bs[i].size % 8 = 0
    /\ bs = <<>> <=> top = 0
    /\ bs # <<>> => bs[1].addr = 0 /\ BlockEnd(bs[Len(bs)]) = top
    /\ \A i \in 1 .. Len(bs) - 1 : Adjoins(bs[i], bs[i + 1])

\* Replacing a block by one of the same address and size.
LEMMA PatchTiles ==
    ASSUME NEW bs, NEW top, Tiles(bs, top), NEW i \in 1 .. Len(bs),
           NEW b \in Blocks, b.addr = bs[i].addr, b.size = bs[i].size
    PROVE  /\ Tiles([bs EXCEPT ![i] = b], top)
           /\ Len([bs EXCEPT ![i] = b]) = Len(bs)
           /\ \A k \in 1 .. Len(bs) : [bs EXCEPT ![i] = b][k] = IF k = i THEN b ELSE bs[k]
<1> DEFINE cs == [bs EXCEPT ![i] = b]
<1>1. bs \in Seq(Blocks) /\ Len(bs) \in Nat /\ bs[i] \in Blocks
  BY DEF Tiles
<1>2. /\ cs \in Seq(Blocks) /\ Len(cs) = Len(bs)
      /\ \A k \in 1 .. Len(bs) : cs[k] = IF k = i THEN b ELSE bs[k]
  BY <1>1, ExceptSeq
<1> HIDE DEF cs
<1>3. cs # <<>> /\ bs # <<>>
  BY <1>1, <1>2
<1>4. \A k \in 1 .. Len(bs) : /\ cs[k].addr = bs[k].addr /\ cs[k].size = bs[k].size
                              /\ BlockEnd(cs[k]) = BlockEnd(bs[k])
  BY <1>2 DEF BlockEnd
<1>5. \A k \in 1 .. Len(bs) - 1 : k \in 1 .. Len(bs) /\ k + 1 \in 1 .. Len(bs)
  BY <1>1
<1>6. 1 \in 1 .. Len(bs) /\ Len(bs) \in 1 .. Len(bs)
  BY <1>1
<1>7. Tiles(cs, top)
  BY <1>1, <1>2, <1>3, <1>4, <1>5, <1>6 DEF Tiles, Adjoins
<1> QED BY <1>2, <1>7 DEF cs

LEMMA FlagBlock ==
    ASSUME NEW b \in Blocks, NEW f \in BOOLEAN
    PROVE  /\ [b EXCEPT !.is_free = f] \in Blocks
           /\ [b EXCEPT !.is_free = f].addr = b.addr
           /\ [b EXCEPT !.is_free = f].size = b.size
BY DEF Blocks

\* Block i takes over the one behind it.
LEMMA AbsorbTiles ==
    ASSUME NEW bs, NEW top, Tiles(bs, top), NEW i \in 1 .. Len(bs) - 1
    PROVE  LET cs == Absorb(bs, i)
           IN  /\ Tiles(cs, top) /\ Len(cs) = Len(bs) - 1
               /\ \A k \in 1 .. i - 1 : cs[k] = bs[k]
               /\ cs[i].addr = bs[i].addr /\ cs[i].is_free = bs[i].is_free
               /\ cs[i].size = bs[i].size + bs[i + 1].size + HEADER_SIZE
               /\ \A k \in i + 1 .. Len(bs) - 1 : cs[k] = bs[k + 1]
<1> DEFINE b == [bs[i] EXCEPT !.size = @ + bs[i + 1].size + HEADER_SIZE]
           ds == [bs EXCEPT ![i] = b]
           cs == RemoveAt(ds, i + 1)
<1>1. bs \in Seq(Blocks) /\ Len(bs) \in Nat /\ bs[i] \in Blocks /\ bs[i + 1] \in Blocks
  BY DEF Tiles
<1>2. /\ b \in Blocks /\ b.addr = bs[i].addr /\ b.is_free = bs[i].is_free
      /\ b.size = bs[i].size + bs[i + 1].size + HEADER_SIZE
  <2>1. bs[i].size + bs[i + 1].size + HEADER_SIZE \in Nat
    BY <1>1 DEF Blocks, HEADER_SIZE
  <2> HIDE DEF HEADER_SIZE
  <2> QED BY <1>1, <2>1 DEF Blocks
<1> HIDE DEF b
<1>3. /\ ds \in Seq(Blocks) /\ Len(ds) = Len(bs)
      /\ \A k \in 1 .. Len(bs) : ds[k] = IF k = i THEN b ELSE bs[k]
  BY <1>1, <1>2, ExceptSeq
<1> HIDE DEF ds
<1>4. /\ cs \in Seq(Blocks) /\ Len(cs) = Len(bs) - 1
      /\ \A k \in 1 .. Len(bs) - 1 : cs[k] = IF k < i + 1 THEN ds[k] ELSE ds[k + 1]
  <2>1. i + 1 \in 1 .. Len(ds)
    BY <1>1, <1>3
  <2> QED BY <1>3, <2>1, RemoveAtIs
<1>5. cs = Absorb(bs, i)
  BY DEF Absorb, cs, ds, b
<1> HIDE DEF cs
<1>6. \A k \in 1 .. Len(bs) - 1 : cs[k] = IF k < i THEN bs[k] ELSE IF k = i THEN b ELSE bs[k + 1]
  BY <1>1, <1>3, <1>4
<1>7. BlockEnd(b) = BlockEnd(bs[i + 1])
  <2>1. bs[i].addr + HEADER_SIZE + bs[i].size = bs[i + 1].addr
    BY DEF Tiles, Adjoins, BlockEnd
  <2>2. PICK x, y, z, h \in Nat :
          x = bs[i].addr /\ y = bs[i].size /\ z = bs[i + 1].size /\ h = HEADER_SIZE
    <3>1. bs[i].addr \in Nat /\ bs[i].size \in Nat
      BY <1>1 DEF Blocks
    <3>2. bs[i + 1].size \in Nat /\ HEADER_SIZE \in Nat
      BY <1>1 DEF Blocks, HEADER_SIZE
    <3> QED BY <3>1, <3>2
  <2>3. x + h + (y + z + h) = (x + h + y) + h + z
    OBVIOUS
  <2>4. BlockEnd(b) = bs[i].addr + HEADER_SIZE + (bs[i].size + bs[i + 1].size + HEADER_SIZE)
    BY <1>2 DEF BlockEnd
  <2>5. BlockEnd(bs[i + 1]) = (bs[i].addr + HEADER_SIZE + bs[i].size) + HEADER_SIZE + bs[i + 1].size
    BY <2>1 DEF BlockEnd
  <2> QED BY <2>2, <2>3, <2>4, <2>5
<1>8. Tiles(cs, top)
  <2>1. cs # <<>> /\ bs # <<>>
    BY <1>1, <1>4
  <2>2. \A k \in 1 .. Len(cs) : cs[k].addr % 8 = 0 /\ cs[k].size % 8 = 0
    <3>1. b.size % 8 = 0
      <4>0. i \in 1 .. Len(bs) /\ i + 1 \in 1 .. Len(bs)
        BY <1>1
      <4>1. /\ bs[i].size \in Nat /\ bs[i + 1].size \in Nat
            /\ bs[i].size % 8 = 0 /\ bs[i + 1].size % 8 = 0
        <5>1. bs[i].size \in Nat /\ bs[i + 1].size \in Nat
          BY <1>1 DEF Blocks
        <5>2. bs[i].size % 8 = 0 /\ bs[i + 1].size % 8 = 0
          BY <4>0 DEF Tiles
        <5> QED BY <5>1, <5>2
      <4>2. \A x, y \in Nat : x % 8 = 0 /\ y % 8 = 0 => (x + y + 32) % 8 = 0
        OBVIOUS
      <4> QED BY <1>2, <4>1, <4>2 DEF HEADER_SIZE
    <3>2. ASSUME NEW k \in 1 .. Len(cs) PROVE cs[k].addr % 8 = 0 /\ cs[k].size % 8 = 0
      <4>1. k \in 1 .. Len(bs) /\ k + 1 \in 1 .. Len(bs)
        BY <1>1, <1>4
      <4>2. \A j \in 1 .. Len(bs) : bs[j].addr % 8 = 0 /\ bs[j].size % 8 = 0
        BY DEF Tiles
      <4>3. cs[k] = bs[k] \/ cs[k] = b \/ cs[k] = bs[k + 1]
        BY <1>4, <1>6
      <4> QED BY <1>2, <3>1, <4>1, <4>2, <4>3
    <3> QED BY <3>2
  <2>3. \A k \in 1 .. Len(cs) - 1 : Adjoins(cs[k], cs[k + 1])
    <3> SUFFICES ASSUME NEW k \in 1 .. Len(cs) - 1 PROVE Adjoins(cs[k], cs[k + 1])
      OBVIOUS
    <3>0. /\ k \in 1 .. Len(bs) - 1 /\ k + 1 \in 1 .. Len(bs) - 1
          /\ \A j \in 1 .. Len(bs) - 1 : BlockEnd(bs[j]) = bs[j + 1].addr
      BY <1>1, <1>4 DEF Tiles, Adjoins
    <3>2. CASE k + 1 < i
      BY <1>6, <3>0, <3>2 DEF Adjoins
    <3>3. CASE k + 1 = i
      BY <1>2, <1>6, <3>0, <3>3 DEF Adjoins
    <3>4. CASE k = i
      <4>1. cs[k] = b /\ cs[k + 1] = bs[i + 2]
        BY <1>6, <3>0, <3>4
      <4>2. BlockEnd(bs[i + 1]) = bs[i + 2].addr
        BY <3>0, <3>4
      <4> QED BY <1>7, <4>1, <4>2 DEF Adjoins
    <3>5. CASE k > i
      <4>1. cs[k] = bs[k + 1] /\ cs[k + 1] = bs[k + 2]
        BY <1>6, <3>0, <3>5
      <4>2. BlockEnd(bs[k + 1]) = bs[k + 2].addr
        BY <3>0
      <4> QED BY <4>1, <4>2 DEF Adjoins
    <3> QED BY <3>0, <3>2, <3>3, <3>4, <3>5
  <2>4. cs[1].addr = 0
    BY <1>1, <1>2, <1>6, <2>1 DEF Tiles
  <2>5. BlockEnd(cs[Len(cs)]) = top
    <3>1. Adjoins(bs[i], bs[i + 1])
      BY DEF Tiles
    <3>2. BlockEnd(bs[Len(bs)]) = top
      BY <2>1 DEF Tiles
    <3>3. CASE i = Len(bs) - 1
      <4>1. cs[Len(cs)] = b /\ bs[i + 1] = bs[Len(bs)]
        BY <1>1, <1>4, <1>6, <3>3
      <4> QED BY <1>7, <3>2, <4>1
    <3>4. CASE i # Len(bs) - 1
      BY <1>1, <1>4, <1>6, <3>2, <3>4
    <3> QED BY <3>3, <3>4
  <2> QED BY <1>4, <2>1, <2>2, <2>3, <2>4, <2>5 DEF Tiles
<1> QED BY <1>1, <1>2, <1>4, <1>5, <1>6, <1>8

\* kfree of block i: the list still tiles, every block before i is still there
\* with its flag and at least its size, and the last block is not smaller.
LEMMA FreedTiles ==
    ASSUME NEW bs, NEW top, Tiles(bs, top), NEW i \in 1 .. Len(bs)
    PROVE  /\ Tiles(Freed(bs, i), top)
           /\ \A j \in 1 .. i - 1 :
                \E k \in 1 .. Len(Freed(bs, i)) :
                    /\ Freed(bs, i)[k].addr = bs[j].addr
                    /\ Freed(bs, i)[k].size >= bs[j].size
                    /\ Freed(bs, i)[k].is_free = bs[j].is_free
<1> DEFINE b == [bs[i] EXCEPT !.is_free = TRUE]
           cs == [bs EXCEPT ![i] = b]
           ds == MergeNext(cs, i)
           es == MergePrev(ds, i)
<1>0. bs \in Seq(Blocks) /\ Len(bs) \in Nat
  BY DEF Tiles
<1>1. /\ Tiles(cs, top) /\ Len(cs) = Len(bs)
      /\ \A k \in 1 .. Len(bs) : k # i => cs[k] = bs[k]
  <2>0. bs[i] \in Blocks
    BY <1>0
  <2>1. b \in Blocks /\ b.addr = bs[i].addr /\ b.size = bs[i].size
    BY <2>0, FlagBlock, Zenon
  <2> HIDE DEF b
  <2> QED BY <2>1, PatchTiles
<1>2. Freed(bs, i) = es
  BY DEF Freed
<1> HIDE DEF cs
<1>3. /\ Tiles(ds, top) /\ i \in 1 .. Len(ds) /\ Len(ds) \in Nat
      /\ \A k \in 1 .. i - 1 : ds[k] = bs[k]
  <2>1. CASE i < Len(cs) /\ Adjoins(cs[i], cs[i + 1])
    <3>1. i \in 1 .. Len(cs) - 1 /\ ds = Absorb(cs, i)
      BY <1>0, <1>1, <2>1 DEF MergeNext
    <3>2. /\ Tiles(ds, top) /\ Len(ds) = Len(cs) - 1
          /\ \A k \in 1 .. i - 1 : ds[k] = cs[k]
      BY <1>1, <3>1, AbsorbTiles
    <3> QED BY <1>0, <1>1, <3>1, <3>2
  <2>2. CASE ~(i < Len(cs) /\ Adjoins(cs[i], cs[i + 1]))
    BY <1>0, <1>1, <2>2 DEF MergeNext
  <2> QED BY <2>1, <2>2
<1> HIDE DEF ds
<1>4. CASE i > 1 /\ Adjoins(ds[i - 1], ds[i])
  <2>1. i - 1 \in 1 .. Len(ds) - 1 /\ es = Absorb(ds, i - 1)
    BY <1>3, <1>4 DEF MergePrev
  <2>2. /\ Tiles(es, top) /\ Len(es) = Len(ds) - 1
        /\ \A k \in 1 .. (i - 1) - 1 : es[k] = ds[k]
        /\ es[i - 1].addr = ds[i - 1].addr /\ es[i - 1].is_free = ds[i - 1].is_free
        /\ es[i - 1].size = ds[i - 1].size + ds[i - 1 + 1].size + HEADER_SIZE
    BY <1>3, <2>1, AbsorbTiles
  <2>3. es[i - 1].size >= ds[i - 1].size
    <3>1. ds[i - 1] \in Blocks /\ ds[i - 1 + 1] \in Blocks
      BY <1>3, <2>1 DEF Tiles
    <3>2. ds[i - 1].size \in Nat /\ ds[i - 1 + 1].size \in Nat
      BY <3>1 DEF Blocks
    <3> QED BY <2>2, <3>2 DEF HEADER_SIZE
  <2>4. ASSUME NEW j \in 1 .. i - 1
        PROVE  /\ j \in 1 .. Len(es)
               /\ es[j].addr = bs[j].addr /\ es[j].size >= bs[j].size
               /\ es[j].is_free = bs[j].is_free
    <3>1. j \in 1 .. Len(es) /\ ds[j] = bs[j] /\ bs[j] \in Blocks
      BY <1>0, <1>3, <2>1, <2>2
    <3>2. CASE j = i - 1
      BY <2>2, <2>3, <3>1, <3>2
    <3>3. CASE j # i - 1
      <4>1. es[j] = bs[j]
        BY <1>3, <2>2, <3>1, <3>3
      <4> QED BY <3>1, <4>1 DEF Blocks
    <3> QED BY <3>2, <3>3
  <2> QED BY <1>2, <2>2, <2>4
<1>5. CASE ~(i > 1 /\ Adjoins(ds[i - 1], ds[i]))
  <2>1. es = ds
    BY <1>5 DEF MergePrev
  <2>2. ASSUME NEW j \in 1 .. i - 1
        PROVE  /\ j \in 1 .. Len(es)
               /\ es[j].addr = bs[j].addr /\ es[j].size >= bs[j].size
               /\ es[j].is_free = bs[j].is_free
    <3>1. j \in 1 .. Len(es) /\ ds[j] = bs[j] /\ bs[j] \in Blocks
      BY <1>0, <1>3, <2>1
    <3> QED BY <2>1, <3>1 DEF Blocks
  <2> QED BY <1>2, <1>3, <2>1, <2>2
<1> QED BY <1>4, <1>5

\* Blocks further on in the list lie higher in the heap.
LEMMA TilesOrdered ==
    ASSUME NEW bs, NEW top, Tiles(bs, top), NEW i \in 1 .. Len(bs), NEW j \in 1 .. Len(bs), i < j
    PROVE  BlockEnd(bs[i]) <= bs[j].addr
<1> DEFINE Bad == {k \in i + 1 .. Len(bs) : ~(BlockEnd(bs[i]) <= bs[k].addr)}
<1>0. /\ Len(bs) \in Nat /\ \A k \in 1 .. Len(bs) : bs[k].addr \in Nat /\ bs[k].size \in Nat
      /\ \A k \in 1 .. Len(bs) - 1 : BlockEnd(bs[k]) = bs[k + 1].addr
  <2>1. bs \in Seq(Blocks) /\ \A k \in 1 .. Len(bs) - 1 : BlockEnd(bs[k]) = bs[k + 1].addr
    BY DEF Tiles, Adjoins
  <2>2. ASSUME NEW k \in 1 .. Len(bs) PROVE bs[k].addr \in Nat /\ bs[k].size \in Nat
    <3>1. bs[k] \in Blocks
      BY <2>1
    <3> QED BY <3>1 DEF Blocks
  <2> QED BY <2>1, <2>2
<1>1. SUFFICES ASSUME Bad # {} PROVE FALSE
  BY <1>0
<1>2. PICK k \in Bad : \A l \in Bad : k <= l
  <2>1. Bad \subseteq Nat
    BY <1>0
  <2> HIDE DEF Bad
  <2> QED BY <1>1, <2>1, LeastNatural
<1>3. k \in i + 1 .. Len(bs) /\ ~(BlockEnd(bs[i]) <= bs[k].addr)
  OBVIOUS
<1>4. CASE k = i + 1
  <2>1. BlockEnd(bs[i]) = bs[k].addr /\ bs[k].addr \in Nat
    BY <1>0, <1>3, <1>4
  <2> QED BY <1>3, <2>1
<1>5. CASE k > i + 1
  <2>1. k - 1 \in i + 1 .. Len(bs) /\ k - 1 \in 1 .. Len(bs) - 1 /\ ~(k <= k - 1)
    BY <1>0, <1>3, <1>5
  <2>2. k - 1 \notin Bad
    <3> HIDE DEF Bad
    <3> QED BY <1>2, <2>1
  <2>3. BlockEnd(bs[i]) <= bs[k - 1].addr
    BY <2>1, <2>2
  <2>4. bs[k].addr = bs[k - 1].addr + HEADER_SIZE + bs[k - 1].size
    <3>1. BlockEnd(bs[k - 1]) = bs[(k - 1) + 1].addr /\ (k - 1) + 1 = k
      BY <1>0, <1>3, <2>1
    <3> QED BY <3>1 DEF BlockEnd
  <2>5. bs[k - 1].addr \in Nat /\ bs[k - 1].size \in Nat /\ BlockEnd(bs[i]) \in Nat
    BY <1>0, <2>1 DEF BlockEnd, HEADER_SIZE
  <2>6. BlockEnd(bs[i]) <= bs[k].addr
    <3>1. PICK e, x, z \in Nat : e = BlockEnd(bs[i]) /\ x = bs[k - 1].addr /\ z = bs[k - 1].size
      BY <2>5
    <3>2. e <= x /\ bs[k].addr = x + 32 + z
      BY <2>3, <2>4, <3>1 DEF HEADER_SIZE
    <3>3. e <= x + 32 + z
      BY <3>2
    <3> QED BY <3>1, <3>2, <3>3
  <2> QED BY <1>3, <2>6
<1> QED BY <1>0, <1>3, <1>4, <1>5

\* What kfree does to the list.
LEMMA FreedAtIs ==
    ASSUME NEW bs, NEW a, Len(bs) \in Nat
    PROVE  \/ FreedAt(bs, a) = bs
           \/ \E i \in 1 .. Len(bs) : bs[i].addr = a /\ FreedAt(bs, a) = Freed(bs, i)
<1> DEFINE I == {i \in 1 .. Len(bs) : bs[i].addr = a}
<1>1. CASE I = {}
  BY <1>1 DEF FreedAt, SelectInSeq
<1>2. CASE I # {}
  <2>1. PICK x \in I : \A y \in I : x <= y
    <3>1. I \subseteq Nat
      OBVIOUS
    <3> HIDE DEF I
    <3> QED BY <1>2, <3>1, LeastNatural
  <2>2. Min(I) \in I
    BY <2>1 DEF Min
  <2>3. SelectInSeq(bs, LAMBDA b : b.addr = a) = Min(I)
    BY <1>2 DEF SelectInSeq
  <2>4. Min(I) \in 1 .. Len(bs) /\ bs[Min(I)].addr = a /\ Min(I) # 0
    BY <2>2
  <2> HIDE DEF I
  <2>5. FreedAt(bs, a) = Freed(bs, Min(I))
    BY <2>3, <2>4 DEF FreedAt
  <2> QED BY <2>4, <2>5
<1> QED BY <1>1, <1>2

\* What first_fit finds.
LEMMA FirstFitIs ==
    ASSUME Len(kheap_list) \in Nat
    PROVE  /\ first_fit # 0 => /\ first_fit \in 1 .. Len(kheap_list)
                               /\ Fits(kheap_list[first_fit])
           /\ first_fit = 0 => \A i \in 1 .. Len(kheap_list) : ~Fits(kheap_list[i])
<1> DEFINE I == {i \in 1 .. Len(kheap_list) : Fits(kheap_list[i])}
<1>1. CASE I = {}
  BY <1>1 DEF first_fit, SelectInSeq
<1>2. CASE I # {}
  <2>1. PICK x \in I : \A y \in I : x <= y
    <3>1. I \subseteq Nat
      OBVIOUS
    <3> HIDE DEF I
    <3> QED BY <1>2, <3>1, LeastNatural
  <2>2. Min(I) \in I
    BY <2>1 DEF Min
  <2>3. first_fit = Min(I)
    BY <1>2 DEF first_fit, SelectInSeq
  <2>4. Min(I) \in 1 .. Len(kheap_list) /\ Fits(kheap_list[Min(I)]) /\ Min(I) # 0
    BY <2>2
  <2> QED BY <2>3, <2>4
<1> QED BY <1>1, <1>2

LEMMA BlockIn ==
    ASSUME NEW a \in Nat, NEW z \in Nat, NEW f \in BOOLEAN
    PROVE  /\ Block(a, z, f) \in Blocks
           /\ Block(a, z, f).addr = a /\ Block(a, z, f).size = z
           /\ Block(a, z, f).is_free = f
           /\ BlockEnd(Block(a, z, f)) = a + HEADER_SIZE + z
BY DEF Block, Blocks, BlockEnd

\* A block added at the end of the heap.
LEMMA AppendTiles ==
    ASSUME NEW bs, NEW top, Tiles(bs, top), NEW b \in Blocks, b.addr = top, b.size % 8 = 0
    PROVE  /\ Tiles(Append(bs, b), BlockEnd(b))
           /\ Len(Append(bs, b)) = Len(bs) + 1
           /\ Append(bs, b)[Len(bs) + 1] = b
           /\ \A i \in 1 .. Len(bs) : Append(bs, b)[i] = bs[i]
<1> DEFINE cs == Append(bs, b)
<1>1. bs \in Seq(Blocks) /\ Len(bs) \in Nat /\ top \in Nat /\ b.addr \in Nat /\ b.size \in Nat
  BY DEF Tiles, Blocks
<1>2. /\ cs \in Seq(Blocks) /\ Len(cs) = Len(bs) + 1 /\ cs # <<>>
      /\ cs[Len(bs) + 1] = b /\ \A i \in 1 .. Len(bs) : cs[i] = bs[i]
  BY <1>1, AppendProperties
<1> HIDE DEF cs
<1>3. BlockEnd(b) \in Nat \ {0}
  BY <1>1 DEF BlockEnd, HEADER_SIZE
<1>4. top % 8 = 0
  <2>1. CASE bs = <<>>
    BY <2>1 DEF Tiles
  <2>2. CASE bs # <<>>
    <3>1. Len(bs) \in 1 .. Len(bs) /\ bs[Len(bs)] \in Blocks
      BY <1>1, <2>2
    <3>2. bs[Len(bs)].addr % 8 = 0 /\ bs[Len(bs)].size % 8 = 0 /\ BlockEnd(bs[Len(bs)]) = top
      BY <2>2, <3>1 DEF Tiles
    <3>3. \A x, y \in Nat : x % 8 = 0 /\ y % 8 = 0 => (x + 32 + y) % 8 = 0
      OBVIOUS
    <3>4. bs[Len(bs)].addr \in Nat /\ bs[Len(bs)].size \in Nat
      BY <3>1 DEF Blocks
    <3> QED BY <3>2, <3>3, <3>4 DEF BlockEnd, HEADER_SIZE
  <2> QED BY <2>1, <2>2
<1>5. \A i \in 1 .. Len(cs) : cs[i].addr % 8 = 0 /\ cs[i].size % 8 = 0
  <2> SUFFICES ASSUME NEW i \in 1 .. Len(cs) PROVE cs[i].addr % 8 = 0 /\ cs[i].size % 8 = 0
    OBVIOUS
  <2>1. CASE i = Len(bs) + 1
    BY <1>2, <1>4, <2>1
  <2>2. CASE i # Len(bs) + 1
    <3>1. i \in 1 .. Len(bs) /\ cs[i] = bs[i]
      BY <1>1, <1>2, <2>2
    <3> QED BY <3>1 DEF Tiles
  <2> QED BY <2>1, <2>2
<1>6. cs[1].addr = 0
  <2>1. CASE bs = <<>>
    BY <1>1, <1>2, <2>1 DEF Tiles
  <2>2. CASE bs # <<>>
    <3>1. 1 \in 1 .. Len(bs)
      BY <1>1, <2>2
    <3> QED BY <1>2, <2>2, <3>1 DEF Tiles
  <2> QED BY <2>1, <2>2
<1>7. \A i \in 1 .. Len(cs) - 1 : Adjoins(cs[i], cs[i + 1])
  <2> SUFFICES ASSUME NEW i \in 1 .. Len(cs) - 1 PROVE Adjoins(cs[i], cs[i + 1])
    OBVIOUS
  <2>1. CASE i = Len(bs)
    <3>1. bs # <<>> /\ cs[i] = bs[Len(bs)] /\ cs[i + 1] = b
      BY <1>1, <1>2, <2>1
    <3> QED BY <3>1 DEF Tiles, Adjoins
  <2>2. CASE i # Len(bs)
    <3>1. i \in 1 .. Len(bs) - 1 /\ cs[i] = bs[i] /\ cs[i + 1] = bs[i + 1]
      BY <1>1, <1>2, <2>2
    <3> QED BY <3>1 DEF Tiles
  <2> QED BY <2>1, <2>2
<1>8. Tiles(cs, BlockEnd(b))
  BY <1>2, <1>3, <1>5, <1>6, <1>7 DEF Tiles
<1> QED BY <1>2, <1>8 DEF cs

\* kheap_expand adds a page: it becomes the only block, and free, or part of
\* the last block, whose flag stays as it is.
LEMMA GrownTiles ==
    ASSUME Tiles(kheap_list, kheap_top)
    PROVE  /\ Tiles(Grown, kheap_top + PAGE_SIZE)
           /\ kheap_list = <<>> => /\ Len(Grown) = 1 /\ Grown[1].is_free
                                   /\ Grown[1].size = PAGE_SIZE - HEADER_SIZE
           /\ kheap_list # <<>> =>
                /\ Len(Grown) = Len(kheap_list)
                /\ \A i \in 1 .. Len(kheap_list) - 1 : Grown[i] = kheap_list[i]
                /\ Grown[Len(kheap_list)].addr = kheap_list[Len(kheap_list)].addr
                /\ Grown[Len(kheap_list)].is_free = kheap_list[Len(kheap_list)].is_free
                /\ Grown[Len(kheap_list)].size = kheap_list[Len(kheap_list)].size + PAGE_SIZE
<1> DEFINE n == Len(kheap_list)
           b == Block(kheap_top, PAGE_SIZE - HEADER_SIZE, FALSE)
           bs == Append(kheap_list, b)
           f == [b EXCEPT !.is_free = TRUE]
           cs == [bs EXCEPT ![n + 1] = f]
<1>1. /\ n \in Nat /\ kheap_top \in Nat /\ kheap_list \in Seq(Blocks)
      /\ PAGE_SIZE - HEADER_SIZE \in Nat /\ (PAGE_SIZE - HEADER_SIZE) % 8 = 0
  BY DEF Tiles, PAGE_SIZE, HEADER_SIZE
<1>2. /\ b \in Blocks /\ b.addr = kheap_top /\ b.size = PAGE_SIZE - HEADER_SIZE
      /\ BlockEnd(b) = kheap_top + HEADER_SIZE + (PAGE_SIZE - HEADER_SIZE)
  BY <1>1 DEF Block, Blocks, BlockEnd
<1>3. BlockEnd(b) = kheap_top + PAGE_SIZE
  <2> HIDE DEF b
  <2> QED BY <1>1, <1>2 DEF PAGE_SIZE, HEADER_SIZE
<1>4. f \in Blocks /\ f.addr = b.addr /\ f.size = b.size /\ f.is_free
  BY <1>2 DEF Blocks
<1>5. Grown = MergePrev(MergeNext([bs EXCEPT ![Len(bs)].is_free = TRUE], Len(bs)), Len(bs))
  BY DEF Grown, Freed
<1> HIDE DEF b
<1>6. /\ Tiles(bs, kheap_top + PAGE_SIZE) /\ Len(bs) = n + 1 /\ bs[n + 1] = b
      /\ \A i \in 1 .. n : bs[i] = kheap_list[i]
  BY <1>1, <1>2, <1>3, AppendTiles
<1> HIDE DEF bs
<1>7. [bs EXCEPT ![n + 1].is_free = TRUE] = cs
  BY <1>6
<1> HIDE DEF f
<1>8. /\ Tiles(cs, kheap_top + PAGE_SIZE) /\ Len(cs) = n + 1 /\ cs[n + 1] = f
      /\ \A i \in 1 .. n : cs[i] = kheap_list[i]
  <2>1. n + 1 \in 1 .. Len(bs) /\ f.addr = bs[n + 1].addr /\ f.size = bs[n + 1].size
    BY <1>1, <1>4, <1>6
  <2>2. /\ Tiles(cs, kheap_top + PAGE_SIZE) /\ Len(cs) = Len(bs)
        /\ \A k \in 1 .. Len(bs) : cs[k] = IF k = n + 1 THEN f ELSE bs[k]
    <3> DEFINE m == n + 1
               newtop == kheap_top + PAGE_SIZE
    <3>1. /\ Tiles(bs, newtop) /\ m \in 1 .. Len(bs)
          /\ f \in Blocks /\ f.addr = bs[m].addr /\ f.size = bs[m].size
      BY <1>4, <1>6, <2>1
    <3> HIDE DEF m, newtop
    <3>2. /\ Tiles([bs EXCEPT ![m] = f], newtop) /\ Len([bs EXCEPT ![m] = f]) = Len(bs)
          /\ \A k \in 1 .. Len(bs) : [bs EXCEPT ![m] = f][k] = IF k = m THEN f ELSE bs[k]
      BY <3>1, PatchTiles
    <3> QED BY <3>2 DEF m, newtop
  <2> QED BY <1>1, <1>6, <2>2
<1> HIDE DEF cs
<1>9. MergeNext(cs, n + 1) = cs
  BY <1>1, <1>8 DEF MergeNext
<1>10. Grown = MergePrev(cs, n + 1)
  BY <1>5, <1>6, <1>7, <1>9
<1>11. CASE kheap_list = <<>>
  <2>1. n = 0 /\ Grown = cs
    BY <1>10, <1>11 DEF MergePrev
  <2> QED BY <1>2, <1>4, <1>8, <1>11, <2>1
<1>12. CASE kheap_list # <<>>
  <2>1. n \in 1 .. Len(cs) - 1 /\ n + 1 > 1 /\ (n + 1) - 1 = n
    BY <1>1, <1>8, <1>12
  <2>2. Adjoins(cs[n], cs[n + 1])
    BY <1>8, <2>1 DEF Tiles
  <2>3. Grown = Absorb(cs, n)
    BY <1>10, <2>1, <2>2 DEF MergePrev
  <2>4. /\ Tiles(Grown, kheap_top + PAGE_SIZE) /\ Len(Grown) = Len(cs) - 1
        /\ \A k \in 1 .. n - 1 : Grown[k] = cs[k]
        /\ Grown[n].addr = cs[n].addr /\ Grown[n].is_free = cs[n].is_free
        /\ Grown[n].size = cs[n].size + cs[n + 1].size + HEADER_SIZE
    BY <1>8, <2>1, <2>3, AbsorbTiles
  <2>5. cs[n] = kheap_list[n] /\ cs[n + 1] = f /\ kheap_list[n] \in Blocks
    BY <1>1, <1>8, <2>1
  <2>6. Grown[n].size = kheap_list[n].size + PAGE_SIZE
    <3>1. kheap_list[n].size \in Nat
      BY <2>5 DEF Blocks
    <3>2. Grown[n].size = kheap_list[n].size + (PAGE_SIZE - HEADER_SIZE) + HEADER_SIZE
      BY <1>2, <1>4, <2>4, <2>5
    <3> QED BY <3>1, <3>2 DEF PAGE_SIZE, HEADER_SIZE
  <2> QED BY <1>1, <1>8, <1>12, <2>1, <2>4, <2>5, <2>6
<1> QED BY <1>11, <1>12

\* What kmalloc makes of the block it found.
Taken(bs, i) ==
    IF Splits(bs[i])
    THEN InsertAt([bs EXCEPT ![i] = Block(bs[i].addr, req, FALSE)], i + 1, Rest(bs[i]))
    ELSE [bs EXCEPT ![i].is_free = FALSE]

\* Block i becomes b with r behind it.
SplitAt(bs, i, b, r) == InsertAfter([bs EXCEPT ![i] = b], i, r)

\* The two parts of block c.
Parts(c, b, r) ==
    /\ b \in Blocks /\ r \in Blocks
    /\ b.addr = c.addr /\ BlockEnd(b) = r.addr /\ BlockEnd(r) = BlockEnd(c)
    /\ b.size % 8 = 0 /\ r.addr % 8 = 0 /\ r.size % 8 = 0

LEMMA SplitTiles ==
    ASSUME NEW bs, NEW top, Tiles(bs, top), NEW i \in 1 .. Len(bs),
           NEW b, NEW r, Parts(bs[i], b, r)
    PROVE  /\ Tiles(SplitAt(bs, i, b, r), top) /\ Len(SplitAt(bs, i, b, r)) = Len(bs) + 1
           /\ \A k \in 1 .. i - 1 : SplitAt(bs, i, b, r)[k] = bs[k]
           /\ SplitAt(bs, i, b, r)[i] = b /\ SplitAt(bs, i, b, r)[i + 1] = r
           /\ \A k \in i + 1 .. Len(bs) : SplitAt(bs, i, b, r)[k + 1] = bs[k]
<1> DEFINE ds == [bs EXCEPT ![i] = b]
           cs == InsertAfter(ds, i, r)
<1>b. /\ b \in Blocks /\ r \in Blocks
      /\ b.addr = bs[i].addr /\ BlockEnd(b) = r.addr /\ BlockEnd(r) = BlockEnd(bs[i])
  BY DEF Parts
<1>c. b.size % 8 = 0 /\ r.addr % 8 = 0 /\ r.size % 8 = 0
  BY DEF Parts
<1>0. bs \in Seq(Blocks) /\ Len(bs) \in Nat
  BY DEF Tiles
<1>1. /\ ds \in Seq(Blocks) /\ Len(ds) = Len(bs)
      /\ \A k \in 1 .. Len(bs) : ds[k] = IF k = i THEN b ELSE bs[k]
  BY <1>0, <1>b, ExceptSeq
<1>a. SplitAt(bs, i, b, r) = cs
  BY DEF SplitAt
<1> HIDE DEF ds
<1>2. /\ cs \in Seq(Blocks) /\ Len(cs) = Len(ds) + 1
      /\ \A k \in 1 .. i : cs[k] = ds[k]
      /\ cs[i + 1] = r
      /\ \A k \in i + 1 .. Len(ds) : cs[k + 1] = ds[k]
  <2>1. i \in 1 .. Len(ds)
    BY <1>1
  <2> QED BY <1>b, <1>1, <2>1, InsertAfterIs
<1> HIDE DEF cs
<1>3. ASSUME NEW k \in 1 .. i - 1 PROVE cs[k] = bs[k]
  <2>1. k \in 1 .. i /\ k \in 1 .. Len(bs) /\ k # i
    BY <1>0
  <2> QED BY <1>1, <1>2, <2>1
<1>4. cs[i] = b /\ cs[i + 1] = r
  <2>1. i \in 1 .. i
    BY <1>0
  <2> QED BY <1>1, <1>2, <2>1
<1>5. ASSUME NEW k \in i + 1 .. Len(bs) PROVE cs[k + 1] = bs[k]
  <2>1. k \in 1 .. Len(bs) /\ k # i
    BY <1>0
  <2> QED BY <1>1, <1>2, <2>1
<1>6. Len(cs) = Len(bs) + 1
  BY <1>1, <1>2
<1>7. ASSUME NEW k \in 1 .. Len(cs)
      PROVE  \/ k \in 1 .. i - 1 \/ k = i \/ k = i + 1
             \/ \E j \in i + 1 .. Len(bs) : k = j + 1
  <2>1. CASE k > i + 1
    <3>1. k - 1 \in i + 1 .. Len(bs) /\ k = (k - 1) + 1
      BY <1>0, <1>6, <2>1
    <3> QED BY <3>1
  <2>2. CASE k <= i + 1
    BY <1>0, <1>6, <2>2
  <2> QED BY <1>0, <1>6, <2>1, <2>2
<1>8. \A k \in 1 .. Len(cs) : cs[k].addr % 8 = 0 /\ cs[k].size % 8 = 0
  <2>1. \A k \in 1 .. Len(bs) : bs[k].addr % 8 = 0 /\ bs[k].size % 8 = 0
    BY DEF Tiles
  <2>2. \A k \in 1 .. i - 1 : k \in 1 .. Len(bs)
    BY <1>0
  <2>3. \A k \in i + 1 .. Len(bs) : k \in 1 .. Len(bs)
    BY <1>0
  <2> SUFFICES ASSUME NEW k \in 1 .. Len(cs) PROVE cs[k].addr % 8 = 0 /\ cs[k].size % 8 = 0
    OBVIOUS
  <2>4. CASE k \in 1 .. i - 1
    BY <1>3, <2>1, <2>2, <2>4
  <2>5. CASE k = i
    BY <1>b, <1>c, <1>4, <2>1, <2>5
  <2>6. CASE k = i + 1
    BY <1>c, <1>4, <2>6
  <2>7. CASE \E j \in i + 1 .. Len(bs) : k = j + 1
    BY <1>5, <2>1, <2>3, <2>7
  <2> QED BY <1>7, <2>4, <2>5, <2>6, <2>7
<1>9. \A k \in 1 .. Len(cs) - 1 : Adjoins(cs[k], cs[k + 1])
  <2>0. \A j \in 1 .. Len(bs) - 1 : BlockEnd(bs[j]) = bs[j + 1].addr
    BY DEF Tiles, Adjoins
  <2> SUFFICES ASSUME NEW k \in 1 .. Len(cs) - 1 PROVE BlockEnd(cs[k]) = cs[k + 1].addr
    BY DEF Adjoins
  <2>1. CASE k + 1 < i
    <3>1. k \in 1 .. i - 1 /\ k + 1 \in 1 .. i - 1 /\ k \in 1 .. Len(bs) - 1
      BY <1>0, <1>6, <2>1
    <3> QED BY <1>3, <2>0, <3>1
  <2>2. CASE k + 1 = i
    <3>1. k \in 1 .. i - 1 /\ k \in 1 .. Len(bs) - 1
      BY <1>0, <1>6, <2>2
    <3> QED BY <1>b, <1>3, <1>4, <2>0, <2>2, <3>1
  <2>3. CASE k = i
    BY <1>b, <1>4, <2>3
  <2>4. CASE k = i + 1
    <3>1. i + 1 \in i + 1 .. Len(bs) /\ i \in 1 .. Len(bs) - 1
      BY <1>0, <1>6, <2>4
    <3>2. cs[(i + 1) + 1] = bs[i + 1]
      BY <1>5, <3>1
    <3> QED BY <1>b, <1>4, <2>0, <2>4, <3>1, <3>2
  <2>5. CASE k > i + 1
    <3>1. /\ k - 1 \in i + 1 .. Len(bs) /\ k \in i + 1 .. Len(bs) /\ k - 1 \in 1 .. Len(bs) - 1
          /\ (k - 1) + 1 = k
      BY <1>0, <1>6, <2>5
    <3>2. cs[k] = bs[k - 1] /\ cs[k + 1] = bs[k]
      BY <1>5, <3>1
    <3> QED BY <2>0, <3>1, <3>2
  <2> QED BY <1>0, <1>6, <2>1, <2>2, <2>3, <2>4, <2>5
<1>10. bs # <<>> /\ cs # <<>>
  BY <1>0, <1>2, <1>6
<1>11. bs[1].addr = 0 /\ BlockEnd(bs[Len(bs)]) = top /\ top \in Nat /\ top # 0
  BY <1>10 DEF Tiles
<1>12. cs[1].addr = 0
  <2>1. CASE i = 1
    BY <1>b, <1>4, <1>11, <2>1
  <2>2. CASE i # 1
    <3>1. 1 \in 1 .. i - 1
      BY <1>0, <2>2
    <3> QED BY <1>3, <1>11, <3>1
  <2> QED BY <2>1, <2>2
<1>13. BlockEnd(cs[Len(cs)]) = top
  <2>1. CASE i = Len(bs)
    BY <1>b, <1>4, <1>6, <1>11, <2>1
  <2>2. CASE i # Len(bs)
    <3>1. Len(bs) \in i + 1 .. Len(bs)
      BY <1>0, <2>2
    <3> QED BY <1>5, <1>6, <1>11, <3>1
  <2> QED BY <2>1, <2>2
<1>14. Tiles(cs, top)
  BY <1>2, <1>8, <1>9, <1>10, <1>11, <1>12, <1>13 DEF Tiles
<1> QED BY <1>a, <1>3, <1>4, <1>5, <1>6, <1>14

LEMMA TakenTiles ==
    ASSUME NEW bs, NEW top, Tiles(bs, top), NEW i \in 1 .. Len(bs),
           req \in Nat, req % 8 = 0, bs[i].size >= req
    PROVE  /\ Tiles(Taken(bs, i), top)
           /\ \E k \in 1 .. Len(Taken(bs, i)) :
                /\ Taken(bs, i)[k].addr = bs[i].addr
                /\ Taken(bs, i)[k].size >= req /\ ~Taken(bs, i)[k].is_free
           /\ \A j \in 1 .. Len(bs) : j # i =>
                \E k \in 1 .. Len(Taken(bs, i)) : Taken(bs, i)[k] = bs[j]
<1>0. bs \in Seq(Blocks) /\ Len(bs) \in Nat /\ bs[i] \in Blocks
  BY DEF Tiles
<1>1. bs[i].addr \in Nat /\ bs[i].size \in Nat
  BY <1>0 DEF Blocks
<1>2. CASE ~Splits(bs[i])
  <2> DEFINE b == [bs[i] EXCEPT !.is_free = FALSE]
             cs == [bs EXCEPT ![i] = b]
  <2>1. Taken(bs, i) = cs
    BY <1>2 DEF Taken
  <2>2. b \in Blocks /\ b.addr = bs[i].addr /\ b.size = bs[i].size /\ ~b.is_free
    BY <1>0 DEF Blocks
  <2> HIDE DEF b
  <2>3. /\ Tiles(cs, top) /\ Len(cs) = Len(bs)
        /\ \A k \in 1 .. Len(bs) : cs[k] = IF k = i THEN b ELSE bs[k]
    BY <2>2, PatchTiles
  <2> HIDE DEF cs
  <2> QED BY <2>1, <2>2, <2>3
<1>3. CASE Splits(bs[i])
  <2> DEFINE b == Block(bs[i].addr, req, FALSE)
             r == Rest(bs[i])
             cs == SplitAt(bs, i, b, r)
  <2>1. Taken(bs, i) = cs
    BY <1>3 DEF Taken, SplitAt, InsertAfter
  <2>2. b \in Blocks /\ b.addr = bs[i].addr /\ b.size = req /\ ~b.is_free
    BY <1>1 DEF Block, Blocks
  <2>3. /\ bs[i].addr + HEADER_SIZE + req \in Nat
        /\ bs[i].size - req - HEADER_SIZE \in Nat
        /\ (bs[i].addr + HEADER_SIZE + req) % 8 = 0
        /\ (bs[i].size - req - HEADER_SIZE) % 8 = 0
    <3>1. bs[i].size >= req + 48
      BY <1>1, <1>3 DEF Splits, HEADER_SIZE, MIN_SPLIT
    <3>2. \A x, y, z \in Nat : (x % 8 = 0 /\ y % 8 = 0 /\ z % 8 = 0 /\ x >= y + 48)
             => x - y - 32 \in Nat /\ (x - y - 32) % 8 = 0 /\ (z + 32 + y) % 8 = 0
                /\ z + 32 + y \in Nat
      OBVIOUS
    <3>3. bs[i].addr % 8 = 0 /\ bs[i].size % 8 = 0
      BY DEF Tiles
    <3> QED BY <1>1, <3>1, <3>2, <3>3 DEF HEADER_SIZE
  <2>4. /\ r \in Blocks /\ r.addr = bs[i].addr + HEADER_SIZE + req
        /\ r.size = bs[i].size - req - HEADER_SIZE
    BY <2>3 DEF Rest, Block, Blocks
  <2>5. BlockEnd(b) = r.addr
    BY <2>2, <2>4 DEF BlockEnd
  <2>6. BlockEnd(r) = BlockEnd(bs[i])
    <3>1. \A x, y, z, h \in Nat : (x + h + y) + h + (z - y - h) = x + h + z
      OBVIOUS
    <3>2. BlockEnd(r) = (bs[i].addr + HEADER_SIZE + req) + HEADER_SIZE + (bs[i].size - req - HEADER_SIZE)
      BY <2>4 DEF BlockEnd
    <3>3. HEADER_SIZE \in Nat
      BY DEF HEADER_SIZE
    <3> QED BY <1>1, <3>1, <3>2, <3>3 DEF BlockEnd
  <2>7. r.addr % 8 = 0 /\ r.size % 8 = 0
    BY <2>3, <2>4
  <2> HIDE DEF b, r
  <2>8. /\ Tiles(cs, top) /\ Len(cs) = Len(bs) + 1
        /\ \A k \in 1 .. i - 1 : cs[k] = bs[k]
        /\ cs[i] = b
        /\ \A k \in i + 1 .. Len(bs) : cs[k + 1] = bs[k]
    <3>1. b.size % 8 = 0
      BY <2>2
    <3>2. Parts(bs[i], b, r)
      BY <2>2, <2>4, <2>5, <2>6, <2>7, <3>1 DEF Parts
    <3> QED BY <3>2, SplitTiles
  <2> HIDE DEF cs
  <2>9. i \in 1 .. Len(cs) /\ cs[i].addr = bs[i].addr /\ cs[i].size >= req /\ ~cs[i].is_free
    BY <1>0, <2>2, <2>8
  <2>10. ASSUME NEW j \in 1 .. Len(bs), j # i PROVE \E k \in 1 .. Len(cs) : cs[k] = bs[j]
    <3>1. CASE j < i
      <4>1. j \in 1 .. i - 1 /\ j \in 1 .. Len(cs)
        BY <1>0, <2>8, <3>1
      <4> QED BY <2>8, <4>1
    <3>2. CASE j > i
      <4>1. j \in i + 1 .. Len(bs) /\ j + 1 \in 1 .. Len(cs)
        BY <1>0, <2>8, <3>2
      <4> QED BY <2>8, <4>1
    <3> QED BY <1>0, <2>10, <3>1, <3>2
  <2> QED BY <2>1, <2>8, <2>9, <2>10
<1> QED BY <1>2, <1>3

-----------------------------------------------------------------------------
(* The list tiles the heap.                                                *)

\* A request kmalloc is working on is aligned.
ReqAligned == req \in Nat /\ req % 8 = 0

HInv ==
    /\ Tiles(kheap_list, kheap_top)
    /\ pc \in {"idle", "fit", "expand", "dead"}
    /\ pc = "fit" => ReqAligned
    /\ pc = "expand" => req = Boot \/ ReqAligned
    /\ pc \in {"fit", "expand"} => stale = {}

LEMMA AlignUpIs ==
    ASSUME NEW x \in Nat
    PROVE  AlignUp(x, 8) \in Nat /\ AlignUp(x, 8) % 8 = 0
<1>1. \A d \in Nat : (d * 8) % 8 = 0 /\ d * 8 \in Nat
  OBVIOUS
<1>2. (x + 8 - 1) \div 8 \in Nat
  OBVIOUS
<1> QED BY <1>1, <1>2 DEF AlignUp

LEMMA FreedAtTiles ==
    ASSUME NEW bs, NEW top, Tiles(bs, top), NEW a
    PROVE  Tiles(FreedAt(bs, a), top)
<1>1. Len(bs) \in Nat
  BY DEF Tiles
<1>2. CASE FreedAt(bs, a) = bs
  BY <1>2
<1>3. CASE \E i \in 1 .. Len(bs) : bs[i].addr = a /\ FreedAt(bs, a) = Freed(bs, i)
  BY <1>3, FreedTiles
<1> QED BY <1>1, <1>2, <1>3, FreedAtIs

LEMMA HInit == Init => HInv
<1> SUFFICES ASSUME Init PROVE HInv
  OBVIOUS
<1>1. kheap_list = <<>> /\ kheap_top = 0 /\ pc = "expand" /\ req = Boot /\ stale = {}
  BY DEF Init
<1>2. Tiles(<<>>, 0)
  BY DEF Tiles
<1> QED BY <1>1, <1>2 DEF HInv

\* Where kmalloc_fit and kheap_expand_page leave the list.
LEMMA TakenStep ==
    ASSUME HInv, kmalloc_fit
    PROVE  /\ first_fit \in 1 .. Len(kheap_list) /\ Fits(kheap_list[first_fit])
           /\ ReqAligned
           /\ kheap_list' = Taken(kheap_list, first_fit)
           /\ live' = live \cup {[owner |-> calls, addr |-> kheap_list[first_fit].addr, size |-> req]}
<1>1. Len(kheap_list) \in Nat
  BY DEF HInv, Tiles
<1>2. first_fit # 0 /\ pc = "fit"
  BY DEF kmalloc_fit
<1>3. first_fit \in 1 .. Len(kheap_list) /\ Fits(kheap_list[first_fit])
  BY <1>1, <1>2, FirstFitIs
<1>4. kheap_list' = Taken(kheap_list, first_fit)
  BY DEF kmalloc_fit, Taken
<1>5. live' = live \cup {[owner |-> calls, addr |-> kheap_list[first_fit].addr, size |-> req]}
  BY DEF kmalloc_fit
<1> QED BY <1>2, <1>3, <1>4, <1>5 DEF HInv

LEMMA HNext == HInv /\ [Next]_vars => HInv'
<1> SUFFICES ASSUME HInv, [Next]_vars PROVE HInv'
  OBVIOUS
<1> USE DEF HInv
<1>1. ASSUME NEW size \in Requests, kmalloc(size) PROVE HInv'
  <2>1. size \in Nat
    BY KHeapAssumption
  <2>2. AlignUp(size, 8) \in Nat /\ AlignUp(size, 8) % 8 = 0
    BY <2>1, AlignUpIs
  <2>3. req' = AlignUp(size, 8) /\ pc' = "fit" /\ stale' = {} /\ UNCHANGED <<kheap_list, kheap_top>>
    BY <1>1 DEF kmalloc
  <2> QED BY <2>2, <2>3 DEF ReqAligned
<1>2. CASE kmalloc_fit
  <2>1. /\ first_fit \in 1 .. Len(kheap_list) /\ Fits(kheap_list[first_fit])
        /\ ReqAligned /\ kheap_list' = Taken(kheap_list, first_fit)
    BY <1>2, TakenStep
  <2>2. Tiles(Taken(kheap_list, first_fit), kheap_top)
    BY <2>1, TakenTiles DEF ReqAligned, Fits
  <2>3. kheap_top' = kheap_top /\ pc' = "idle"
    BY <1>2 DEF kmalloc_fit, Return
  <2> QED BY <2>1, <2>2, <2>3
<1>3. CASE kmalloc_grow
  BY <1>3 DEF kmalloc_grow, ReqAligned
<1>4. CASE kheap_expand_page
  <2>1. CASE kheap_list' = Grown /\ kheap_top' = kheap_top + PAGE_SIZE
    <3>1. Tiles(kheap_list', kheap_top')
      BY <2>1, GrownTiles
    <3>2. CASE pgnum = 1 /\ req = Boot
      <4>1. pc' \in {"idle", "dead"}
        BY <1>4, <3>2 DEF kheap_expand_page, Return
      <4> QED BY <3>1, <4>1
    <3>3. CASE ~(pgnum = 1 /\ req = Boot)
      <4>1. /\ pc = "expand" /\ req' = req /\ stale' = stale
            /\ pc' \in {"fit", "expand", "dead"} /\ (pc' = "fit" => pgnum = 1)
        BY <1>4, <3>3 DEF kheap_expand_page
      <4> QED BY <3>1, <3>3, <4>1 DEF ReqAligned
    <3> QED BY <3>2, <3>3
  <2>2. CASE UNCHANGED <<kheap_list, kheap_top>> /\ pc' = "dead"
    BY <2>2
  <2> QED BY <1>4, <2>1, <2>2 DEF kheap_expand_page
<1>5. CASE kheap_expand_fails
  BY <1>5 DEF kheap_expand_fails, Return
<1>6. ASSUME NEW b \in live, kfree(b) PROVE HInv'
  <2>1. Tiles(FreedAt(kheap_list, b.addr), kheap_top)
    BY FreedAtTiles
  <2>2. /\ pc = "idle" /\ pc' = pc /\ kheap_top' = kheap_top
        /\ kheap_list' = FreedAt(kheap_list, b.addr)
    BY <1>6 DEF kfree
  <2> QED BY <2>1, <2>2
<1>7. ASSUME NEW b \in stale, kfree_again(b) PROVE HInv'
  <2>1. Tiles(FreedAt(kheap_list, b.addr), kheap_top)
    BY FreedAtTiles
  <2>2. /\ pc = "idle" /\ pc' = pc /\ kheap_top' = kheap_top
        /\ kheap_list' = FreedAt(kheap_list, b.addr)
    BY <1>7 DEF kfree_again
  <2> QED BY <2>1, <2>2
<1>8. CASE others_take
  BY <1>8 DEF others_take
<1>9. CASE others_return
  BY <1>9 DEF others_return
<1>10. CASE UNCHANGED vars
  BY <1>10 DEF vars, ReqAligned
<1>11. CASE Halted
  BY <1>10, <1>11 DEF Halted
<1> QED BY <1>1, <1>2, <1>3, <1>4, <1>5, <1>6, <1>7, <1>8, <1>9, <1>10, <1>11 DEF Next

LEMMA HInvTiling == HInv => Tiling
<1> SUFFICES ASSUME HInv PROVE Tiling
  OBVIOUS
<1>0. Tiles(kheap_list, kheap_top)
  BY DEF HInv
<1>1. kheap_list \in Seq(Blocks) /\ Len(kheap_list) \in Nat /\ DOMAIN kheap_list = 1 .. Len(kheap_list)
  BY <1>0 DEF Tiles
<1>2. \A i \in DOMAIN kheap_list : kheap_list[i] \in [addr : Nat, size : Nat, is_free : BOOLEAN]
  <2>1. \A i \in DOMAIN kheap_list : kheap_list[i] \in Blocks
    BY <1>1
  <2> QED BY <2>1 DEF Blocks
<1>3. \A i \in DOMAIN kheap_list : kheap_list[i].addr % 8 = 0 /\ kheap_list[i].size % 8 = 0
  BY <1>0, <1>1 DEF Tiles
<1>4. kheap_list = <<>> <=> kheap_top = 0
  BY <1>0 DEF Tiles
<1>5. kheap_list # <<>> => Head(kheap_list).addr = 0 /\ BlockEnd(Last(kheap_list)) = kheap_top
  <2> SUFFICES ASSUME kheap_list # <<>>
               PROVE  Head(kheap_list).addr = 0 /\ BlockEnd(Last(kheap_list)) = kheap_top
    OBVIOUS
  <2>1. Head(kheap_list) = kheap_list[1] /\ Last(kheap_list) = kheap_list[Len(kheap_list)]
    BY <1>1 DEF Last
  <2> QED BY <1>0, <2>1 DEF Tiles
<1>6. \A i \in 1 .. Len(kheap_list) - 1 : Adjoins(kheap_list[i], kheap_list[i + 1])
  BY <1>0 DEF Tiles
<1> QED BY <1>2, <1>3, <1>4, <1>5, <1>6 DEF Tiling

\* Any sequence of kmalloc, kfree, double kfree and kheap_expand leaves a list
\* of blocks that tiles the heap from its base to kheap_top.
THEOREM KHeapTiling == Spec => []Tiling
<1>1. Spec => []HInv
  BY HInit, HNext, PTL DEF Spec
<1> QED BY <1>1, HInvTiling, PTL

-----------------------------------------------------------------------------
(* Callers that free from the top of the heap downwards.                   *)

\* Block b of a caller is a block in use of the list bs.
Backed(bs, b) ==
    \E i \in 1 .. Len(bs) : bs[i].addr = b.addr /\ bs[i].size >= b.size /\ ~bs[i].is_free

LInv ==
    /\ \A b \in live : b.addr \in Nat /\ b.size \in Nat /\ Backed(kheap_list, b)
    /\ \A b, c \in live : b.addr = c.addr => b = c
    /\ \A b \in stale, c \in live : c.addr < b.addr

\* Addresses increase along the list.
LEMMA TilesAddr ==
    ASSUME NEW bs, NEW top, Tiles(bs, top), NEW i \in 1 .. Len(bs), NEW j \in 1 .. Len(bs)
    PROVE  /\ i < j => bs[i].addr < bs[j].addr
           /\ bs[i].addr = bs[j].addr => i = j
<1>1. \A k, l \in 1 .. Len(bs) : k < l => bs[k].addr < bs[l].addr
  <2> SUFFICES ASSUME NEW k \in 1 .. Len(bs), NEW l \in 1 .. Len(bs), k < l
               PROVE  bs[k].addr < bs[l].addr
    OBVIOUS
  <2>1. BlockEnd(bs[k]) <= bs[l].addr
    BY TilesOrdered
  <2>2. bs \in Seq(Blocks) /\ bs[k] \in Blocks /\ bs[l] \in Blocks
    BY DEF Tiles
  <2>3. bs[k].addr \in Nat /\ bs[k].size \in Nat /\ bs[l].addr \in Nat
    BY <2>2 DEF Blocks
  <2> QED BY <2>1, <2>3 DEF BlockEnd, HEADER_SIZE
<1>2. bs \in Seq(Blocks) /\ bs[i] \in Blocks /\ bs[j] \in Blocks
  BY DEF Tiles
<1>3. bs[i].addr \in Nat /\ bs[j].addr \in Nat /\ i \in Nat /\ j \in Nat
  BY <1>2 DEF Blocks
<1> QED BY <1>1, <1>3

\* kfree disturbs no block below the one it frees.
LEMMA FreedKeepsBelow ==
    ASSUME NEW bs, NEW top, Tiles(bs, top), NEW a, NEW c,
           c.addr \in Nat, c.size \in Nat, Backed(bs, c), c.addr < a
    PROVE  Backed(FreedAt(bs, a), c)
<1>1. bs \in Seq(Blocks) /\ Len(bs) \in Nat
  BY DEF Tiles
<1>2. CASE FreedAt(bs, a) = bs
  BY <1>2
<1>3. CASE \E i \in 1 .. Len(bs) : bs[i].addr = a /\ FreedAt(bs, a) = Freed(bs, i)
  <2>1. PICK i \in 1 .. Len(bs) : bs[i].addr = a /\ FreedAt(bs, a) = Freed(bs, i)
    BY <1>3
  <2>2. PICK j \in 1 .. Len(bs) : bs[j].addr = c.addr /\ bs[j].size >= c.size /\ ~bs[j].is_free
    BY DEF Backed
  <2>0. bs[i] \in Blocks /\ bs[j] \in Blocks
    BY <1>1
  <2>3. bs[i].addr \in Nat /\ bs[j].size \in Nat
    BY <2>0 DEF Blocks
  <2>4. ~(i < j) /\ i # j
    <3>1. i < j => bs[i].addr < bs[j].addr
      BY TilesAddr
    <3> QED BY <2>1, <2>2, <2>3, <3>1
  <2>5. j \in 1 .. i - 1
    BY <1>1, <2>4
  <2>6. PICK k \in 1 .. Len(Freed(bs, i)) :
          /\ Freed(bs, i)[k].addr = bs[j].addr
          /\ Freed(bs, i)[k].size >= bs[j].size
          /\ Freed(bs, i)[k].is_free = bs[j].is_free
    BY <2>5, FreedTiles
  <2>7. Freed(bs, i)[k].size \in Nat
    <3>1. Tiles(Freed(bs, i), top)
      BY FreedTiles
    <3>2. Freed(bs, i)[k] \in Blocks
      BY <3>1 DEF Tiles
    <3> QED BY <3>2 DEF Blocks
  <2>8. Freed(bs, i)[k].size >= c.size
    BY <2>2, <2>3, <2>6, <2>7
  <2> QED BY <2>1, <2>2, <2>6, <2>8 DEF Backed
<1> QED BY <1>1, <1>2, <1>3, FreedAtIs

\* kheap_expand disturbs no block.
LEMMA GrownKeeps ==
    ASSUME Tiles(kheap_list, kheap_top), NEW c, c.size \in Nat, Backed(kheap_list, c)
    PROVE  Backed(Grown, c)
<1>1. PICK j \in 1 .. Len(kheap_list) :
        kheap_list[j].addr = c.addr /\ kheap_list[j].size >= c.size /\ ~kheap_list[j].is_free
  BY DEF Backed
<1>2. kheap_list \in Seq(Blocks) /\ Len(kheap_list) \in Nat /\ kheap_list[j] \in Blocks
  BY DEF Tiles
<1>3. kheap_list # <<>> /\ kheap_list[j].size \in Nat
  BY <1>2 DEF Blocks
<1>4. /\ Len(Grown) = Len(kheap_list)
      /\ \A i \in 1 .. Len(kheap_list) - 1 : Grown[i] = kheap_list[i]
      /\ Grown[Len(kheap_list)].addr = kheap_list[Len(kheap_list)].addr
      /\ Grown[Len(kheap_list)].is_free = kheap_list[Len(kheap_list)].is_free
      /\ Grown[Len(kheap_list)].size = kheap_list[Len(kheap_list)].size + PAGE_SIZE
  BY <1>3, GrownTiles
<1>5. Grown[j].addr = c.addr /\ Grown[j].size >= c.size /\ ~Grown[j].is_free
  <2>1. CASE j = Len(kheap_list)
    BY <1>1, <1>3, <1>4, <2>1 DEF PAGE_SIZE
  <2>2. CASE j # Len(kheap_list)
    <3>1. j \in 1 .. Len(kheap_list) - 1
      BY <1>2, <2>2
    <3> QED BY <1>1, <1>4, <3>1
  <2> QED BY <2>1, <2>2
<1> QED BY <1>4, <1>5 DEF Backed

LEMMA LInit == Init => (lifo => LInv)
BY DEF Init, LInv

LEMMA LNext == HInv /\ (lifo => LInv) /\ [Next]_vars => (lifo' => LInv')
<1> SUFFICES ASSUME HInv, lifo => LInv, [Next]_vars, lifo' PROVE LInv'
  OBVIOUS
<1>0. Tiles(kheap_list, kheap_top) /\ Len(kheap_list) \in Nat
  BY DEF HInv, Tiles
<1>1. ASSUME NEW size \in Requests, kmalloc(size) PROVE LInv'
  BY <1>1 DEF kmalloc, LInv
<1>2. CASE kmalloc_fit
  <2> DEFINE i == first_fit
             n == [owner |-> calls, addr |-> kheap_list[i].addr, size |-> req]
             cs == Taken(kheap_list, i)
  <2>1. /\ i \in 1 .. Len(kheap_list) /\ Fits(kheap_list[i])
        /\ ReqAligned /\ kheap_list' = cs /\ live' = live \cup {n}
    BY <1>2, TakenStep
  <2>2. pc = "fit" /\ lifo' = lifo /\ stale' = stale
    BY <1>2 DEF kmalloc_fit
  <2>3. stale = {} /\ LInv
    BY <2>2 DEF HInv
  <2>4. kheap_list[i] \in Blocks /\ n.addr = kheap_list[i].addr /\ n.size = req
    BY <1>0, <2>1 DEF Tiles
  <2>5. kheap_list[i].addr \in Nat /\ kheap_list[i].is_free
    BY <2>1, <2>4 DEF Blocks, Fits
  <2> HIDE DEF n, i
  <2>6. /\ \E k \in 1 .. Len(cs) :
             cs[k].addr = kheap_list[i].addr /\ cs[k].size >= req /\ ~cs[k].is_free
        /\ \A j \in 1 .. Len(kheap_list) : j # i =>
             \E k \in 1 .. Len(cs) : cs[k] = kheap_list[j]
    BY <1>0, <2>1, TakenTiles DEF ReqAligned, Fits
  <2> HIDE DEF cs
  <2>7. Backed(cs, n)
    BY <2>4, <2>6 DEF Backed
  <2>8. ASSUME NEW c \in live PROVE Backed(cs, c) /\ c.addr # n.addr
    <3>1. PICK j \in 1 .. Len(kheap_list) :
            kheap_list[j].addr = c.addr /\ kheap_list[j].size >= c.size /\ ~kheap_list[j].is_free
      BY <2>3 DEF LInv, Backed
    <3>2. j # i
      BY <2>5, <3>1
    <3>3. kheap_list[j].addr # kheap_list[i].addr
      BY <1>0, <2>1, <3>2, TilesAddr
    <3>4. PICK k \in 1 .. Len(cs) : cs[k] = kheap_list[j]
      BY <2>6, <3>2
    <3> QED BY <2>4, <3>1, <3>3, <3>4 DEF Backed
  <2> QED BY <2>1, <2>2, <2>3, <2>4, <2>5, <2>7, <2>8 DEF LInv, ReqAligned
<1>3. CASE kmalloc_grow
  BY <1>3 DEF kmalloc_grow, LInv
<1>4. CASE kheap_expand_page
  <2>1. live' = live /\ stale' = stale /\ lifo' = lifo
    BY <1>4 DEF kheap_expand_page
  <2>2. LInv
    BY <2>1
  <2>3. kheap_list' = Grown \/ kheap_list' = kheap_list
    BY <1>4 DEF kheap_expand_page
  <2>4. \A b \in live : Backed(kheap_list', b)
    BY <1>0, <2>2, <2>3, GrownKeeps DEF LInv
  <2> QED BY <2>1, <2>2, <2>4 DEF LInv
<1>5. CASE kheap_expand_fails
  BY <1>5 DEF kheap_expand_fails, LInv
<1>6. ASSUME NEW b \in live, kfree(b) PROVE LInv'
  <2>1. /\ kheap_list' = FreedAt(kheap_list, b.addr) /\ live' = live \ {b}
        /\ stale' = stale \cup {b} /\ lifo /\ \A c \in live : c.addr <= b.addr
    BY <1>6 DEF kfree
  <2>2. LInv
    BY <2>1
  <2>3. ASSUME NEW c \in live' PROVE c.addr < b.addr
    <3>1. c \in live /\ c # b /\ c.addr \in Nat /\ b.addr \in Nat /\ c.addr # b.addr
      BY <2>1, <2>2 DEF LInv
    <3> QED BY <2>1, <3>1
  <2>4. ASSUME NEW c \in live' PROVE Backed(kheap_list', c)
    <3>1. c \in live /\ c.addr \in Nat /\ c.size \in Nat /\ Backed(kheap_list, c)
      BY <2>1, <2>2 DEF LInv
    <3> QED BY <1>0, <2>1, <2>3, <3>1, FreedKeepsBelow
  <2> QED BY <2>1, <2>2, <2>3, <2>4 DEF LInv
<1>7. ASSUME NEW b \in stale, kfree_again(b) PROVE LInv'
  <2>1. /\ kheap_list' = FreedAt(kheap_list, b.addr) /\ live' = live
        /\ stale' = stale /\ lifo
    BY <1>7 DEF kfree_again
  <2>2. LInv
    BY <2>1
  <2>3. ASSUME NEW c \in live PROVE Backed(kheap_list', c)
    <3>1. c.addr \in Nat /\ c.size \in Nat /\ Backed(kheap_list, c) /\ c.addr < b.addr
      BY <2>2 DEF LInv
    <3> QED BY <1>0, <2>1, <3>1, FreedKeepsBelow
  <2> QED BY <2>1, <2>2, <2>3 DEF LInv
<1>8. CASE others_take
  BY <1>8 DEF others_take, LInv
<1>9. CASE others_return
  BY <1>9 DEF others_return, LInv
<1>10. CASE UNCHANGED vars
  BY <1>10 DEF vars, LInv
<1>11. CASE Halted
  BY <1>10, <1>11 DEF Halted
<1> QED BY <1>1, <1>2, <1>3, <1>4, <1>5, <1>6, <1>7, <1>8, <1>9, <1>10, <1>11 DEF Next

\* Blocks of the list that are in use and differ share no byte with a header.
LEMMA BackedApart ==
    ASSUME HInv, LInv, NEW b \in live, NEW i \in 1 .. Len(kheap_list), kheap_list[i].addr # b.addr
    PROVE  \/ b.addr + HEADER_SIZE + b.size <= kheap_list[i].addr
           \/ BlockEnd(kheap_list[i]) <= b.addr
<1>0. Tiles(kheap_list, kheap_top) /\ kheap_list \in Seq(Blocks) /\ Len(kheap_list) \in Nat
  BY DEF HInv, Tiles
<1>1. PICK j \in 1 .. Len(kheap_list) : kheap_list[j].addr = b.addr /\ kheap_list[j].size >= b.size
  BY DEF LInv, Backed
<1>2. i # j
  BY <1>1
<1>3. kheap_list[i] \in Blocks /\ kheap_list[j] \in Blocks
  BY <1>0
<1>4. /\ kheap_list[i].addr \in Nat /\ kheap_list[j].addr \in Nat
      /\ kheap_list[j].size \in Nat /\ b.size \in Nat
  BY <1>3 DEF Blocks, LInv
<1>5. CASE i < j
  <2>1. BlockEnd(kheap_list[i]) <= kheap_list[j].addr
    BY <1>0, <1>5, TilesOrdered
  <2> QED BY <1>1, <2>1
<1>6. CASE j < i
  <2>1. BlockEnd(kheap_list[j]) <= kheap_list[i].addr
    BY <1>0, <1>6, TilesOrdered
  <2>2. PICK x, y, z, v \in Nat : /\ x = kheap_list[i].addr /\ y = b.addr
                                  /\ z = kheap_list[j].size /\ v = b.size
    BY <1>1, <1>4
  <2>3. v <= z /\ y + 32 + z <= x
    BY <1>1, <2>1, <2>2 DEF BlockEnd, HEADER_SIZE
  <2>4. y + 32 + v <= x
    BY <2>3
  <2> QED BY <2>2, <2>4 DEF HEADER_SIZE
<1> QED BY <1>0, <1>2, <1>5, <1>6

LEMMA LInvSafe == HInv /\ LInv => ~Corrupted
<1> SUFFICES ASSUME HInv, LInv PROVE ~Corrupted
  OBVIOUS
<1>0. kheap_list \in Seq(Blocks) /\ DOMAIN kheap_list = 1 .. Len(kheap_list)
  BY DEF HInv, Tiles
<1>a. \A i \in 1 .. Len(kheap_list) : kheap_list[i].addr \in Nat /\ kheap_list[i].size \in Nat
  <2> TAKE i \in 1 .. Len(kheap_list)
  <2>1. kheap_list[i] \in Blocks
    BY <1>0
  <2> QED BY <2>1 DEF Blocks
<1>1. ASSUME NEW b \in live, NEW c \in live, b # c PROVE ~Shares(b, c)
  <2>1. /\ b.addr # c.addr /\ b.addr \in Nat /\ b.size \in Nat
        /\ c.addr \in Nat /\ c.size \in Nat
    BY <1>1 DEF LInv
  <2>2. PICK i \in 1 .. Len(kheap_list) : kheap_list[i].addr = c.addr /\ kheap_list[i].size >= c.size
    BY DEF LInv, Backed
  <2>3. \/ b.addr + HEADER_SIZE + b.size <= kheap_list[i].addr
        \/ kheap_list[i].addr + HEADER_SIZE + kheap_list[i].size <= b.addr
    BY <2>1, <2>2, BackedApart DEF BlockEnd
  <2>4. kheap_list[i].addr \in Nat /\ kheap_list[i].size \in Nat
    BY <1>a, <2>2
  <2>5. \A x, y, z, w, v \in Nat : v >= z /\ (y + 32 + w <= x \/ x + 32 + v <= y)
           => ~(y < x + (32 + z) /\ x < y + (32 + w))
    OBVIOUS
  <2> QED BY <2>1, <2>2, <2>3, <2>4, <2>5 DEF Shares, Overlap, HEADER_SIZE
<1>2. ASSUME NEW i \in DOMAIN kheap_list, NEW b \in live, kheap_list[i].addr # b.addr
      PROVE  ~Overlap(kheap_list[i].addr, HEADER_SIZE, b.addr, HEADER_SIZE + b.size)
  <2>1. b.addr \in Nat /\ b.size \in Nat
    BY DEF LInv
  <2>2. i \in 1 .. Len(kheap_list)
    BY <1>0
  <2>3. \/ b.addr + HEADER_SIZE + b.size <= kheap_list[i].addr
        \/ kheap_list[i].addr + HEADER_SIZE + kheap_list[i].size <= b.addr
    BY <1>2, <2>2, BackedApart DEF BlockEnd
  <2>4. kheap_list[i].addr \in Nat /\ kheap_list[i].size \in Nat
    BY <1>a, <2>2
  <2>5. \A x, y, z, w \in Nat : (y + 32 + w <= x \/ x + 32 + z <= y)
           => ~(x < y + (32 + w) /\ y < x + 32)
    OBVIOUS
  <2> QED BY <2>1, <2>3, <2>4, <2>5 DEF Overlap, HEADER_SIZE
<1> QED BY <1>1, <1>2 DEF Corrupted

\* Callers that free only the highest block in use, as often as they like,
\* never share memory and never have a header of the list in their memory.
THEOREM KHeapLifoSafe == Spec => []LifoSafe
<1>1. HInv /\ (lifo => LInv) => LifoSafe
  BY LInvSafe DEF LifoSafe
<1>2. Spec => [](HInv /\ (lifo => LInv))
  BY HInit, HNext, LInit, LNext, PTL DEF Spec
<1> QED BY <1>1, <1>2, PTL

-----------------------------------------------------------------------------
(* When kmalloc fails.                                                     *)

LEMMA DivIs ==
    ASSUME NEW a \in Nat, NEW s \in Nat \ {0}
    PROVE  /\ a \div s \in Nat /\ a % s \in 0 .. s - 1
           /\ a = s * (a \div s) + (a % s)
<1>1. a % s \in 0 .. s - 1
  OBVIOUS
<1>2. a \div s \in Nat
  OBVIOUS
<1>3. \A x \in Nat, y \in Nat \ {0} : x = y * (x \div y) + (x % y)
  OBVIOUS
<1> QED BY <1>1, <1>2, <1>3

LEMMA DivUnique ==
    ASSUME NEW a \in Nat, NEW s \in Nat, NEW q \in Nat, NEW r \in Nat,
           r < s, a = s * q + r
    PROVE  a \div s = q /\ a % s = r
<1>1. \A x, y, u, v \in Nat : v < y /\ x = y * u + v => x \div y = u /\ x % y = v
  OBVIOUS
<1> QED BY <1>1

LEMMA TablesMappingIs ==
    ASSUME NEW p \in Nat
    PROVE  /\ TablesMapping(p) \in Nat
           /\ p = 0 => TablesMapping(p) = 0
           /\ p > 0 => TablesMapping(p) = 3 + (p - 1) \div TableSpan
           /\ p > 0 => (p - 1) \div TableSpan \in Nat
<1>1. TableSpan \in Nat \ {0}
  BY KHeapAssumption
<1>2. CASE p = 0
  BY <1>2 DEF TablesMapping
<1>3. CASE p > 0
  <2>1. p - 1 \in Nat
    BY <1>3
  <2>2. (p - 1) \div TableSpan \in Nat
    BY <1>1, <2>1, DivIs
  <2> QED BY <1>3, <2>2 DEF TablesMapping
<1> QED BY <1>2, <1>3

\* Mapping one more page takes the tables vmm_map_page allocates for it.
LEMMA TablesMappingStep ==
    ASSUME NEW p \in Nat
    PROVE  TablesMapping(p + 1) = TablesMapping(p) + Tables(p) /\ Tables(p) \in Nat
<1>1. TableSpan \in Nat \ {0}
  BY KHeapAssumption
<1>2. PICK s \in Nat \ {0} : s = TableSpan
  BY <1>1
<1>3. PICK p1 \in Nat : p1 = p + 1
  OBVIOUS
<1>4. p1 > 0 /\ p1 - 1 = p
  BY <1>3
<1>5. TablesMapping(p1) = 3 + p \div s
  BY <1>2, <1>4, TablesMappingIs
<1>6. CASE p = 0
  <2>1. 0 \div s = 0
    <3>1. \A y \in Nat : y > 0 => 0 \div y = 0
      OBVIOUS
    <3> QED BY <3>1
  <2> QED BY <1>3, <1>5, <1>6, <2>1, TablesMappingIs DEF Tables
<1>7. CASE p > 0
  <2>1. PICK m \in Nat : m = p - 1
    BY <1>7
  <2>2. TablesMapping(p) = 3 + m \div s
    BY <1>2, <1>7, <2>1, TablesMappingIs
  <2>3. PICK q \in Nat, r \in Nat : q = m \div s /\ r = m % s /\ r < s /\ m = s * q + r
    <3>1. m \div s \in Nat /\ m % s \in 0 .. s - 1 /\ m = s * (m \div s) + (m % s)
      BY DivIs
    <3>2. m % s \in Nat /\ m % s < s
      BY <3>1
    <3> QED BY <3>1, <3>2
  <2>4. CASE r = s - 1
    <3>1. s * (q + 1) = s * q + s /\ s * q \in Nat
      OBVIOUS
    <3>2. p = s * (q + 1) + 0
      BY <2>1, <2>3, <2>4, <3>1
    <3>3. PICK q1 \in Nat, z \in Nat : q1 = q + 1 /\ z = 0
      OBVIOUS
    <3>4. z < s /\ p = s * q1 + z
      BY <3>2, <3>3
    <3>5. p \div s = q1 /\ p % s = z
      BY <3>4, DivUnique
    <3>6. Tables(p) = 1
      BY <1>2, <1>7, <3>3, <3>5 DEF Tables
    <3> QED BY <1>3, <1>5, <2>2, <2>3, <3>3, <3>5, <3>6
  <2>5. CASE r # s - 1
    <3>1. s * q \in Nat
      OBVIOUS
    <3>2. PICK r1 \in Nat : r1 = r + 1
      OBVIOUS
    <3>3. r1 < s /\ p = s * q + r1 /\ r1 # 0
      BY <2>1, <2>3, <2>5, <3>1, <3>2
    <3>4. p \div s = q /\ p % s = r1
      BY <3>3, DivUnique
    <3>5. Tables(p) = 0
      BY <1>2, <1>7, <3>3, <3>4 DEF Tables
    <3> QED BY <1>3, <1>5, <2>2, <2>3, <3>4, <3>5
  <2> QED BY <2>4, <2>5
<1> QED BY <1>6, <1>7

\* Pages behind the first p need no more tables than in an empty heap.
LEMMA TablesMappingAdds ==
    ASSUME NEW p \in Nat, NEW d \in Nat, NEW n \in Nat, d <= n
    PROVE  TablesMapping(p + d) <= TablesMapping(p) + TablesMapping(n)
<1>1. TableSpan \in Nat \ {0}
  BY KHeapAssumption
<1>2. PICK s \in Nat \ {0} : s = TableSpan
  BY <1>1
<1>3. PICK e \in Nat : e = p + d
  OBVIOUS
<1>4. TablesMapping(p) \in Nat /\ TablesMapping(n) \in Nat /\ TablesMapping(e) \in Nat
  BY TablesMappingIs
<1>5. CASE d = 0
  BY <1>3, <1>4, <1>5
<1>6. CASE d > 0
  <2>1. TablesMapping(n) = 3 + (n - 1) \div s /\ (n - 1) \div s \in Nat
    BY <1>2, <1>6, TablesMappingIs
  <2>2. TablesMapping(e) = 3 + (e - 1) \div s /\ (e - 1) \div s \in Nat
    BY <1>2, <1>3, <1>6, TablesMappingIs
  <2>3. PICK k, m \in Nat : k = n - 1 /\ m = e - 1
    BY <1>3, <1>6
  <2>4. CASE p = 0
    <3>1. m <= k
      BY <1>3, <2>3, <2>4
    <3>2. \A x, y, z \in Nat : z > 0 /\ x <= y => x \div z <= y \div z
      OBVIOUS
    <3>3. m \div s <= k \div s
      BY <3>1, <3>2
    <3>4. TablesMapping(p) = 0
      BY <2>4, TablesMappingIs
    <3> QED BY <1>3, <2>1, <2>2, <2>3, <3>3, <3>4
  <2>5. CASE p > 0
    <3>1. PICK j \in Nat : j = p - 1
      BY <2>5
    <3>2. TablesMapping(p) = 3 + j \div s /\ j \div s \in Nat
      BY <1>2, <2>5, <3>1, TablesMappingIs
    <3>3. m <= j + k + 1
      BY <1>3, <2>3, <3>1
    <3>4. m \div s <= j \div s + k \div s + 1
      <4>1. PICK q1, q2, q3 \in Nat : q1 = m \div s /\ q2 = j \div s /\ q3 = k \div s
        BY <2>1, <2>2, <2>3, <3>2
      <4>2. PICK r1, r2, r3 \in Int :
              /\ r1 = m % s /\ r2 = j % s /\ r3 = k % s
              /\ r1 >= 0 /\ r2 < s /\ r3 < s
              /\ m = s * q1 + r1 /\ j = s * q2 + r2 /\ k = s * q3 + r3
        <5>1. m % s \in 0 .. s - 1 /\ m = s * (m \div s) + (m % s)
          BY DivIs
        <5>2. j % s \in 0 .. s - 1 /\ j = s * (j \div s) + (j % s)
          BY DivIs
        <5>3. k % s \in 0 .. s - 1 /\ k = s * (k \div s) + (k % s)
          BY DivIs
        <5> QED BY <4>1, <5>1, <5>2, <5>3
      <4>3. s * q1 \in Nat /\ s * q2 \in Nat /\ s * q3 \in Nat
        OBVIOUS
      <4>4. s * q1 < s * q2 + s * q3 + s + s
        BY <3>3, <4>2, <4>3
      <4>5. \A x, y, z, w \in Nat : x * y < x * z + x * w + x + x => y < z + w + 2
        <5> SUFFICES ASSUME NEW x \in Nat, NEW y \in Nat, NEW z \in Nat, NEW w \in Nat,
                            x * y < x * z + x * w + x + x, ~(y < z + w + 2)
                     PROVE  FALSE
          OBVIOUS
        <5>1. PICK v \in Nat : y = z + w + 2 + v
          <6>1. y - z - w - 2 \in Nat
            OBVIOUS
          <6> QED BY <6>1
        <5>2. x * (z + w + 2 + v) = x * z + x * w + x + x + x * v
          OBVIOUS
        <5>3. x * v \in Nat /\ x * z \in Nat /\ x * w \in Nat
          OBVIOUS
        <5> QED BY <5>1, <5>2, <5>3
      <4>6. q1 < q2 + q3 + 2
        BY <4>4, <4>5
      <4> QED BY <4>1, <4>6
    <3> QED BY <1>3, <1>4, <2>1, <2>2, <2>3, <3>1, <3>2, <3>4
  <2> QED BY <2>4, <2>5
<1> QED BY <1>5, <1>6

LEMMA PagesNeededIs ==
    ASSUME NEW x \in Nat
    PROVE  /\ PagesNeeded(x) \in Nat /\ PagesNeeded(x) > 0
           /\ x + HEADER_SIZE <= PagesNeeded(x) * PAGE_SIZE
<1>1. PICK q : q = (x + 32 + 4096 - 1) \div 4096
  OBVIOUS
<1>2. q \in Nat /\ q > 0 /\ x + 32 <= q * 4096 /\ (q * 4096) \div 4096 = q
  BY <1>1
<1>3. PagesNeeded(x) = q
  BY <1>1, <1>2 DEF PagesNeeded, AlignUp, PAGE_SIZE, HEADER_SIZE
<1> QED BY <1>2, <1>3 DEF PAGE_SIZE, HEADER_SIZE

\* The heap ends at a page border, one page further after an expansion.
LEMMA NextPage ==
    ASSUME NEW x \in Nat, x % PAGE_SIZE = 0
    PROVE  /\ (x + PAGE_SIZE) % PAGE_SIZE = 0
           /\ (x + PAGE_SIZE) \div PAGE_SIZE = x \div PAGE_SIZE + 1
           /\ x \div PAGE_SIZE \in Nat
           /\ x \div PAGE_SIZE = 0 => x = 0
BY DEF PAGE_SIZE

LastBlock == kheap_list[Len(kheap_list)]

LastInUse == kheap_list # <<>> /\ ~LastBlock.is_free

Top == kheap_top \div PAGE_SIZE

\* Pages the expansion under way has added.
Added == PagesNeeded(req) - pgnum

\* The first expansion of a call: every frame gone is a page of the free block
\* at the end of the list, or a page table.
FirstRound ==
    /\ Added <= Top
    /\ had = frames + Added + TablesMapping(Top) - TablesMapping(Top - Added)
    /\ Added > 0 => /\ kheap_list # <<>> /\ LastBlock.is_free
                    /\ LastBlock.size >= Added * PAGE_SIZE - HEADER_SIZE

GInv ==
    /\ kheap_top % PAGE_SIZE = 0
    /\ frames \in Nat /\ had \in Nat
    /\ pc = "fit" =>
         \/ LastInUse
         \/ had = frames
         \/ kheap_list # <<>> /\ Fits(LastBlock)
    /\ (pc = "expand" /\ req # Boot) =>
         /\ pgnum \in 1 .. PagesNeeded(req)
         /\ LastInUse \/ FirstRound

LEMMA GInit == Init => GInv
<1> SUFFICES ASSUME Init PROVE GInv
  OBVIOUS
<1>1. /\ kheap_top = 0 /\ pc = "expand" /\ req = Boot /\ frames \in 0 .. Frames /\ had = frames
  BY DEF Init
<1>2. frames \in Nat /\ had \in Nat
  BY <1>1, KHeapAssumption
<1>3. kheap_top % PAGE_SIZE = 0
  BY <1>1 DEF PAGE_SIZE
<1> QED BY <1>1, <1>2, <1>3 DEF GInv

\* kheap_expand leaves the last block in use if it was.
LEMMA GrownBehindUse ==
    ASSUME Tiles(kheap_list, kheap_top), LastInUse, kheap_list' = Grown
    PROVE  LastInUse'
<1>1. kheap_list # <<>> /\ ~LastBlock.is_free
  BY DEF LastInUse
<1>2. /\ Tiles(Grown, kheap_top + PAGE_SIZE)
      /\ Len(Grown) = Len(kheap_list)
      /\ Grown[Len(kheap_list)].is_free = LastBlock.is_free
  BY <1>1, GrownTiles DEF LastBlock
<1>3. Len(kheap_list) \in Nat /\ Len(kheap_list) # 0
  BY <1>1 DEF Tiles
<1>4. Grown # <<>>
  BY <1>2, <1>3
<1> QED BY <1>1, <1>2, <1>4 DEF LastInUse, LastBlock

\* A page of the first expansion.
LEMMA FirstRoundPage ==
    ASSUME HInv, GInv, FirstRound, req \in Nat, pgnum \in 1 .. PagesNeeded(req),
           frames >= 1 + Tables(Top), frames' = frames - (1 + Tables(Top)),
           kheap_list' = Grown, kheap_top' = kheap_top + PAGE_SIZE,
           pgnum' = pgnum - 1, req' = req, had' = had
    PROVE  LastInUse' \/ (FirstRound' /\ Added' > 0)
<1>1. Tiles(kheap_list, kheap_top) /\ kheap_top \in Nat /\ kheap_top % PAGE_SIZE = 0
  BY DEF HInv, GInv, Tiles
<1>2. Top' = Top + 1 /\ Top \in Nat /\ (Top = 0 => kheap_top = 0)
  BY <1>1, NextPage DEF Top
<1>3. PICK n \in Nat : n = PagesNeeded(req)
  BY PagesNeededIs
<1>4. Added' = Added + 1 /\ Added \in Nat
  <2>1. PagesNeeded(req)' = PagesNeeded(req)
    BY DEF PagesNeeded
  <2> QED BY <1>3, <2>1 DEF Added
<1>5. PICK d, t \in Nat : d = Added /\ t = Top
  BY <1>2, <1>4
<1>6. d <= t /\ had = frames + d + TablesMapping(t) - TablesMapping(t - d)
  BY <1>5 DEF FirstRound
<1>7. TablesMapping(t + 1) = TablesMapping(t) + Tables(t) /\ Tables(t) \in Nat
  BY TablesMappingStep
<1>8. PICK u \in Nat : u = t - d
  BY <1>6
<1>9. TablesMapping(t) \in Nat /\ TablesMapping(u) \in Nat /\ frames \in Nat /\ had \in Nat
  BY TablesMappingIs DEF GInv
<1>10. Top' - Added' = u
  BY <1>2, <1>4, <1>5, <1>8
<1>11. had' = frames' + Added' + TablesMapping(Top)' - TablesMapping(Top - Added)'
  <2>1. TablesMapping(Top)' = TablesMapping(t) + Tables(t)
    <3>1. PICK t1 \in Nat : t1 = t + 1
      OBVIOUS
    <3>2. TablesMapping(Top)' = TablesMapping(t1)
      BY <1>2, <1>5, <3>1 DEF TablesMapping
    <3> QED BY <1>7, <3>1, <3>2
  <2>2. TablesMapping(Top - Added)' = TablesMapping(u)
    BY <1>10 DEF TablesMapping
  <2>3. PICK x, y, z \in Nat : x = TablesMapping(t) /\ y = TablesMapping(u) /\ z = Tables(t)
    BY <1>7, <1>9
  <2>4. had = frames + d + x - y
    BY <1>6, <1>8, <2>3
  <2>5. frames' = frames - (1 + z)
    BY <1>5, <2>3
  <2>6. had' = frames' + (d + 1) + (x + z) - y
    BY <1>9, <2>4, <2>5
  <2> QED BY <1>4, <1>5, <2>1, <2>2, <2>3, <2>6
<1>12. Added' <= Top' /\ Added' > 0
  BY <1>2, <1>4, <1>5, <1>6
<1>13. CASE kheap_list = <<>>
  <2>1. /\ Tiles(Grown, kheap_top + PAGE_SIZE) /\ Len(Grown) = 1 /\ Grown[1].is_free
        /\ Grown[1].size = PAGE_SIZE - HEADER_SIZE
    BY <1>1, <1>13, GrownTiles
  <2>2. kheap_top = 0
    BY <1>1, <1>13 DEF Tiles
  <2>3. Added' = 1
    <3>1. t = 0
      BY <1>5, <2>2 DEF Top, PAGE_SIZE
    <3> QED BY <1>4, <1>5, <1>6, <3>1
  <2>4. Grown # <<>>
    BY <2>1
  <2>5. LastBlock' = Grown[1]
    BY <2>1 DEF LastBlock
  <2>6. LastBlock'.size >= Added' * PAGE_SIZE - HEADER_SIZE
    BY <2>1, <2>3, <2>5 DEF PAGE_SIZE, HEADER_SIZE
  <2> QED BY <1>11, <1>12, <2>1, <2>4, <2>5, <2>6 DEF FirstRound
<1>14. CASE kheap_list # <<>>
  <2>1. /\ Tiles(Grown, kheap_top + PAGE_SIZE)
        /\ Len(Grown) = Len(kheap_list)
        /\ Grown[Len(kheap_list)].is_free = LastBlock.is_free
        /\ Grown[Len(kheap_list)].size = LastBlock.size + PAGE_SIZE
    BY <1>1, <1>14, GrownTiles DEF LastBlock
  <2>2. Len(kheap_list) \in Nat /\ Len(kheap_list) # 0 /\ kheap_list \in Seq(Blocks)
    BY <1>1, <1>14 DEF Tiles
  <2>3. LastBlock \in Blocks
    BY <2>2 DEF LastBlock
  <2>4. LastBlock.size \in Nat
    BY <2>3 DEF Blocks
  <2>5. LastBlock' = Grown[Len(kheap_list)] /\ Grown # <<>>
    BY <2>1, <2>2 DEF LastBlock
  <2>6. CASE ~LastBlock.is_free
    <3>1. LastInUse
      BY <1>14, <2>6 DEF LastInUse
    <3> QED BY <1>1, <3>1, GrownBehindUse
  <2>7. CASE LastBlock.is_free
    <3>1. d > 0 => LastBlock.size >= d * PAGE_SIZE - HEADER_SIZE
      BY <1>5 DEF FirstRound
    <3>2. LastBlock'.size >= Added' * PAGE_SIZE - HEADER_SIZE
      <4>1. PICK z \in Nat : z = LastBlock.size
        BY <2>4
      <4>2. LastBlock'.size = z + 4096
        BY <2>1, <2>5, <4>1 DEF PAGE_SIZE
      <4>3. d > 0 => z >= d * 4096 - 32
        BY <3>1, <4>1 DEF PAGE_SIZE, HEADER_SIZE
      <4>4. z + 4096 >= (d + 1) * 4096 - 32
        BY <4>3
      <4> QED BY <1>4, <1>5, <4>2, <4>4 DEF PAGE_SIZE, HEADER_SIZE
    <3>3. LastBlock'.is_free
      BY <2>1, <2>5, <2>7
    <3> QED BY <1>11, <1>12, <2>5, <3>2, <3>3 DEF FirstRound
  <2> QED BY <2>6, <2>7
<1> QED BY <1>13, <1>14

LEMMA GExpand ==
    ASSUME HInv, GInv, kheap_expand_page
    PROVE  GInv'
<1>0. Tiles(kheap_list, kheap_top) /\ kheap_top \in Nat /\ kheap_top % PAGE_SIZE = 0
      /\ frames \in Nat /\ had \in Nat /\ pc = "expand"
  BY DEF HInv, GInv, Tiles, kheap_expand_page
<1>1. CASE frames' = 0 /\ pc' = "dead" /\ UNCHANGED <<kheap_list, kheap_top, req, pgnum, had>>
  BY <1>0, <1>1 DEF GInv
<1>2. CASE /\ frames >= 1 + Tables(Top) /\ frames' = frames - (1 + Tables(Top))
           /\ kheap_list' = Grown /\ kheap_top' = kheap_top + PAGE_SIZE
           /\ IF pgnum = 1 /\ req = Boot
              THEN Return
              ELSE /\ pgnum' = pgnum - 1
                   /\ pc' = IF pgnum = 1 THEN "fit" ELSE "expand"
                   /\ UNCHANGED <<req, had>>
  <2>1. kheap_top' % PAGE_SIZE = 0 /\ Top \in Nat
    BY <1>0, <1>2, NextPage DEF Top
  <2>2. frames' \in Nat
    <3>1. Tables(Top) \in Nat
      BY <2>1, TablesMappingStep
    <3> QED BY <1>0, <1>2, <3>1
  <2>3. CASE pgnum = 1 /\ req = Boot
    <3>1. pc' = "idle" /\ had' = 0
      BY <1>2, <2>3 DEF Return
    <3> QED BY <2>1, <2>2, <3>1 DEF GInv
  <2>4. CASE ~(pgnum = 1 /\ req = Boot)
    <3>1. /\ pgnum' = pgnum - 1 /\ req' = req /\ had' = had
          /\ pc' = IF pgnum = 1 THEN "fit" ELSE "expand"
      BY <1>2, <2>4
    <3>2. CASE req = Boot
      <4>1. pc' = "expand" /\ req' = Boot
        BY <2>4, <3>1, <3>2
      <4> QED BY <1>0, <2>1, <2>2, <3>1, <4>1 DEF GInv
    <3>3. CASE req # Boot
      <4>1. req \in Nat
        BY <1>0, <3>3 DEF HInv, ReqAligned
      <4>2. pgnum \in 1 .. PagesNeeded(req) /\ (LastInUse \/ FirstRound)
        BY <1>0, <3>3 DEF GInv
      <4>3. LastInUse' \/ (FirstRound' /\ Added' > 0)
        BY <1>0, <1>2, <3>1, <4>1, <4>2, GrownBehindUse, FirstRoundPage
      <4>4. PICK n \in Nat : n = PagesNeeded(req) /\ n > 0 /\ req + HEADER_SIZE <= n * PAGE_SIZE
        BY <4>1, PagesNeededIs
      <4>5. PagesNeeded(req)' = n
        BY <3>1, <4>4 DEF PagesNeeded
      <4>6. CASE pgnum = 1
        <5>1. pc' = "fit"
          BY <3>1, <4>6
        <5>2. CASE LastInUse'
          BY <1>0, <2>1, <2>2, <3>1, <5>1, <5>2 DEF GInv
        <5>3. CASE FirstRound' /\ Added' > 0
          <6>1. Added' = n
            BY <3>1, <4>5, <4>6 DEF Added
          <6>2. /\ kheap_list' # <<>> /\ LastBlock'.is_free
                /\ LastBlock'.size >= n * PAGE_SIZE - HEADER_SIZE
            BY <5>3, <6>1 DEF FirstRound
          <6>3. LastBlock'.size \in Nat
            <7>1. Tiles(Grown, kheap_top + PAGE_SIZE)
              BY <1>0, GrownTiles
            <7>2. kheap_list' \in Seq(Blocks) /\ Len(kheap_list') \in Nat /\ Len(kheap_list') # 0
              BY <1>2, <6>2, <7>1 DEF Tiles
            <7>3. LastBlock' \in Blocks
              BY <7>2 DEF LastBlock
            <7> QED BY <7>3 DEF Blocks
          <6>4. LastBlock'.size >= req'
            BY <3>1, <4>1, <4>4, <6>2, <6>3 DEF PAGE_SIZE, HEADER_SIZE
          <6>5. Fits(LastBlock)'
            BY <6>2, <6>4 DEF Fits
          <6> QED BY <1>0, <2>1, <2>2, <3>1, <5>1, <6>2, <6>5 DEF GInv
        <5> QED BY <4>3, <5>2, <5>3
      <4>7. CASE pgnum # 1
        <5>1. pc' = "expand"
          BY <3>1, <4>7
        <5>2. pgnum' \in 1 .. PagesNeeded(req)'
          BY <3>1, <4>2, <4>4, <4>5, <4>7
        <5> QED BY <1>0, <2>1, <2>2, <3>1, <4>3, <5>1, <5>2 DEF GInv
      <4> QED BY <4>6, <4>7
    <3> QED BY <3>2, <3>3
  <2> QED BY <2>3, <2>4
<1> QED BY <1>1, <1>2 DEF kheap_expand_page, Top

LEMMA GNext == HInv /\ GInv /\ [Next]_vars => GInv'
<1> SUFFICES ASSUME HInv, GInv, [Next]_vars PROVE GInv'
  OBVIOUS
<1>0. kheap_top % PAGE_SIZE = 0 /\ frames \in Nat /\ had \in Nat
  BY DEF GInv
<1>1. ASSUME NEW size \in Requests, kmalloc(size) PROVE GInv'
  <2>1. pc' = "fit" /\ had' = frames /\ UNCHANGED <<kheap_list, kheap_top, frames>>
    BY <1>1 DEF kmalloc
  <2> QED BY <1>0, <2>1 DEF GInv
<1>2. CASE kmalloc_fit
  <2>1. pc' = "idle" /\ had' = 0 /\ UNCHANGED <<kheap_top, frames>>
    BY <1>2 DEF kmalloc_fit, Return
  <2> QED BY <1>0, <2>1 DEF GInv
<1>3. CASE kmalloc_grow
  <2>1. /\ pc = "fit" /\ first_fit = 0 /\ pgnum' = PagesNeeded(req) /\ pc' = "expand"
        /\ UNCHANGED <<kheap_list, kheap_top, req, frames, had>>
    BY <1>3 DEF kmalloc_grow
  <2>2. req \in Nat /\ Tiles(kheap_list, kheap_top)
    BY <2>1 DEF HInv, ReqAligned
  <2>3. PICK n \in Nat : n = PagesNeeded(req) /\ n > 0
    BY <2>2, PagesNeededIs
  <2>4. PagesNeeded(req)' = n
    BY <2>1, <2>3 DEF PagesNeeded
  <2>5. pgnum' \in 1 .. PagesNeeded(req)'
    BY <2>1, <2>3, <2>4
  <2>6. ~(kheap_list # <<>> /\ Fits(LastBlock))
    <3>1. Len(kheap_list) \in Nat
      BY <2>2 DEF Tiles
    <3>2. \A i \in 1 .. Len(kheap_list) : ~Fits(kheap_list[i])
      BY <2>1, <3>1, FirstFitIs
    <3>3. kheap_list # <<>> => Len(kheap_list) \in 1 .. Len(kheap_list)
      BY <2>2, <3>1 DEF Tiles
    <3> QED BY <3>2, <3>3 DEF LastBlock
  <2>7. CASE LastInUse
    <3>1. LastInUse'
      BY <2>1, <2>7 DEF LastInUse, LastBlock
    <3> QED BY <1>0, <2>1, <2>5, <3>1 DEF GInv
  <2>8. CASE had = frames
    <3>1. Top \in Nat /\ Top' = Top
      BY <1>0, <2>1, <2>2, NextPage DEF Top, Tiles
    <3>2. Added' = 0
      BY <2>1, <2>3, <2>4 DEF Added
    <3>3. PICK t \in Nat : t = Top
      BY <3>1
    <3>4. Top' - Added' = t
      BY <3>1, <3>2, <3>3
    <3>5. TablesMapping(Top)' = TablesMapping(t) /\ TablesMapping(Top - Added)' = TablesMapping(t)
      BY <3>1, <3>3, <3>4 DEF TablesMapping
    <3>6. TablesMapping(t) \in Nat
      BY TablesMappingIs
    <3>7. had' = frames' + Added' + TablesMapping(Top)' - TablesMapping(Top - Added)'
      BY <1>0, <2>1, <2>8, <3>2, <3>5, <3>6
    <3>8. FirstRound'
      BY <3>1, <3>2, <3>7 DEF FirstRound
    <3> QED BY <1>0, <2>1, <2>5, <3>8 DEF GInv
  <2> QED BY <2>1, <2>6, <2>7, <2>8 DEF GInv
<1>4. CASE kheap_expand_page
  BY <1>4, GExpand
<1>5. CASE kheap_expand_fails
  <2>1. pc' = "idle" /\ had' = 0 /\ UNCHANGED <<kheap_top, frames>>
    BY <1>5 DEF kheap_expand_fails, Return
  <2> QED BY <1>0, <2>1 DEF GInv
<1>6. ASSUME NEW b \in live, kfree(b) PROVE GInv'
  <2>1. pc' = "idle" /\ UNCHANGED <<kheap_top, frames, had>>
    BY <1>6 DEF kfree
  <2> QED BY <1>0, <2>1 DEF GInv
<1>7. ASSUME NEW b \in stale, kfree_again(b) PROVE GInv'
  <2>1. pc' = "idle" /\ UNCHANGED <<kheap_top, frames, had>>
    BY <1>7 DEF kfree_again
  <2> QED BY <1>0, <2>1 DEF GInv
<1>8. CASE others_take
  <2>1. pc' = "idle" /\ frames > 0 /\ frames' = frames - 1 /\ UNCHANGED <<kheap_top, had>>
    BY <1>8 DEF others_take
  <2> QED BY <1>0, <2>1 DEF GInv
<1>9. CASE others_return
  <2>1. pc' = "idle" /\ frames' = frames + 1 /\ UNCHANGED <<kheap_top, had>>
    BY <1>9 DEF others_return
  <2> QED BY <1>0, <2>1 DEF GInv
<1>10. CASE UNCHANGED vars
  BY <1>10 DEF vars, GInv, LastInUse, LastBlock, FirstRound, Added, Top, Fits,
               PagesNeeded, TablesMapping
<1>11. CASE Halted
  BY <1>10, <1>11 DEF Halted
<1> QED BY <1>1, <1>2, <1>3, <1>4, <1>5, <1>6, <1>7, <1>8, <1>9, <1>10, <1>11 DEF Next

\* When the first expansion finds no frame, there were too few.
LEMMA FirstRoundFails ==
    ASSUME HInv, GInv, kheap_expand_fails, req # Boot
    PROVE  had < FramesNeeded(req) \/ ~Last(kheap_list).is_free
<1>1. pc = "expand" /\ frames = 0
  BY DEF kheap_expand_fails
<1>2. req \in Nat /\ kheap_list \in Seq(Blocks)
  BY <1>1 DEF HInv, ReqAligned, Tiles
<1>3. CASE LastInUse
  BY <1>2, <1>3 DEF LastInUse, LastBlock, Last
<1>4. CASE FirstRound
  <2>1. PICK n \in Nat : n = PagesNeeded(req)
    BY <1>2, PagesNeededIs
  <2>2. pgnum \in 1 .. n
    BY <1>1, <2>1 DEF GInv
  <2>3. PICK d \in Nat : d = Added /\ d < n
    BY <2>1, <2>2 DEF Added
  <2>4. Top \in Nat
    BY NextPage DEF HInv, GInv, Tiles, Top
  <2>5. PICK p \in Nat : p = Top - d /\ p + d = Top
    BY <1>4, <2>3, <2>4 DEF FirstRound
  <2>6. had = frames + d + TablesMapping(p + d) - TablesMapping(p)
    BY <1>4, <2>3, <2>5 DEF FirstRound
  <2>7. TablesMapping(p + d) <= TablesMapping(p) + TablesMapping(n)
    BY <2>3, TablesMappingAdds
  <2>8. TablesMapping(p) \in Nat /\ TablesMapping(n) \in Nat /\ TablesMapping(Top) \in Nat
    BY <2>4, TablesMappingIs
  <2>9. FramesNeeded(req) = n + TablesMapping(n)
    BY <2>1 DEF FramesNeeded
  <2> QED BY <1>1, <2>3, <2>5, <2>6, <2>7, <2>8, <2>9
<1> QED BY <1>1, <1>3, <1>4 DEF GInv

\* A kmalloc that fails had fewer frames than its pages and their page tables
\* may take, or the last block of the list was in use and took the new pages.
THEOREM KHeapFailsOnlyBehindUse == Spec => FailsOnlyBehindUse
<1>1. Spec => [](HInv /\ GInv)
  BY HInit, HNext, GInit, GNext, PTL DEF Spec
<1>2. HInv /\ GInv /\ [Next]_vars =>
        [(kheap_expand_fails /\ req # Boot) =>
           had < FramesNeeded(req) \/ ~Last(kheap_list).is_free]_vars
  BY FirstRoundFails
<1> QED BY <1>1, <1>2, PTL DEF Spec, FailsOnlyBehindUse
=============================================================================
