--------------------------- MODULE KeyboardProofs ---------------------------
(***************************************************************************)
(* Proofs about the keyboard driver, for rings of every size and any       *)
(* number of key presses: types, NothingLost, and that the ring implements *)
(* the bounded queue of KeyQueue.                                          *)
(*                                                                         *)
(* The inductive invariant adds to the properties that the ring is empty   *)
(* until the handler is registered, so that the reset in init_keyboard     *)
(* throws nothing away, and that the slots between the pointers hold       *)
(* characters.  Everything else is arithmetic of the two pointers modulo   *)
(* KBUF_SIZE, in the four lemmas about RingContents.                       *)
(***************************************************************************)
EXTENDS Keyboard, SequenceTheorems, TLAPS

\* Nothing is stored before the handler is registered.
EmptyAtBoot == boot # "ready" => r_ptr = w_ptr

\* The slots between the pointers hold characters, never None.
HoldsChars == Contents \in Seq(Chars)

\* The inductive invariant.
IInv ==
    /\ TypeOK
    /\ EmptyAtBoot
    /\ HoldsChars
    /\ NothingLost

-----------------------------------------------------------------------------
(* The arithmetic of the pointers, without the remainder.                  *)

Succ(i) == IF i = KBUF_SIZE - 1 THEN 0 ELSE i + 1

Dist(r, w) == IF w >= r THEN w - r ELSE w - r + KBUF_SIZE

At(r, k) == IF r + k - 1 < KBUF_SIZE THEN r + k - 1 ELSE r + k - 1 - KBUF_SIZE

\* The slot after i.
LEMMA NextSlotIsSucc ==
    ASSUME NEW i \in Slots
    PROVE  NextSlot(i) = Succ(i) /\ NextSlot(i) \in Slots
BY KeyboardAssumption DEF NextSlot, Slots, Succ

\* The number of characters between two pointers.
LEMMA CountIsDist ==
    ASSUME NEW r \in Slots, NEW w \in Slots
    PROVE  (w - r) % KBUF_SIZE = Dist(r, w) /\ Dist(r, w) \in Slots
BY KeyboardAssumption DEF Slots, Dist

\* The k-th slot from a pointer.
LEMMA SlotIsAt ==
    ASSUME NEW r \in Slots, NEW k \in 1 .. KBUF_SIZE
    PROVE  (r + k - 1) % KBUF_SIZE = At(r, k) /\ At(r, k) \in Slots
BY KeyboardAssumption DEF Slots, At

-----------------------------------------------------------------------------
(* The ring as a sequence.                                                 *)

\* The contents of a ring form a sequence as long as the pointers say.
LEMMA RingIsSeq ==
    ASSUME NEW S, NEW b \in [Slots -> S], NEW r \in Slots, NEW w \in Slots
    PROVE  /\ RingContents(b, r, w) \in Seq(S)
           /\ Len(RingContents(b, r, w)) = Dist(r, w)
           /\ \A k \in 1 .. Dist(r, w) : RingContents(b, r, w)[k] = b[At(r, k)]
<1>1. (w - r) % KBUF_SIZE = Dist(r, w) /\ Dist(r, w) \in Nat /\ Dist(r, w) < KBUF_SIZE
  <2>1. (w - r) % KBUF_SIZE = Dist(r, w) /\ Dist(r, w) \in Slots
    BY CountIsDist
  <2> QED BY <2>1, KeyboardAssumption DEF Slots
<1>2. ASSUME NEW k \in 1 .. Dist(r, w)
      PROVE  (r + k - 1) % KBUF_SIZE = At(r, k) /\ b[At(r, k)] \in S
  <2>1. k \in 1 .. KBUF_SIZE
    BY <1>1, KeyboardAssumption
  <2>2. (r + k - 1) % KBUF_SIZE = At(r, k) /\ At(r, k) \in Slots
    BY <2>1, SlotIsAt
  <2> QED BY <2>2
<1>3. RingContents(b, r, w) = [k \in 1 .. Dist(r, w) |-> b[At(r, k)]]
  BY <1>1, <1>2 DEF RingContents
<1> QED BY <1>1, <1>2, <1>3

\* The ring is empty exactly when the pointers meet.
LEMMA RingEmpty ==
    ASSUME NEW S, NEW b \in [Slots -> S], NEW r \in Slots, NEW w \in Slots
    PROVE  RingContents(b, r, w) = <<>> <=> r = w
<1> DEFINE s == RingContents(b, r, w)
<1>1. s \in Seq(S) /\ Len(s) = Dist(r, w)
  BY RingIsSeq
<1>2. Dist(r, w) = 0 <=> r = w
  BY KeyboardAssumption DEF Slots, Dist
<1> HIDE DEF s
<1>3. s = <<>> <=> Len(s) = 0
  BY <1>1, EmptySeq
<1> QED BY <1>1, <1>2, <1>3 DEF s

\* The handler's test for a full ring is that all slots but one are taken.
LEMMA RingFull ==
    ASSUME NEW S, NEW b \in [Slots -> S], NEW r \in Slots, NEW w \in Slots
    PROVE  Len(RingContents(b, r, w)) = KBUF_SIZE - 1 <=> NextSlot(w) = r
<1>1. Len(RingContents(b, r, w)) = Dist(r, w)
  BY RingIsSeq
<1>2. Dist(r, w) = KBUF_SIZE - 1 <=> Succ(w) = r
  BY KeyboardAssumption DEF Slots, Dist, Succ
<1> QED BY <1>1, <1>2, NextSlotIsSucc

\* Storing at the write pointer appends.
LEMMA RingPut ==
    ASSUME NEW S, NEW b \in [Slots -> S], NEW r \in Slots, NEW w \in Slots,
           NEW c \in S, NextSlot(w) # r
    PROVE  RingContents([b EXCEPT ![w] = c], r, NextSlot(w)) =
             Append(RingContents(b, r, w), c)
<1>0. PICK d \in [Slots -> S] : d = [b EXCEPT ![w] = c]
  OBVIOUS
<1> DEFINE n == Dist(r, w)
           s == RingContents(b, r, w)
           t == RingContents(d, r, Succ(w))
<1>1. Succ(w) \in Slots /\ NextSlot(w) = Succ(w) /\ Succ(w) # r
  BY NextSlotIsSucc
<1>2. Dist(r, Succ(w)) = n + 1 /\ n \in Nat /\ n + 1 < KBUF_SIZE
  BY <1>1, KeyboardAssumption DEF Slots, Dist, Succ
<1>3. s \in Seq(S) /\ Len(s) = n /\ \A k \in 1 .. n : s[k] = b[At(r, k)]
  BY RingIsSeq, ZenonT(60)
<1>4. \A v \in Slots : /\ RingContents(d, r, v) \in Seq(S)
                       /\ Len(RingContents(d, r, v)) = Dist(r, v)
                       /\ \A k \in 1 .. Dist(r, v) : RingContents(d, r, v)[k] = d[At(r, k)]
  BY RingIsSeq
<1>5. t \in Seq(S) /\ Len(t) = n + 1 /\ \A k \in 1 .. n + 1 : t[k] = d[At(r, k)]
  <2>1. /\ t \in Seq(S)
        /\ Len(t) = Dist(r, Succ(w))
        /\ \A k \in 1 .. Dist(r, Succ(w)) : t[k] = d[At(r, k)]
    BY <1>1, <1>4
  <2> HIDE DEF t, n
  <2> QED BY <2>1, <1>2
<1>6. At(r, n + 1) = w
  BY KeyboardAssumption DEF Slots, Dist, At
<1>7. \A k \in 1 .. n : At(r, k) # w /\ At(r, k) \in Slots
  BY <1>2, KeyboardAssumption DEF Slots, Dist, At
<1> HIDE DEF s, t, n
<1>8. Append(s, c) \in Seq(S) /\ Len(Append(s, c)) = n + 1
  BY <1>3, AppendProperties
<1>9. ASSUME NEW k \in 1 .. n + 1
      PROVE  t[k] = Append(s, c)[k]
  <2>1. CASE k = n + 1
    <3>1. Append(s, c)[n + 1] = c
      BY <1>3, AppendProperties
    <3> QED BY <1>0, <3>1, <1>2, <1>5, <1>6, <2>1
  <2>2. CASE k # n + 1
    <3>1. k \in 1 .. n
      BY <2>2, <1>2
    <3>2. Append(s, c)[k] = s[k]
      BY <3>1, <1>3, AppendProperties
    <3> QED BY <1>0, <3>1, <3>2, <1>2, <1>3, <1>5, <1>7
  <2> QED BY <2>1, <2>2
<1>10. t = Append(s, c)
  BY <1>5, <1>8, <1>9, SeqEqual
<1> QED BY <1>0, <1>1, <1>10 DEF s, t

\* Reading at the read pointer takes the head.
LEMMA RingGet ==
    ASSUME NEW S, NEW b \in [Slots -> S], NEW r \in Slots, NEW w \in Slots, r # w
    PROVE  /\ RingContents(b, r, w) # <<>>
           /\ Head(RingContents(b, r, w)) = b[r]
           /\ RingContents(b, NextSlot(r), w) = Tail(RingContents(b, r, w))
<1> DEFINE n == Dist(r, w)
           s == RingContents(b, r, w)
           t == RingContents(b, Succ(r), w)
<1>1. Succ(r) \in Slots /\ NextSlot(r) = Succ(r)
  BY NextSlotIsSucc
<1>2. Dist(Succ(r), w) = n - 1 /\ n \in Nat /\ n > 0 /\ n < KBUF_SIZE
  BY KeyboardAssumption DEF Slots, Dist, Succ
<1>3. s \in Seq(S) /\ Len(s) = n /\ \A k \in 1 .. n : s[k] = b[At(r, k)]
  BY RingIsSeq
<1>4. t \in Seq(S) /\ Len(t) = n - 1 /\ \A k \in 1 .. n - 1 : t[k] = b[At(Succ(r), k)]
  <2>1. /\ t \in Seq(S)
        /\ Len(t) = Dist(Succ(r), w)
        /\ \A k \in 1 .. Dist(Succ(r), w) : t[k] = b[At(Succ(r), k)]
    BY <1>1, RingIsSeq, ZenonT(60)
  <2> QED BY <2>1, <1>2
<1>5. At(r, 1) = r
  BY KeyboardAssumption DEF Slots, At
<1>6. \A k \in 1 .. n - 1 : At(Succ(r), k) = At(r, k + 1)
  BY <1>2, KeyboardAssumption DEF Slots, At, Succ
<1> HIDE DEF s, t, n
<1>7. s # <<>> /\ Head(s) = b[r]
  <2>1. s # <<>>
    BY <1>2, <1>3, EmptySeq
  <2>2. Head(s) = s[1]
    BY <2>1, <1>3, HeadTailProperties
  <2> QED BY <2>1, <2>2, <1>2, <1>3, <1>5
<1>8. Tail(s) \in Seq(S) /\ Len(Tail(s)) = n - 1 /\ \A k \in 1 .. n - 1 : Tail(s)[k] = s[k + 1]
  BY <1>3, <1>7, HeadTailProperties
<1>9. ASSUME NEW k \in 1 .. n - 1
      PROVE  t[k] = Tail(s)[k]
  <2>1. k + 1 \in 1 .. n
    BY <1>2
  <2> QED BY <2>1, <1>3, <1>4, <1>6, <1>8
<1>10. t = Tail(s)
  BY <1>4, <1>8, <1>9, SeqEqual
<1> QED BY <1>1, <1>7, <1>10 DEF s, t
-----------------------------------------------------------------------------
(* The inductive invariant.                                                *)

\* The state after boot is an empty ring with nothing typed.
LEMMA InitIInv == Init => IInv
<1> SUFFICES ASSUME Init PROVE IInv
  OBVIOUS
<1>1. TypeOK
  <2>1. 0 \in Slots
    BY KeyboardAssumption DEF Slots
  <2>2. kbuf \in [Slots -> Chars \cup {None}]
    BY DEF Init
  <2> QED BY <2>1, <2>2 DEF Init, TypeOK
<1>2. EmptyAtBoot
  BY DEF Init, EmptyAtBoot
<1>3. Contents = <<>>
  BY <1>1, RingEmpty DEF Init, Contents, TypeOK
<1>4. HoldsChars /\ NothingLost
  BY <1>3 DEF Init, HoldsChars, NothingLost
<1> QED BY <1>1, <1>2, <1>4 DEF IInv

\* Steps that leave the ring and the histories alone keep what is said of them.
LEMMA RingUnchanged ==
    ASSUME HoldsChars, NothingLost, UNCHANGED <<ring, typed, got, overrun>>
    PROVE  HoldsChars' /\ NothingLost' /\ Contents' = Contents
<1>1. Contents' = Contents
  BY DEF Contents, ring
<1> QED BY <1>1 DEF HoldsChars, NothingLost

\* What a stored character does to the contents.
LEMMA StoreAppends ==
    ASSUME TypeOK, HoldsChars, NEW c \in Chars, ~Full, Store(c)
    PROVE  /\ Contents' = Append(Contents, c)
           /\ Contents' \in Seq(Chars)
           /\ kbuf' \in [Slots -> Chars \cup {None}]
           /\ w_ptr' \in Slots
           /\ r_ptr' \in Slots
<1>0. /\ kbuf \in [Slots -> Chars \cup {None}] /\ r_ptr \in Slots /\ w_ptr \in Slots
      /\ NextSlot(w_ptr) # r_ptr /\ c \in Chars \cup {None}
  BY DEF TypeOK, Full
<1>1. Contents' = Append(Contents, c)
  <2>1. RingContents([kbuf EXCEPT ![w_ptr] = c], r_ptr, NextSlot(w_ptr)) =
          Append(RingContents(kbuf, r_ptr, w_ptr), c)
    BY <1>0, RingPut
  <2> QED BY <2>1 DEF Store, Contents
<1>2. Contents' \in Seq(Chars)
  BY <1>1, AppendProperties DEF HoldsChars
<1> QED BY <1>1, <1>2, NextSlotIsSucc DEF TypeOK, Store

\* What a character that is read does to the contents.
LEMMA GetTakesHead ==
    ASSUME TypeOK, HoldsChars, keyboard_get_char, r_ptr # w_ptr
    PROVE  /\ Contents # <<>>
           /\ answer' = Head(Contents)
           /\ Contents' = Tail(Contents)
           /\ Contents' \in Seq(Chars)
           /\ kbuf[r_ptr] = Head(Contents)
           /\ kbuf[r_ptr] \in Chars
<1>1. /\ answer' = kbuf[r_ptr]
      /\ r_ptr' = NextSlot(r_ptr)
      /\ kbuf' = kbuf
      /\ w_ptr' = w_ptr
  BY DEF keyboard_get_char, Taken
<1>2. /\ Contents # <<>>
      /\ Head(Contents) = kbuf[r_ptr]
      /\ Contents' = Tail(Contents)
  BY <1>1, RingGet DEF TypeOK, Contents
<1>3. Head(Contents) \in Chars /\ Tail(Contents) \in Seq(Chars)
  BY <1>2, HeadTailProperties DEF HoldsChars
<1> QED BY <1>1, <1>2, <1>3

\* Appending to the second of two sequences appends to their concatenation.
LEMMA ConcatAppend ==
    ASSUME NEW S, NEW s \in Seq(S), NEW t \in Seq(S), NEW e \in S
    PROVE  s \o Append(t, e) = Append(s \o t, e)
<1>1. s \o t \in Seq(S) /\ <<e>> \in Seq(S)
  BY ConcatProperties
<1>2. Append(t, e) = t \o <<e>> /\ Append(s \o t, e) = (s \o t) \o <<e>>
  BY <1>1, AppendIsConcat
<1>3. (s \o t) \o <<e>> = s \o (t \o <<e>>)
  BY <1>1, ConcatAssociative
<1> QED BY <1>2, <1>3

\* Moving the head of one sequence to the end of another keeps the whole.
LEMMA ConcatMove ==
    ASSUME NEW S, NEW s \in Seq(S), NEW t \in Seq(S), t # <<>>
    PROVE  Append(s, Head(t)) \o Tail(t) = s \o t
<1>1. Head(t) \in S /\ Tail(t) \in Seq(S) /\ <<Head(t)>> \in Seq(S)
  BY HeadTailProperties
<1>2. t = <<Head(t)>> \o Tail(t)
  BY <1>1, HeadTailProperties, ConcatProperties, SeqEqual
<1>3. Append(s, Head(t)) = s \o <<Head(t)>>
  BY <1>1, AppendIsConcat
<1>4. (s \o <<Head(t)>>) \o Tail(t) = s \o (<<Head(t)>> \o Tail(t))
  BY <1>1, ConcatAssociative
<1> QED BY <1>2, <1>3, <1>4

\* Every step keeps the invariant.
LEMMA NextIInv == IInv /\ [Next]_vars => IInv'
<1> SUFFICES ASSUME IInv, [Next]_vars PROVE IInv'
  OBVIOUS
<1> USE DEF IInv
<1>1. ASSUME NEW code \in Codes, press(code) PROVE IInv'
  <2>1. TypeOK' /\ EmptyAtBoot'
    BY <1>1, AppendProperties DEF TypeOK, EmptyAtBoot, press, ring
  <2> QED BY <2>1, <1>1, RingUnchanged DEF press
<1>2. CASE controller
  <2>1. Head(wire) \in Codes /\ Tail(wire) \in Seq(Codes)
    BY <1>2, HeadTailProperties DEF TypeOK, controller
  <2>2. TypeOK' /\ EmptyAtBoot'
    BY <1>2, <2>1 DEF TypeOK, EmptyAtBoot, controller, ring
  <2> QED BY <2>2, <1>2, RingUnchanged DEF controller
<1>3. CASE unhandled_irq
  <2>1. TypeOK' /\ EmptyAtBoot'
    BY <1>3 DEF TypeOK, EmptyAtBoot, unhandled_irq, ring
  <2> QED BY <2>1, <1>3, RingUnchanged DEF unhandled_irq
<1>4. CASE init_keyboard_register
  <2>1. TypeOK' /\ EmptyAtBoot'
    BY <1>4 DEF TypeOK, EmptyAtBoot, init_keyboard_register, ring, device
  <2> QED BY <2>1, <1>4, RingUnchanged DEF init_keyboard_register
<1>5. CASE init_keyboard_reset
  <2>1. TypeOK' /\ EmptyAtBoot'
    BY <1>5, KeyboardAssumption DEF TypeOK, EmptyAtBoot, init_keyboard_reset, device, Slots
  <2>2. Contents = <<>> /\ Contents' = <<>>
    <3>1. Contents = <<>>
      BY <1>5, RingEmpty DEF TypeOK, EmptyAtBoot, init_keyboard_reset, Contents
    <3>2. /\ kbuf' \in [Slots -> Chars \cup {None}] /\ r_ptr' \in Slots /\ w_ptr' \in Slots
          /\ r_ptr' = w_ptr'
      BY <1>5, <2>1 DEF TypeOK, init_keyboard_reset
    <3>3. RingContents(kbuf', r_ptr', w_ptr') = <<>>
      BY <3>2, RingEmpty
    <3> QED BY <3>1, <3>3 DEF Contents
  <2> QED BY <2>1, <2>2, <1>5 DEF HoldsChars, NothingLost, init_keyboard_reset
<1>6. CASE keyboard_handler
  <2>1. boot = "ready" /\ boot' = boot /\ got' = got
    BY <1>6 DEF keyboard_handler, Registered
  <2>2. CASE port \notin Keys
    <3>1. handle_control(port)
      BY <1>6, <2>2 DEF keyboard_handler
    <3>2. g_shift' \in BOOLEAN
      BY <3>1 DEF handle_control, TypeOK
    <3>3. TypeOK' /\ EmptyAtBoot'
      BY <1>6, <2>1, <3>1, <3>2
      DEF TypeOK, EmptyAtBoot, keyboard_handler, handle_control, ring
    <3> QED BY <3>1, <3>3, <2>1, RingUnchanged DEF handle_control
  <2>3. CASE port \in Keys
    <3>1. handle_key(port)
      BY <1>6, <2>3 DEF keyboard_handler
    <3>2. Kmap(port) \in Chars
      BY <2>3 DEF Kmap, Chars, TypeOK
    <3>3. typed' = Append(typed, Kmap(port)) /\ typed' \in Seq(Chars)
      BY <3>1, <3>2, AppendProperties DEF handle_key, TypeOK
    <3>4. /\ overrun' = (overrun \/ Len(Contents) = KBUF_SIZE - 1)
          /\ overrun' \in BOOLEAN
      BY <3>1 DEF handle_key, TypeOK
    <3>5. Full <=> Len(Contents) = KBUF_SIZE - 1
      BY RingFull DEF Full, Contents, TypeOK
    <3>6. CASE Full
      <4>1. UNCHANGED ring
        BY <3>1, <3>6 DEF handle_key
      <4>2. TypeOK' /\ EmptyAtBoot'
        BY <1>6, <2>1, <3>1, <3>3, <3>4, <4>1
        DEF TypeOK, EmptyAtBoot, keyboard_handler, handle_key, ring
      <4>3. HoldsChars'
        BY <4>1 DEF HoldsChars, Contents, ring
      <4>4. NothingLost'
        BY <3>4, <3>5, <3>6 DEF NothingLost
      <4> QED BY <4>2, <4>3, <4>4
    <3>7. CASE ~Full
      <4>1. Store(Kmap(port))
        BY <3>1, <3>7 DEF handle_key
      <4>2. /\ Contents' = Append(Contents, Kmap(port))
            /\ Contents' \in Seq(Chars)
            /\ kbuf' \in [Slots -> Chars \cup {None}]
            /\ w_ptr' \in Slots
            /\ r_ptr' \in Slots
        BY <3>2, <3>7, <4>1, StoreAppends
      <4>3. TypeOK' /\ EmptyAtBoot'
        BY <1>6, <2>1, <3>1, <3>3, <3>4, <4>2
        DEF TypeOK, EmptyAtBoot, keyboard_handler, handle_key
      <4>4. got \o Contents' = Append(got \o Contents, Kmap(port))
        BY <3>2, <4>2, ConcatAppend DEF TypeOK, HoldsChars
      <4>5. NothingLost'
        BY <2>1, <3>3, <3>4, <4>4 DEF NothingLost
      <4> QED BY <4>2, <4>3, <4>5 DEF HoldsChars
    <3> QED BY <3>6, <3>7
  <2> QED BY <2>2, <2>3
<1>7. CASE keyboard_get_char
  <2>1. CASE r_ptr = w_ptr
    <3>1. UNCHANGED <<ring, typed, got, overrun>>
      BY <1>7, <2>1 DEF keyboard_get_char
    <3>2. TypeOK' /\ EmptyAtBoot'
      BY <1>7, <2>1, <3>1 DEF TypeOK, EmptyAtBoot, keyboard_get_char, ring, device
    <3> QED BY <3>1, <3>2, RingUnchanged
  <2>2. CASE r_ptr # w_ptr
    <3>1. /\ Contents # <<>>
          /\ answer' = Head(Contents)
          /\ Contents' = Tail(Contents)
          /\ Contents' \in Seq(Chars)
          /\ kbuf[r_ptr] = Head(Contents)
          /\ kbuf[r_ptr] \in Chars
      BY <1>7, <2>2, GetTakesHead
    <3>2. got' = Append(got, Head(Contents)) /\ got' \in Seq(Chars)
      <4>1. got' = Append(got, kbuf[r_ptr]) /\ got \in Seq(Chars)
        BY <1>7, <2>2 DEF keyboard_get_char, TypeOK
      <4>2. Append(got, kbuf[r_ptr]) \in Seq(Chars)
        BY <4>1, <3>1, AppendProperties
      <4> QED BY <4>1, <4>2, <3>1
    <3>3. r_ptr' \in Slots
      BY <1>7, <2>2, NextSlotIsSucc DEF keyboard_get_char, Taken, TypeOK
    <3>4. TypeOK' /\ EmptyAtBoot'
      BY <1>7, <2>2, <3>1, <3>2, <3>3
      DEF TypeOK, EmptyAtBoot, keyboard_get_char, device
    <3>5. got' \o Contents' = got \o Contents
      BY <3>1, <3>2, ConcatMove DEF TypeOK, HoldsChars
    <3>6. NothingLost'
      BY <1>7, <3>5 DEF NothingLost, keyboard_get_char
    <3> QED BY <3>1, <3>4, <3>6 DEF HoldsChars
  <2> QED BY <2>1, <2>2
<1>8. CASE UNCHANGED vars
  <2>1. TypeOK' /\ EmptyAtBoot'
    BY <1>8 DEF TypeOK, EmptyAtBoot, vars
  <2> QED BY <2>1, <1>8, RingUnchanged DEF vars, ring
<1> QED
  BY <1>1, <1>2, <1>3, <1>4, <1>5, <1>6, <1>7, <1>8 DEF Next

-----------------------------------------------------------------------------
(* The theorems.                                                           *)

\* The invariant holds in every reachable state of the driver.
THEOREM KeyboardInvariant == Spec => []IInv
BY InitIInv, NextIInv, PTL DEF Spec

\* Types, for a ring of any size: keyboard.c never indexes outside kbuf.
THEOREM KeyboardTypeCorrect == Spec => []TypeOK
<1>1. IInv => TypeOK
  BY DEF IInv
<1> QED BY <1>1, KeyboardInvariant, PTL

\* For a ring of any size, what was read followed by what waits is what was
\* typed, unless a key found the ring full: handler and reader, interrupted
\* anywhere, lose no character and keep the order.
THEOREM KeyboardNothingLost == Spec => []NothingLost
<1>1. IInv => NothingLost
  BY DEF IInv
<1> QED BY <1>1, KeyboardInvariant, PTL

\* The ring with its two pointers implements a first-in first-out queue of
\* KBUF_SIZE - 1 characters, overrun or not.
THEOREM KeyboardImplementsKeyQueue == Spec => ImplementsKeyQueue
<1>1. Init => Queue!QInit
  <2>1. ASSUME Init PROVE Contents = <<>>
    BY <2>1, InitIInv, RingEmpty DEF IInv, TypeOK, Init, Contents
  <2> QED BY <2>1 DEF Init, Queue!QInit
<1>2. IInv /\ [Next]_vars => [Queue!QNext]_(Queue!qvars)
  <2> SUFFICES ASSUME IInv, [Next]_vars
               PROVE  Queue!QNext \/ UNCHANGED Queue!qvars
    BY DEF Queue!qvars
  <2>1. TypeOK /\ HoldsChars /\ EmptyAtBoot /\ Len(Contents) \in Nat
    BY LenProperties DEF IInv, HoldsChars
  <2>2. CASE UNCHANGED <<ring, answer>>
    BY <2>2 DEF Queue!qvars, Contents, ring
  <2>3. CASE init_keyboard_reset
    <3>1. Contents = <<>>
      BY <2>1, <2>3, RingEmpty DEF TypeOK, EmptyAtBoot, init_keyboard_reset, Contents
    <3>2. TypeOK' /\ r_ptr' = w_ptr'
      BY <2>3, NextIInv DEF IInv, init_keyboard_reset
    <3>3. Contents' = <<>>
      BY <3>2, RingEmpty DEF TypeOK, Contents
    <3> QED BY <2>3, <3>1, <3>3 DEF Queue!qvars, init_keyboard_reset
  <2>4. CASE keyboard_handler /\ port \in Keys /\ ~Full
    <3>1. Store(Kmap(port)) /\ UNCHANGED answer
      BY <2>4 DEF keyboard_handler, handle_key
    <3>2. Kmap(port) \in Chars
      BY <2>1, <2>4 DEF Kmap, Chars, TypeOK
    <3>3. Contents' = Append(Contents, Kmap(port))
      BY <2>1, <2>4, <3>1, <3>2, StoreAppends
    <3>4. Len(Contents) < KBUF_SIZE - 1
      <4>1. Len(Contents) # KBUF_SIZE - 1
        BY <2>1, <2>4, RingFull DEF Full, Contents, TypeOK
      <4>2. Len(Contents) = Dist(r_ptr, w_ptr)
        <5>1. /\ kbuf \in [Slots -> Chars \cup {None}]
              /\ r_ptr \in Slots
              /\ w_ptr \in Slots
          BY <2>1 DEF TypeOK
        <5>2. Len(RingContents(kbuf, r_ptr, w_ptr)) = Dist(r_ptr, w_ptr)
          BY <5>1, RingIsSeq
        <5> QED BY <5>2 DEF Contents
      <4>3. Dist(r_ptr, w_ptr) \in 0 .. KBUF_SIZE - 1
        BY <2>1, CountIsDist DEF TypeOK, Slots
      <4> QED BY <4>1, <4>2, <4>3, KeyboardAssumption
    <3>5. Queue!QPut(Kmap(port))
      BY <3>1, <3>3, <3>4 DEF Queue!QPut
    <3> QED BY <3>2, <3>5 DEF Queue!QNext
  <2>5. CASE keyboard_get_char /\ r_ptr # w_ptr
    <3>1. Contents # <<>> /\ answer' = Head(Contents) /\ Contents' = Tail(Contents)
      BY <2>1, <2>5, GetTakesHead
    <3> QED BY <3>1 DEF Queue!QGet, Queue!QNext
  <2>6. CASE keyboard_get_char /\ r_ptr = w_ptr
    <3>1. Contents = <<>>
      BY <2>1, <2>6, RingEmpty DEF TypeOK, Contents
    <3>2. answer' = None /\ Contents' = Contents
      BY <2>6 DEF keyboard_get_char, Contents, ring
    <3> QED BY <3>1, <3>2 DEF Queue!QEmpty, Queue!QNext
  <2>7. CASE keyboard_handler /\ ~(port \in Keys /\ ~Full)
    <3>1. UNCHANGED <<ring, answer>>
      BY <2>7 DEF keyboard_handler, handle_key, handle_control
    <3> QED BY <3>1, <2>2
  <2>8. ASSUME NEW code \in Codes, press(code) PROVE UNCHANGED <<ring, answer>>
    BY <2>8 DEF press
  <2>9. CASE controller \/ unhandled_irq \/ init_keyboard_register
    BY <2>9, <2>2 DEF controller, unhandled_irq, init_keyboard_register
  <2>10. CASE UNCHANGED vars
    BY <2>10, <2>2 DEF vars, ring
  <2> QED
    BY <2>2, <2>3, <2>4, <2>5, <2>6, <2>7, <2>8, <2>9, <2>10 DEF Next
<1> QED BY <1>1, <1>2, KeyboardInvariant, PTL DEF Spec, ImplementsKeyQueue, Queue!QSpec
=============================================================================
