------------------------------ MODULE KeyQueue ------------------------------
(***************************************************************************)
(* What the keyboard driver promises its readers: a first-in first-out     *)
(* queue of characters with room for Capacity of them.  A read never       *)
(* waits; it answers None when there is nothing.                           *)
(***************************************************************************)
EXTENDS Naturals, Sequences

CONSTANTS Chars, None, Capacity

VARIABLES queue, answer

qvars == <<queue, answer>>

QInit == queue = <<>> /\ answer = None

QPut(c) ==
    /\ Len(queue) < Capacity
    /\ queue' = Append(queue, c)
    /\ UNCHANGED answer

QGet ==
    /\ queue # <<>>
    /\ answer' = Head(queue)
    /\ queue' = Tail(queue)

QEmpty ==
    /\ queue = <<>>
    /\ answer' = None
    /\ UNCHANGED queue

QNext == (\E c \in Chars : QPut(c)) \/ QGet \/ QEmpty

QSpec == QInit /\ [][QNext]_qvars
=============================================================================
