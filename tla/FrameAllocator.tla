--------------------------- MODULE FrameAllocator ---------------------------
(***************************************************************************)
(* What the kernel expects of its physical memory manager, with no bitmap, *)
(* counter or scan: a pool of page frames that boot provisions once.  A    *)
(* request takes one frame of the pool, whichever it is, and is refused    *)
(* only when the pool is empty; a frame comes back only from its holder.   *)
(* Frame 0 is never in the pool, because its address is the refusal.       *)
(***************************************************************************)
EXTENDS Naturals

VARIABLES
    up,         \* boot has provisioned the pool
    pool,       \* frames nobody holds
    held,       \* frames handed out and not given back
    answer      \* result of the last request: a frame, or NoFrame

avars == <<up, pool, held, answer>>

NoFrame == 0

AInit ==
    /\ up = FALSE
    /\ pool = {}
    /\ held = {}
    /\ answer = NoFrame

\* The set of frames is unbounded here; TLC only evaluates this action as a
\* property of the steps of PMM, where pool' is known.
Provision ==
    /\ ~up
    /\ up' = TRUE
    /\ pool' \subseteq Nat \ {NoFrame}
    /\ UNCHANGED <<held, answer>>

Grant ==
    /\ up
    /\ \E f \in pool :
         /\ pool' = pool \ {f}
         /\ held' = held \cup {f}
         /\ answer' = f
    /\ UNCHANGED up

Refuse ==
    /\ up
    /\ pool = {}
    /\ answer' = NoFrame
    /\ UNCHANGED <<up, pool, held>>

GiveBack ==
    /\ up
    /\ \E f \in held :
         /\ held' = held \ {f}
         /\ pool' = pool \cup {f}
    /\ UNCHANGED <<up, answer>>

ANext == Provision \/ Grant \/ Refuse \/ GiveBack

ASpec == AInit /\ [][ANext]_avars
=============================================================================
