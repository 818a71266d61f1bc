--------------------------- MODULE FrameAllocator ---------------------------
(***************************************************************************)
(* What a page frame allocator promises, without bitmaps: a pool of frames *)
(* that is filled once at boot, a frame is in the pool or with a client    *)
(* but never both, and an allocation fails only when the pool is empty.    *)
(***************************************************************************)
CONSTANTS Frame,    \* the frames a machine may have
          NoFrame   \* the answer of a failed allocation

VARIABLES pool,     \* frames that can be allocated
          held,     \* frames clients own
          answer    \* what the last allocation returned

vars == <<pool, held, answer>>

Init == pool = {} /\ held = {} /\ answer = NoFrame

Fill ==
  /\ pool = {} /\ held = {}
  /\ pool' \in SUBSET (Frame \ {NoFrame})
  /\ UNCHANGED <<held, answer>>

Alloc ==
  \E f \in pool :
    /\ pool' = pool \ {f}
    /\ held' = held \union {f}
    /\ answer' = f

Fail ==
  /\ pool = {}
  /\ answer' = NoFrame
  /\ UNCHANGED <<pool, held>>

Free ==
  \E f \in held :
    /\ held' = held \ {f}
    /\ pool' = pool \union {f}
    /\ UNCHANGED answer

Next == Fill \/ Alloc \/ Fail \/ Free

Spec == Init /\ [][Next]_vars
=============================================================================
