------------------------------ MODULE BlockPool ------------------------------
(***************************************************************************)
(* What an allocator promises its callers (writeup.tex:105-129): a block   *)
(* it hands out overlaps none they hold, and stays theirs, where it is,    *)
(* until they give it back or have it resized.                             *)
(***************************************************************************)
EXTENDS Integers

CONSTANT Slabs     (* Where blocks can be; each has addresses of its own.   *)

VARIABLES
  held,            (* The blocks callers hold: `size` units from `at` on.   *)
  count            (* How many times one was given that is not back yet.    *)

Blocks == [slab : Slabs, at : Nat, size : Nat \ {0}]

Apart(b, c) ==
  b.slab # c.slab \/ b.at + b.size <= c.at \/ c.at + c.size <= b.at

Init == held = {} /\ count = 0

Give ==
  \E b \in held' :
    /\ b \in Blocks \ held
    /\ \A c \in held : Apart(b, c)
    /\ held' = held \cup {b}
    /\ count' = count + 1

TakeBack == \E b \in held : held' = held \ {b} /\ count' = count - 1

(* In place: a move is to be given the new block and to give back the old.  *)
Resize ==
  \E b \in held, r \in held' :
    /\ r \in Blocks /\ r.slab = b.slab /\ r.at = b.at
    /\ \A c \in held \ {b} : Apart(r, c)
    /\ held' = (held \ {b}) \cup {r}
    /\ count' = count

Next == Give \/ TakeBack \/ Resize

Spec == Init /\ [][Next]_<<held, count>>

-----------------------------------------------------------------------------
(* No address is in two of the blocks that callers hold.                    *)
BlocksStayApart == \A b, c \in held : b # c => Apart(b, c)
=============================================================================
