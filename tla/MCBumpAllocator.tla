--------------------------- MODULE MCBumpAllocator ---------------------------
(* The bump allocator for TLC: words of 16, pages of 2 and blocks of        *)
(* multiples of 2.                                                          *)
EXTENDS BumpAllocator

Req(fn, size, align, nmemb) == [fn |-> fn, size |-> size, align |-> align, nmemb |-> nmemb]

(* Nothing; one unit; a size that is negative for sbrk; a product that      *)
(* rounds up to 0; aligned new for less and for more than its alignment;    *)
(* pvalloc of a size with the bit clear already and of one where clearing   *)
(* it leaves too little.                                                    *)
MCRequests ==
  {Req("malloc", 0, 1, 1), Req("malloc", 1, 1, 1), Req("malloc", 7, 1, 1),
   Req("calloc", 5, 1, 3),
   Req("aligned new", 3, 4, 1), Req("aligned new", 5, 4, 1),
   Req("pvalloc", 3, 1, 1), Req("pvalloc", 5, 1, 1)}

MCIncrements == {SbrkArgument(r) : r \in Requests}
=============================================================================
