----------------------------- MODULE LevelPool -----------------------------
(***************************************************************************)
(* The pool that the price levels of all order books are taken from, and    *)
(* the two sorted vectors of a book, which refer to levels by their slot.   *)
(* A vector is kept worst price first, so that the scans start at the best. *)
(* The slots of a pool are numbered from 1 here.                            *)
(***************************************************************************)
EXTENDS Integers, SequencesExt

EmptyPool == [allocated |-> << >>, free |-> << >>]

NextSlot(pool) == IF pool.free = << >> THEN Len(pool.allocated) + 1 ELSE Last(pool.free)

\* Takes the next slot for a level.
Allocate(pool, level) ==
    IF pool.free = << >>
    THEN [pool EXCEPT !.allocated = Append(@, level)]
    ELSE [allocated |-> [pool.allocated EXCEPT ![NextSlot(pool)] = level],
          free      |-> Front(pool.free)]

\* Nothing stops a caller from freeing a slot twice.
Free(pool, slot) == [pool EXCEPT !.free = Append(@, slot)]

EmptyBook == [bids |-> << >>, asks |-> << >>]

-----------------------------------------------------------------------------
(* What the pool and the books that take from it must agree on. *)

SlotsOf(levels) == {entry.Level : entry \in ToSet(levels)}

\* The slots that the books use and the free ones share nothing, no slot is used by
\* two levels or freed twice, and none is lost.
SlotsArePartitioned(pool, books) ==
    LET sides == {<<b, side>> : b \in DOMAIN books, side \in {"bids", "asks"}}
        Used(s) == SlotsOf(books[s[1]][s[2]])
    IN  /\ IsInjective(pool.free)
        /\ \A s \in sides :
              /\ IsInjective([i \in DOMAIN books[s[1]][s[2]] |-> books[s[1]][s[2]][i].Level])
              /\ Used(s) \cap ToSet(pool.free) = {}
              /\ \A t \in sides \ {s} : Used(s) \cap Used(t) = {}
        /\ DOMAIN pool.allocated = ToSet(pool.free) \cup UNION {Used(s) : s \in sides}
=============================================================================
