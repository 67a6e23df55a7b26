---------------------------- MODULE MCMarketFeed ----------------------------
(* Instances of MarketFeed for TLC. *)
EXTENDS MarketFeed, Sequences, TLC

CONSTANTS Stock1, Stock2

Symmetry == Permutations({Stock1, Stock2})

\* What a later step can read.  The exchange does not name an order that has ended, and
\* a free slot is filled in when it is taken.
OfLive(orders) == [id \in DOMAIN live |-> orders[id]]

InUse(pool) ==
    [allocated |-> [slot \in DOMAIN pool.allocated \ A!ToSet(pool.free) |->
                      pool.allocated[slot]],
     free      |-> pool.free,
     size      |-> Len(pool.allocated)]

Readable(manager) ==
    [manager EXCEPT !.orders = OfLive(@), !.pool = InUse(@)]

View == <<listed, live, lastId, calls, Readable(aggressive), Readable(optimized)>>
=============================================================================
