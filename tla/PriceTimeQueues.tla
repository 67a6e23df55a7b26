--------------------------- MODULE PriceTimeQueues ---------------------------
(***************************************************************************)
(* What an order book promises, without levels, volumes, pointers or best   *)
(* prices: at every price a queue of orders in the order of their arrival.  *)
(* An order enters at the back of one queue, shrinks where it stands and    *)
(* leaves; to change its place it has to leave and enter again.             *)
(***************************************************************************)
EXTENDS Naturals, SequencesExt

CONSTANTS
    Ids,      \* the ids of orders
    Keys,     \* the queues: a collection and a price
    Volumes   \* the quantities an order may have left

VARIABLE queue   \* [Keys -> Seq([id : Ids, leaves : Volumes])]

Entry == [id : Ids, leaves : Volumes]

Places(q) == UNION {{k} \X (1 .. Len(q[k])) : k \in Keys}

Queued(q, id) == \E place \in Places(q) : q[place[1]][place[2]].id = id

Entered(q, k, entry) == [q EXCEPT ![k] = Append(@, entry)]

Left(q, place) == [q EXCEPT ![place[1]] = RemoveAt(@, place[2])]

Enter(q, r, k, entry) ==
    /\ ~Queued(q, entry.id)
    /\ r = Entered(q, k, entry)

Leave(q, r, place) == r = Left(q, place)

\* A modified or replaced order loses its place, even at the same price.
Reenter(q, r, place, k, entry) ==
    /\ ~Queued(Left(q, place), entry.id)
    /\ r = Entered(Left(q, place), k, entry)

Shrink(q, r, place, leaves) ==
    /\ leaves < q[place[1]][place[2]].leaves
    /\ r = [q EXCEPT ![place[1]][place[2]].leaves = leaves]

Init == queue = [k \in Keys |-> << >>]

\* q and r are the queues before and after the step.
Step(q, r) ==
    \/ \E k \in Keys, entry \in Entry : Enter(q, r, k, entry)
    \/ \E place \in Places(q) :
          \/ Leave(q, r, place)
          \/ \E leaves \in Volumes : Shrink(q, r, place, leaves)
          \/ \E k \in Keys, entry \in Entry : Reenter(q, r, place, k, entry)

Next == \E q \in {queue}, r \in {queue'} : q # r /\ Step(q, r)

Spec == Init /\ [][Next]_queue
=============================================================================
