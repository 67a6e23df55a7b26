------------------------------ MODULE Registry ------------------------------
(***************************************************************************)
(* The symbols and the order books of a market manager, by the symbol's Id. *)
(* An operation returns its error code and the next state, m; the handler is *)
(* called if the code is OK.  A book holds a copy of its symbol, and the    *)
(* orders of a book are kept apart from it: deleting a symbol leaves its    *)
(* book, and deleting a book leaves its orders.                             *)
(***************************************************************************)
EXTENDS Integers

NewRegistry == [symbols |-> {}, order_books |-> {}]

OK(m) == [code |-> "OK", market |-> m]

Refuse(code, m) == [code |-> code, market |-> m]

AddSymbol(m, id) ==
    IF id \in m.symbols THEN Refuse("SYMBOL_DUPLICATE", m)
    ELSE OK([m EXCEPT !.symbols = @ \cup {id}])

DeleteSymbol(m, id) ==
    IF id \notin m.symbols THEN Refuse("SYMBOL_NOT_FOUND", m)
    ELSE OK([m EXCEPT !.symbols = @ \ {id}])

AddOrderBook(m, id) ==
    IF id \notin m.symbols THEN Refuse("SYMBOL_NOT_FOUND", m)
    ELSE IF id \in m.order_books THEN Refuse("ORDER_BOOK_DUPLICATE", m)
    ELSE OK([m EXCEPT !.order_books = @ \cup {id}])

DeleteOrderBook(m, id) ==
    IF id \notin m.order_books THEN Refuse("ORDER_BOOK_NOT_FOUND", m)
    ELSE OK([m EXCEPT !.order_books = @ \ {id}])
=============================================================================
