---------------------------- MODULE MCPlaceOrder ----------------------------
(* Small instances of PlaceOrder.                                            *)
EXTENDS PlaceOrder

CONSTANTS r1, r2, r3, k1, c1, c2

\* A book costs 2, a pen 1; 3 is the most a customer may spend.
Prices == [s \in {"BOOK", "PEN"} |-> IF s = "BOOK" THEN 2 ELSE 1]

Item(s, n) == [sku |-> s, quantity |-> n]
Book       == <<Item("BOOK", 1)>>
AtLimit    == <<Item("BOOK", 1), Item("PEN", 1)>>
AboveLimit == <<Item("BOOK", 2)>>

Order(k, c, a, items) == [key |-> k, customer |-> c, actor |-> a, items |-> items]

\* One key sent by its customer, by another customer, by an admin, for an order
\* that only an admin may place, and by nobody, for one that cannot be placed;
\* orders without a key or with an empty one, at the limit and above it; a command
\* without customer and one of another error.
Commands ==
    { Order(k1, c1, c1, Book), Order(k1, c2, c2, AtLimit), Order(k1, c1, Admin, AboveLimit),
      Order(k1, c1, NoActor, <<Item("BOOK", 1), Item("PEN", 0)>>),
      Order(NoKey, c1, c1, AtLimit), Order(EmptyKey, c1, c1, AboveLimit),
      Order(NoKey, NoCustomer, c1, Book), Order(NoKey, c1, c1, <<Item("BOOK", Fraction)>>) }

\* One key sent twice by its customer.
OneCommand == { Order(k1, c1, c1, Book) }

Three == {r1, r2, r3}
Two   == {r1, r2}
=============================================================================
