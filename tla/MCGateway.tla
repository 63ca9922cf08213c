---- MODULE MCGateway ----
(* Small instances of Gateway. *)
EXTENDS Gateway, TLC

orders == [name |-> "orders", project |-> "shop", auth |-> TRUE, limit |-> 1, window |-> 2]
news == [name |-> "news", project |-> "shop", auth |-> FALSE, limit |-> 1, window |-> 2]
docs == [name |-> "docs", project |-> "shop", auth |-> FALSE, limit |-> 0, window |-> 0]

SomeRoutes == {orders, docs}
Limited == {news, docs}

Symmetry == Permutations(Requests)
====
