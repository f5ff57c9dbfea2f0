--------------------------- MODULE MCClientOrders ---------------------------
(* Instances of ClientOrders. *)
EXTENDS ClientOrders

CONSTANTS order, other

OneOrder == {order}
TwoOrders == {order, other}

=============================================================================
