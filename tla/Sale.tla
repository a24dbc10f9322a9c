-------------------------------- MODULE Sale --------------------------------
(***************************************************************************)
(* What checkout promises about the shop's goods, whatever the agents, the *)
(* payment provider and the delivery of its webhooks do: an order is sold  *)
(* at most once, selling it takes exactly one unit out of the stock, a     *)
(* unit leaves the stock in no other way, and nothing is sold that the     *)
(* stock does not hold.                                                    *)
(***************************************************************************)
EXTENDS Integers

CONSTANTS Orders,        \* the orders that may be sold
          InitialStock   \* the units on the shelf at the start

VARIABLES stock,   \* the units on the shelf
          sold     \* the orders that were sold

vars == <<stock, sold>>

Init == stock = InitialStock /\ sold = {}

Sell(o) ==
  /\ o \notin sold
  /\ stock > 0
  /\ sold' = sold \cup {o}
  /\ stock' = stock - 1

Next == \E o \in Orders : Sell(o)

Spec == Init /\ [][Next]_vars

=============================================================================
