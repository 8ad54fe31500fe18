--------------------------- MODULE MCOrderCapacity ---------------------------
(* Small instances of OrderCapacity for TLC. *)
EXTENDS OrderCapacity

CONSTANTS o1, o2, o3, u1, u2, k1, k2, pot, card

(* u1 checks out o1 and o3, u2 checks out o2 with the request id of o1. *)
MCUserOf == [o \in Orders |-> IF o = o2 THEN u2 ELSE u1]
MCKeyOf == [o \in Orders |-> IF o = o3 THEN k2 ELSE k1]
MCLines == [o \in Orders |-> [x \in Items \union Stocks |->
              IF x = pot /\ o = o1 THEN 2 ELSE 1]]
MCMaxQuantityPerCustomer == [i \in Items |-> 0]

Limits(addresses, items, potLimit) ==
  [x \in RoundResources |-> CASE x = "addresses" -> addresses
                              [] x = "itemQuantity" -> items
                              [] OTHER -> potLimit]
MCRoundLimits == {Limits(2, 3, 3), Limits(2, 3, 5), Limits(1, 4, 2)}
MCInitialStock == [s \in Stocks |-> 1]
=============================================================================
