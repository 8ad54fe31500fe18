---------------------------- MODULE RefundContract ----------------------------
(***************************************************************************)
(* What refunding a payment promises, without claims, leases or workers:   *)
(* the money goes back at most once, the shop sends it back only when a    *)
(* refund was requested, and the books show the refund only when the money *)
(* is back.  An operator may return the money on the provider's console.   *)
(***************************************************************************)
VARIABLES
  returnedBy, \* who returned the money: "nobody", "shop" or "operator"
  books       \* the refund in the books: "open", "requested", "recorded"

contractVars == <<returnedBy, books>>

Init == returnedBy \in {"nobody", "operator"} /\ books = "open"

Request ==
  /\ books = "open"
  /\ books' = "requested"
  /\ UNCHANGED returnedBy

ReturnMoney ==
  /\ returnedBy = "nobody" /\ books = "requested"
  /\ returnedBy' = "shop"
  /\ UNCHANGED books

ReturnOnConsole ==
  /\ returnedBy = "nobody"
  /\ returnedBy' = "operator"
  /\ UNCHANGED books

Record ==
  /\ books = "requested" /\ returnedBy # "nobody"
  /\ books' = "recorded"
  /\ UNCHANGED returnedBy

Next == Request \/ ReturnMoney \/ ReturnOnConsole \/ Record

Spec == Init /\ [][Next]_contractVars

Promise == Spec /\ (books = "requested" ~> books = "recorded")
==============================================================================
