--------------------------- MODULE LegacyShopProofs ---------------------------
(***************************************************************************)
(* Proofs about LegacyShop, for any number of orders, requests and runs,   *)
(* for all quantities and any capacity.                                    *)
(*                                                                         *)
(* Two parties refund an order and neither keeps a lock meanwhile: a       *)
(* customer's or seller's cancellation and a group's decision.  What each  *)
(* knows of its orders (Keeps) must survive all that others do to them.    *)
(* Each action is first shown to be a move of one order's documents that   *)
(* keeps this (ShopKept); the workers' own progress is added after that.   *)
(***************************************************************************)
EXTENDS MCClaimsAndLeases, ClaimProofs, QuantityTheorems

(* Documents and requests keep their types. *)
WorkersTyped ==
  /\ canceller \in [LegacyCancellers ->
       [step : {"idle", "refund", "post", "local", "settlement", "REFUND_FAILED", "LOCAL_FAILED"},
        as : {"none", "consumer", "seller", "admin"}, order : LegacyOrders \union {"none"}]]
  /\ \A w \in LegacyCancellers : canceller[w].step # "idle" => canceller[w].order \in LegacyOrders
  /\ groupRun \in [GroupRuns ->
       [step : {"idle", "confirm", "lack", "CONFIRMED", "refund", "CANCELLED", "done", "failed"},
        targets : SUBSET LegacyOrders, toRefund : SUBSET LegacyOrders,
        refunding : SUBSET LegacyOrders]]

(***************************************************************************)
(* The inductive invariant, by order, by canceller and by run of a group.  *)
(***************************************************************************)
(* An order whose payment or expiry has been seen; money nobody undertook  *)
(* to return; an order that goes nowhere any more.                         *)
Begun(o) == Status(o) \notin {"none", "PENDING"}
Unreturned(o) == legacyMoney[o].status = "PAID" /\ legacyMoney[o].claim = "NONE"
Stopped(o) ==
  \/ Status(o) = "CANCELLED"
  \/ CancellationPending(o) /\ Status(o) \notin {"DELIVERING", "DELIVERED"}

(* The slot, the status and the marks of an order fit each other.          *)
SlotFits(o) ==
  /\ legacyOrder[o].slot # "none" => saleType = "normal"
  /\ legacyOrder[o].slot = "HELD" => Status(o) \notin {"none", "CANCELLED"}
  /\ Status(o) = "RECRUITING" => saleType = "group"
  /\ legacyOrder[o].reason \in {"request", "lack"} => Status(o) = "CANCELLED"
  /\ Status(o) = "none" => legacyOrder[o] = NoOrderYet
  /\ Status(o) = "PENDING" =>
       legacyOrder[o].reason = "none" /\ legacyOrder[o].cancellation = "none"

(* Its money: none before it began; a refund claimed at request has an     *)
(* order that is stopped; an order cancelled at request or for lack of     *)
(* members keeps no money.                                                 *)
MoneyFits(o) ==
  /\ ~Begun(o) => legacyMoney[o] = NoMoney
  /\ Begun(o) /\ ~TimedOut(o) => legacyMoney[o].status # "none"
  /\ legacyMoney[o].token \in LegacyCancellers /\ legacyOrder[o].reason # "timeout" => Stopped(o)
  /\ Status(o) = "CANCELLED" /\ legacyOrder[o].reason \in {"request", "lack"} => ~Unreturned(o)

(* A canceller's order has begun; it is stopped as long as its refund is   *)
(* under way, and past the refund an order of its own has none to return.  *)
CallerFits(w) ==
  canceller[w].step # "idle" =>
    /\ Begun(ItsOrder(w))
    /\ canceller[w].step \in {"refund", "post"} /\ legacyOrder[ItsOrder(w)].reason # "timeout"
         => Stopped(ItsOrder(w))
    /\ /\ canceller[w].step \in {"post", "local"} /\ OwnsCancellation(ItsOrder(w), w)
       /\ Status(ItsOrder(w)) # "CANCELLED"
       => ~Unreturned(ItsOrder(w))

(* A run cancels no member whose money it has not seen returned.           *)
RunFits(g) ==
  /\ \A o \in groupRun[g].targets : Begun(o) /\ ~TimedOut(o)
  /\ groupRun[g].step = "CANCELLED" => groupRun[g].toRefund = {}
  /\ groupRun[g].step \in {"refund", "CANCELLED"} =>
       \A o \in groupRun[g].targets \ groupRun[g].toRefund :
         Status(o) = "RECRUITING" => ~Unreturned(o)

(* All of it. *)
ShopInv ==
  /\ LegacyTypeOK /\ WorkersTyped /\ LegacyCountersMatchOrders
  /\ \A o \in LegacyOrders : SlotFits(o) /\ MoneyFits(o)
  /\ \A w \in LegacyCancellers : CallerFits(w)
  /\ \A g \in GroupRuns : RunFits(g)

(***************************************************************************)
(* Types, written out so that the provers can use them.                    *)
(***************************************************************************)
OrderRecords ==
  [status : {"none", "PENDING", "RECRUITING", "CANCELLED", "DELIVERED",
             "ACCEPTED", "CONFIRMED", "PREPARING", "DELIVERING"},
   reason : {"none", "timeout", "amount_mismatch", "request", "lack"},
   slot : {"none", "HELD", "RELEASED"},
   cancellation : {"none", "COMPLETED", "REFUNDING", "LOCAL_FAILED", "REFUND_FAILED"},
   token : LegacyCancellers \union {"nobody"}, lease : {"live", "over"}]
MoneyRecords == [status : {"none", "PAID", "CANCELLED"}, claim : {"NONE", "CLAIMED", "UNKNOWN"},
                 token : LegacyWorkers \union {"nobody"}]

Typed ==
  /\ saleType \in {"normal", "group"} /\ usedSlots \in 0..TotalCap /\ currentQuantity \in Nat
  /\ legacyOrder \in [LegacyOrders -> OrderRecords]
  /\ legacyMoney \in [LegacyOrders -> MoneyRecords]

(* LegacyTypeOK says the same. *)
LEMMA TypedRecords == (LegacyTypeOK <=> Typed) /\ (LegacyTypeOK' <=> Typed')
<1>1. /\ {"none", "PENDING", "RECRUITING", "CANCELLED", "DELIVERED"} \union DOMAIN LegacyTransitions
           = {"none", "PENDING", "RECRUITING", "CANCELLED", "DELIVERED",
              "ACCEPTED", "CONFIRMED", "PREPARING", "DELIVERING"}
      /\ {"none", "COMPLETED"} \union PendingLegacyCancellations
           = {"none", "COMPLETED", "REFUNDING", "LOCAL_FAILED", "REFUND_FAILED"}
  BY DEF LegacyTransitions, PendingLegacyCancellations
<1>2. LegacyTypeOK <=> Typed
  BY <1>1 DEF LegacyTypeOK, Typed, OrderRecords, MoneyRecords
<1>3. LegacyTypeOK' <=> Typed'
  BY <1>1 DEF LegacyTypeOK, Typed, OrderRecords, MoneyRecords
<1> QED
  BY <1>2, <1>3

(* The documents of one order. *)
LEMMA RecordsTyped ==
  ASSUME LegacyTypeOK, NEW o \in LegacyOrders
  PROVE  legacyOrder[o] \in OrderRecords /\ legacyMoney[o] \in MoneyRecords
BY TypedRecords DEF Typed

(***************************************************************************)
(* The counters.                                                           *)
(***************************************************************************)
(* What an order contributes to them. *)
SlotWeight(o, r) == IF r.slot = "HELD" THEN OrderedQuantity[o] ELSE 0
GroupWeight(o, r) == IF saleType = "group" /\ r.status # "none" /\ r.reason # "request"
                     THEN OrderedQuantity[o] ELSE 0

(* Every order is for some quantity. *)
LEMMA Weights ==
  ASSUME LegacyTypeOK, NEW o \in LegacyOrders
  PROVE  OrderedQuantity[o] \in Nat /\ OrderedQuantity[o] > 0
BY LegacyAssumption

(* Counters match while an order changes, if they move by its weights. *)
LEMMA CountersFollow ==
  ASSUME LegacyTypeOK, LegacyCountersMatchOrders, NEW o \in LegacyOrders, NEW r \in OrderRecords,
         SetOrder(o, r), saleType' = saleType,
         r.slot = "HELD" => r.status # "CANCELLED",
         usedSlots' = usedSlots - SlotWeight(o, legacyOrder[o]) + SlotWeight(o, r),
         currentQuantity' = currentQuantity - GroupWeight(o, legacyOrder[o]) + GroupWeight(o, r)
  PROVE  LegacyCountersMatchOrders' /\ usedSlots' \in Nat /\ currentQuantity' \in Nat
<1>1. legacyOrder'[o] = r /\ \A p \in LegacyOrders : p # o => legacyOrder'[p] = legacyOrder[p]
  BY DEF SetOrder, LegacyTypeOK
<1>2. /\ HoldingSlots \subseteq LegacyOrders /\ Counted \subseteq LegacyOrders
      /\ HoldingSlots' \subseteq LegacyOrders /\ Counted' \subseteq LegacyOrders
  BY DEF HoldingSlots, Counted
<1>3. IsFiniteSet(HoldingSlots) /\ IsFiniteSet(Counted)
      /\ IsFiniteSet(HoldingSlots') /\ IsFiniteSet(Counted')
  BY <1>2, FS_Subset, LegacyAssumption
<1>4. \A p \in LegacyOrders : OrderedQuantity[p] \in Nat
  BY LegacyAssumption
<1>5. HoldingSlots \ {o} = HoldingSlots' \ {o}
  BY <1>1 DEF HoldingSlots
<1>6. Counted \ {o} = Counted' \ {o}
  BY <1>1 DEF Counted, Status
<1>7. Quantity(HoldingSlots', OrderedQuantity)
        = Quantity(HoldingSlots, OrderedQuantity)
          - (IF o \in HoldingSlots THEN OrderedQuantity[o] ELSE 0)
          + (IF o \in HoldingSlots' THEN OrderedQuantity[o] ELSE 0)
  BY <1>2, <1>3, <1>4, <1>5, QuantityOfChange
<1>8. Quantity(Counted', OrderedQuantity)
        = Quantity(Counted, OrderedQuantity) - (IF o \in Counted THEN OrderedQuantity[o] ELSE 0)
          + (IF o \in Counted' THEN OrderedQuantity[o] ELSE 0)
  BY <1>2, <1>3, <1>4, <1>6, QuantityOfChange
<1>9. /\ (IF o \in HoldingSlots THEN OrderedQuantity[o] ELSE 0) = SlotWeight(o, legacyOrder[o])
      /\ (IF o \in HoldingSlots' THEN OrderedQuantity[o] ELSE 0) = SlotWeight(o, r)
  BY <1>1 DEF HoldingSlots, SlotWeight
<1>10. /\ (IF o \in Counted THEN OrderedQuantity[o] ELSE 0) = GroupWeight(o, legacyOrder[o])
       /\ (IF o \in Counted' THEN OrderedQuantity[o] ELSE 0) = GroupWeight(o, r)
  BY <1>1 DEF Counted, GroupWeight, Status
<1>11. /\ usedSlots' = Quantity(HoldingSlots', OrderedQuantity)
       /\ currentQuantity' = Quantity(Counted', OrderedQuantity)
  BY <1>7, <1>8, <1>9, <1>10 DEF LegacyCountersMatchOrders
<1>12. \A p \in HoldingSlots' : Status(p)' # "CANCELLED"
  BY <1>1 DEF HoldingSlots, Status, LegacyCountersMatchOrders
<1>13. /\ Quantity(HoldingSlots', OrderedQuantity) \in Nat
       /\ Quantity(Counted', OrderedQuantity) \in Nat
  BY <1>2, <1>3, <1>4, QuantityType
<1> QED
  BY <1>11, <1>12, <1>13 DEF LegacyCountersMatchOrders

(* Counters that nobody moves. *)
LEMMA CountersStay ==
  ASSUME LegacyTypeOK, LegacyCountersMatchOrders,
         UNCHANGED <<saleType, usedSlots, currentQuantity>>,
         NEW o \in LegacyOrders, NEW r \in OrderRecords, SetOrder(o, r),
         r.slot = legacyOrder[o].slot, r.slot = "HELD" => r.status # "CANCELLED",
         saleType = "group" => /\ (r.status = "none" <=> legacyOrder[o].status = "none")
                               /\ (r.reason = "request" <=> legacyOrder[o].reason = "request")
  PROVE  LegacyCountersMatchOrders'
<1>1. /\ SlotWeight(o, r) = SlotWeight(o, legacyOrder[o])
      /\ GroupWeight(o, r) = GroupWeight(o, legacyOrder[o])
  BY DEF SlotWeight, GroupWeight
<1>2. /\ SlotWeight(o, r) \in Int /\ GroupWeight(o, r) \in Int /\ usedSlots \in Int
      /\ currentQuantity \in Int
  BY LegacyAssumption DEF SlotWeight, GroupWeight, LegacyTypeOK
<1> QED
  BY <1>1, <1>2, CountersFollow

(* Nor do they change with workers or money. *)
LEMMA CountersUntouched ==
  ASSUME LegacyCountersMatchOrders,
         UNCHANGED <<saleType, legacyOrder, usedSlots, currentQuantity>>
  PROVE  LegacyCountersMatchOrders'
BY DEF LegacyCountersMatchOrders, HoldingSlots, Counted, Status

(***************************************************************************)
(* What an action on an order leaves as the workers rely on it.            *)
(***************************************************************************)

(* An order past its expiry; one a run has yet to refund; one that stays   *)
(* stopped; one that a canceller could cancel without returning its money. *)
Decided(o) == Begun(o) /\ ~TimedOut(o)
WorthRefunding(o) == Status(o) = "RECRUITING" /\ Unreturned(o)
AsBeforeTimeout(o) == Stopped(o) \/ legacyOrder[o].reason = "timeout"
MayBeLost(o, w) == OwnsCancellation(o, w) /\ Status(o) # "CANCELLED" /\ Unreturned(o)

(* What workers know of an order stays so, whoever else acts on it.        *)
Keeps(o) ==
  /\ Begun(o) => Begun(o)' /\ (AsBeforeTimeout(o) => AsBeforeTimeout(o)')
  /\ Decided(o) => Decided(o)' /\ (WorthRefunding(o)' => WorthRefunding(o))
  /\ Begun(o) => \A w \in LegacyCancellers :
       MayBeLost(o, w)' => MayBeLost(o, w) \/ CallerAt(w, "idle")

OrderFits(o) == SlotFits(o) /\ MoneyFits(o)

(* Nothing changes for an order that is not touched. *)
LEMMA Untouched ==
  ASSUME saleType' = saleType, NEW o \in LegacyOrders,
         legacyOrder'[o] = legacyOrder[o], legacyMoney'[o] = legacyMoney[o], OrderFits(o)
  PROVE  OrderFits(o)' /\ Keeps(o)
<1>1. OrderFits(o)'
  BY DEF OrderFits, SlotFits, MoneyFits, Status, Begun, TimedOut, Stopped, CancellationPending,
         Unreturned
<1>2. Keeps(o)
  BY DEF Keeps, Begun, Status, AsBeforeTimeout, Stopped, CancellationPending, Decided, TimedOut,
         WorthRefunding, Unreturned, MayBeLost, OwnsCancellation
<1> QED
  BY <1>1, <1>2

(* A caller that did not move finds its order as it left it. *)
LEMMA CallersKeep ==
  ASSUME WorkersTyped, NEW w \in LegacyCancellers, CallerFits(w),
         canceller'[w].step # "idle" =>
           /\ canceller[w].step # "idle" /\ canceller'[w].order = canceller[w].order
           /\ canceller'[w].step \in {"refund", "post"} => canceller[w].step \in {"refund", "post"}
           /\ canceller'[w].step \in {"post", "local"} =>
                \/ canceller[w].step \in {"post", "local"}
                \/ \A o \in LegacyOrders : o = canceller[w].order => ~Unreturned(o)',
         \A o \in LegacyOrders : Keeps(o)
  PROVE  CallerFits(w)'
<1> SUFFICES ASSUME canceller'[w].step # "idle"
             PROVE  CallerFits(w)'
  BY DEF CallerFits
<1>1. PICK o \in LegacyOrders : o = ItsOrder(w)
  BY DEF WorkersTyped, ItsOrder
<1>0. ItsOrder(w)' = o
  BY <1>1 DEF ItsOrder
<1>2. Keeps(o) /\ Begun(o)
  BY <1>1 DEF CallerFits
<1>3. Begun(o)'
  BY <1>2 DEF Keeps
<1>4. canceller'[w].step \in {"refund", "post"} => AsBeforeTimeout(o)
  BY <1>1 DEF CallerFits, AsBeforeTimeout
<1>5. canceller'[w].step \in {"refund", "post"} => AsBeforeTimeout(o)'
  BY <1>2, <1>4 DEF Keeps
<1>6. canceller[w].step \in {"post", "local"} => ~MayBeLost(o, w)
  BY <1>1 DEF CallerFits, MayBeLost
<1>7. canceller[w].step \in {"post", "local"} => ~MayBeLost(o, w)'
  BY <1>2, <1>6 DEF Keeps, CallerAt
<1>8. canceller'[w].step \in {"post", "local"} => ~MayBeLost(o, w)'
  BY <1>1, <1>7 DEF MayBeLost, ItsOrder, Unreturned
<1> QED
  BY <1>0, <1>3, <1>5, <1>8 DEF CallerFits, AsBeforeTimeout, MayBeLost

(* So does a run of the group's decision, whose work only gets less. *)
LEMMA RunsKeep ==
  ASSUME WorkersTyped, NEW g \in GroupRuns, RunFits(g),
         groupRun'[g].targets \subseteq groupRun[g].targets,
         groupRun'[g].step \in {"refund", "CANCELLED"} =>
           /\ groupRun[g].step \in {"refund", "CANCELLED"}
           /\ groupRun'[g].toRefund = groupRun[g].toRefund
           /\ groupRun'[g].step # groupRun[g].step => groupRun[g].toRefund = {},
         \A o \in LegacyOrders : Keeps(o)
  PROVE  RunFits(g)'
<1>1. groupRun[g].targets \subseteq LegacyOrders
  BY DEF WorkersTyped
<1>2. ASSUME NEW o \in groupRun'[g].targets PROVE Decided(o)'
  BY <1>1, <1>2 DEF RunFits, Decided, Keeps
<1>3. ASSUME NEW o \in groupRun'[g].targets \ groupRun'[g].toRefund,
             groupRun'[g].step \in {"refund", "CANCELLED"}
      PROVE  ~WorthRefunding(o)'
  <2>1. o \in groupRun[g].targets \ groupRun[g].toRefund /\ o \in LegacyOrders
    BY <1>1, <1>3
  <2>2. ~WorthRefunding(o) /\ Decided(o)
    BY <1>3, <2>1 DEF RunFits, WorthRefunding, Decided
  <2> QED
    BY <2>1, <2>2 DEF Keeps
<1> QED
  BY <1>2, <1>3 DEF RunFits, Decided, WorthRefunding

(***************************************************************************)
(* Each action moves one order at most.                                    *)
(***************************************************************************)

(* The part of the invariant about orders, and what an action must leave.  *)
ShopGood == LegacyTypeOK /\ LegacyCountersMatchOrders /\ \A p \in LegacyOrders : OrderFits(p)
ShopKept == ShopGood' /\ \A p \in LegacyOrders : Keeps(p)

(* An action that writes one order's documents. *)
LEMMA OneOrderMoves ==
  ASSUME ShopGood, saleType' = saleType, NEW o \in LegacyOrders,
         NEW r \in OrderRecords, SetOrder(o, r),
         NEW m \in MoneyRecords, legacyMoney' = [legacyMoney EXCEPT ![o] = m],
         usedSlots' \in 0..TotalCap, currentQuantity' \in Nat, LegacyCountersMatchOrders',
         legacyOrder'[o] = r /\ legacyMoney'[o] = m => OrderFits(o)' /\ Keeps(o)
  PROVE  ShopKept
<1>1. LegacyTypeOK'
  BY TypedRecords DEF Typed, ShopGood, SetOrder
<1>2. /\ legacyOrder'[o] = r /\ legacyMoney'[o] = m
      /\ \A p \in LegacyOrders : p # o =>
           legacyOrder'[p] = legacyOrder[p] /\ legacyMoney'[p] = legacyMoney[p]
  BY DEF ShopGood, LegacyTypeOK, SetOrder
<1>3. \A p \in LegacyOrders : OrderFits(p)' /\ Keeps(p)
  BY <1>2, Untouched DEF ShopGood
<1> QED
  BY <1>1, <1>3 DEF ShopKept, ShopGood

(* An action that writes none. *)
LEMMA NoMove ==
  ASSUME ShopGood, UNCHANGED <<saleType, legacyOrder, legacyMoney, usedSlots, currentQuantity>>
  PROVE  ShopKept
<1>1. LegacyTypeOK' /\ LegacyCountersMatchOrders'
  BY CountersUntouched DEF ShopGood, LegacyTypeOK
<1>2. \A p \in LegacyOrders : OrderFits(p)' /\ Keeps(p)
  BY Untouched DEF ShopGood
<1> QED
  BY <1>1, <1>2 DEF ShopKept, ShopGood

(* An order that keeps its slot and its place in the group. *)
LEMMA OrderMoves ==
  ASSUME ShopGood, UNCHANGED <<saleType, usedSlots, currentQuantity>>, NEW o \in LegacyOrders,
         NEW r \in OrderRecords, SetOrder(o, r),
         NEW m \in MoneyRecords, legacyMoney' = [legacyMoney EXCEPT ![o] = m],
         r.slot = legacyOrder[o].slot, r.slot = "HELD" => r.status # "CANCELLED",
         saleType = "group" => /\ (r.status = "none" <=> legacyOrder[o].status = "none")
                               /\ (r.reason = "request" <=> legacyOrder[o].reason = "request"),
         legacyOrder'[o] = r /\ legacyMoney'[o] = m => OrderFits(o)' /\ Keeps(o)
  PROVE  ShopKept
<1>1. LegacyCountersMatchOrders'
  BY CountersStay DEF ShopGood
<1>2. usedSlots' \in 0..TotalCap /\ currentQuantity' \in Nat
  BY DEF ShopGood, LegacyTypeOK
<1> QED
  BY <1>1, <1>2, OneOrderMoves

(* A payment that moves alone. *)
LEMMA MoneyMoves ==
  ASSUME ShopGood, UNCHANGED <<saleType, usedSlots, currentQuantity, legacyOrder>>,
         NEW o \in LegacyOrders,
         NEW m \in MoneyRecords, legacyMoney' = [legacyMoney EXCEPT ![o] = m],
         legacyOrder'[o] = legacyOrder[o] /\ legacyMoney'[o] = m => OrderFits(o)' /\ Keeps(o)
  PROVE  ShopKept
<1> DEFINE r == legacyOrder[o]
<1>1. r \in OrderRecords /\ SetOrder(o, r)
  BY RecordsTyped DEF ShopGood, LegacyTypeOK, SetOrder
<1>2. LegacyCountersMatchOrders'
  BY CountersUntouched DEF ShopGood
<1>3. usedSlots' \in 0..TotalCap /\ currentQuantity' \in Nat
  BY DEF ShopGood, LegacyTypeOK
<1> HIDE DEF r
<1>4. PICK s \in OrderRecords : s = r
  BY <1>1
<1>5. SetOrder(o, s) /\ (legacyOrder'[o] = s => legacyOrder'[o] = legacyOrder[o])
  BY <1>1, <1>4 DEF r
<1> QED
  BY <1>2, <1>3, <1>5, OneOrderMoves

(* An order whose payment does not move. *)
LEMMA MarkMoves ==
  ASSUME ShopGood, UNCHANGED <<saleType, usedSlots, currentQuantity, legacyMoney>>,
         NEW o \in LegacyOrders, NEW r \in OrderRecords, SetOrder(o, r),
         r.slot = legacyOrder[o].slot, r.slot = "HELD" => r.status # "CANCELLED",
         saleType = "group" => /\ (r.status = "none" <=> legacyOrder[o].status = "none")
                               /\ (r.reason = "request" <=> legacyOrder[o].reason = "request"),
         legacyOrder'[o] = r /\ legacyMoney'[o] = legacyMoney[o] => OrderFits(o)' /\ Keeps(o)
  PROVE  ShopKept
<1>1. PICK m \in MoneyRecords : m = legacyMoney[o]
  BY RecordsTyped DEF ShopGood
<1>2. legacyMoney' = [legacyMoney EXCEPT ![o] = m]
  BY <1>1 DEF ShopGood, LegacyTypeOK
<1> QED
  BY <1>1, <1>2, OrderMoves

(* An order that takes or gives back its slot or its place in the group. *)
LEMMA SlotMoves ==
  ASSUME ShopGood, saleType' = saleType, NEW o \in LegacyOrders,
         NEW r \in OrderRecords, SetOrder(o, r),
         NEW m \in MoneyRecords, legacyMoney' = [legacyMoney EXCEPT ![o] = m],
         r.slot = "HELD" => r.status # "CANCELLED",
         usedSlots' = usedSlots - SlotWeight(o, legacyOrder[o]) + SlotWeight(o, r),
         SlotWeight(o, r) > 0 => usedSlots' <= TotalCap,
         currentQuantity' = currentQuantity - GroupWeight(o, legacyOrder[o]) + GroupWeight(o, r),
         legacyOrder'[o] = r /\ legacyMoney'[o] = m => OrderFits(o)' /\ Keeps(o)
  PROVE  ShopKept
<1>1. LegacyCountersMatchOrders' /\ usedSlots' \in Nat /\ currentQuantity' \in Nat
  BY CountersFollow DEF ShopGood
<1>2. /\ SlotWeight(o, r) \in Nat /\ SlotWeight(o, legacyOrder[o]) \in Nat
      /\ usedSlots \in 0..TotalCap /\ TotalCap \in Nat
  BY LegacyAssumption DEF SlotWeight, ShopGood, LegacyTypeOK
<1>3. usedSlots' \in 0..TotalCap
  BY <1>1, <1>2
<1> QED
  BY <1>1, <1>3, OneOrderMoves

(* A payment in time. *)
LEMMA Finalizing ==
  ASSUME ShopGood, NEW o \in LegacyOrders, FinalizeLegacyOrder(o)
  PROVE  ShopKept
<1> DEFINE r == [legacyOrder[o] EXCEPT !.status = PaidStatus]
           m == [NoMoney EXCEPT !.status = "PAID"]
<1>1. legacyOrder[o] \in OrderRecords /\ legacyMoney[o] \in MoneyRecords /\ OrderFits(o)
  BY RecordsTyped DEF ShopGood
<1>2. Status(o) = "PENDING" /\ legacyMoney[o] = NoMoney
  BY <1>1 DEF OrderFits, MoneyFits, Begun, FinalizeLegacyOrder
<1>3a. r \in OrderRecords
  BY <1>1 DEF OrderRecords, PaidStatus
<1>3b. m \in MoneyRecords
  BY <1>1, <1>2 DEF MoneyRecords
<1>4. /\ r.status = PaidStatus /\ r.reason = legacyOrder[o].reason /\ r.slot = legacyOrder[o].slot
      /\ r.cancellation = legacyOrder[o].cancellation /\ r.token = legacyOrder[o].token
      /\ r.lease = legacyOrder[o].lease
      /\ m.status = "PAID" /\ m.claim = "NONE" /\ m.token = "nobody"
  BY <1>1 DEF NoMoney, OrderRecords, MoneyRecords
<1>5. UNCHANGED <<saleType, usedSlots, currentQuantity>> /\ SetOrder(o, r)
      /\ r.slot = legacyOrder[o].slot /\ (r.slot = "HELD" => r.status # "CANCELLED")
      /\ (r.status # "none" /\ legacyOrder[o].status # "none")
      /\ (r.reason = "request" <=> legacyOrder[o].reason = "request")
      /\ legacyMoney' = [legacyMoney EXCEPT ![o] = m]
  BY <1>4 DEF Status, PaidStatus, FinalizeLegacyOrder, Booked
<1> HIDE DEF r, m
<1>6. ASSUME legacyOrder'[o] = r, legacyMoney'[o] = m, saleType' = saleType
      PROVE  OrderFits(o)' /\ Keeps(o)
  BY <1>1, <1>2, <1>4, <1>6, LegacyAssumption
     DEF OrderFits, SlotFits, MoneyFits, Keeps, Begun, Status, Decided, LegacyWorkers, PaidStatus
<1> QED
  BY <1>3a, <1>3b, <1>5, <1>6, OrderMoves

(* A late payment that finds no slot. *)
LEMMA RefundingLate ==
  ASSUME ShopGood, NEW o \in LegacyOrders, RefundLateLegacyPayment(o)
  PROVE  ShopKept
<1> DEFINE m == [NoMoney EXCEPT !.status = "CANCELLED"]
<1>1. legacyOrder[o] \in OrderRecords /\ legacyMoney[o] \in MoneyRecords /\ OrderFits(o)
  BY RecordsTyped DEF ShopGood
<1>2. TimedOut(o)
  BY DEF RefundLateLegacyPayment
<1>3. m \in MoneyRecords
  BY DEF MoneyRecords, NoMoney
<1>4. m.status = "CANCELLED" /\ m.claim = "NONE" /\ m.token = "nobody"
  BY <1>1 DEF NoMoney, OrderRecords, MoneyRecords
<1>5. UNCHANGED <<saleType, usedSlots, currentQuantity, legacyOrder>>
      /\ legacyMoney' = [legacyMoney EXCEPT ![o] = m]
  BY DEF RefundLateLegacyPayment
<1> HIDE DEF m
<1>6. ASSUME legacyOrder'[o] = legacyOrder[o], legacyMoney'[o] = m, saleType' = saleType
      PROVE  OrderFits(o)' /\ Keeps(o)
  BY <1>1, <1>2, <1>6
     DEF OrderFits, SlotFits, MoneyFits, Keeps, Begun, Status, AsBeforeTimeout, Decided, TimedOut,
         MayBeLost
<1> QED
  BY <1>3, <1>5, <1>6, MoneyMoves

(* An order goes on. *)
LEMMA Advancing ==
  ASSUME ShopGood, NEW o \in LegacyOrders, NEW status \in {"PREPARING", "DELIVERING", "DELIVERED"},
         AdvanceLegacyOrder(o), SetOrder(o, [legacyOrder[o] EXCEPT !.status = status])
  PROVE  ShopKept
<1> DEFINE r == [legacyOrder[o] EXCEPT !.status = status]
<1>1. legacyOrder[o] \in OrderRecords /\ legacyMoney[o] \in MoneyRecords /\ OrderFits(o)
  BY RecordsTyped DEF ShopGood
<1>2. /\ Status(o) \in {"ACCEPTED", "CONFIRMED", "PREPARING", "DELIVERING"}
      /\ ~CancellationPending(o)
  BY DEF AdvanceLegacyOrder, LegacyTransitions, MayAdvance
<1>3. r \in OrderRecords
  BY <1>1 DEF OrderRecords
<1>4. /\ r.status = status /\ r.reason = legacyOrder[o].reason /\ r.slot = legacyOrder[o].slot
      /\ r.cancellation = legacyOrder[o].cancellation /\ r.token = legacyOrder[o].token
      /\ r.lease = legacyOrder[o].lease
  BY <1>1 DEF OrderRecords, MoneyRecords
<1>5. UNCHANGED <<saleType, usedSlots, currentQuantity>> /\ SetOrder(o, r)
      /\ r.slot = legacyOrder[o].slot /\ (r.slot = "HELD" => r.status # "CANCELLED")
      /\ (r.status # "none" /\ legacyOrder[o].status # "none")
      /\ (r.reason = "request" <=> legacyOrder[o].reason = "request")
      /\ UNCHANGED legacyMoney
  BY <1>2, <1>4 DEF Status, AdvanceLegacyOrder
<1> HIDE DEF r
<1>6. ASSUME legacyOrder'[o] = r, legacyMoney'[o] = legacyMoney[o], saleType' = saleType
      PROVE  OrderFits(o)' /\ Keeps(o)
  BY <1>1, <1>2, <1>4, <1>6
     DEF OrderFits, SlotFits, MoneyFits, Keeps, Begun, Status, AsBeforeTimeout, Stopped, Decided,
         TimedOut, WorthRefunding, Unreturned, MayBeLost, OwnsCancellation
<1> QED
  BY <1>3, <1>5, <1>6, MarkMoves

(* The lease of an order's cancellation ends. *)
LEMMA ClaimEnding ==
  ASSUME ShopGood, NEW o \in LegacyOrders, CancellationLeaseEnds(o)
  PROVE  ShopKept
<1> DEFINE r == [legacyOrder[o] EXCEPT !.lease = "over"]
<1>1. legacyOrder[o] \in OrderRecords /\ legacyMoney[o] \in MoneyRecords /\ OrderFits(o)
  BY RecordsTyped DEF ShopGood
<1>2. Status(o) # "none" /\ (legacyOrder[o].slot = "HELD" => Status(o) # "CANCELLED")
  BY <1>1 DEF OrderFits, SlotFits, CancellationLeaseEnds, NoOrderYet
<1>3. r \in OrderRecords
  BY <1>1 DEF OrderRecords
<1>4. /\ r.status = legacyOrder[o].status /\ r.reason = legacyOrder[o].reason
      /\ r.slot = legacyOrder[o].slot /\ r.cancellation = legacyOrder[o].cancellation
      /\ r.token = legacyOrder[o].token /\ r.lease = "over"
  BY <1>1 DEF OrderRecords, MoneyRecords
<1>5. UNCHANGED <<saleType, usedSlots, currentQuantity>> /\ SetOrder(o, r)
      /\ r.slot = legacyOrder[o].slot /\ (r.slot = "HELD" => r.status # "CANCELLED")
      /\ (r.status # "none" /\ legacyOrder[o].status # "none")
      /\ (r.reason = "request" <=> legacyOrder[o].reason = "request")
      /\ UNCHANGED legacyMoney
  BY <1>2, <1>4 DEF Status, CancellationLeaseEnds
<1> HIDE DEF r
<1>6. ASSUME legacyOrder'[o] = r, legacyMoney'[o] = legacyMoney[o], saleType' = saleType
      PROVE  OrderFits(o)' /\ Keeps(o)
  BY <1>1, <1>2, <1>4, <1>6
     DEF OrderFits, SlotFits, MoneyFits, Keeps, Begun, Status, AsBeforeTimeout, Stopped,
         CancellationPending, Decided, TimedOut, WorthRefunding, Unreturned, MayBeLost,
         OwnsCancellation
<1> QED
  BY <1>3, <1>5, <1>6, MarkMoves

(* The lease of a refund ends. *)
LEMMA RefundClaimEnding ==
  ASSUME ShopGood, NEW o \in LegacyOrders, LegacyRefundLeaseEnds(o)
  PROVE  ShopKept
<1> DEFINE m == [legacyMoney[o] EXCEPT !.claim = "UNKNOWN"]
<1>1. legacyOrder[o] \in OrderRecords /\ legacyMoney[o] \in MoneyRecords /\ OrderFits(o)
  BY RecordsTyped DEF ShopGood
<1>2. Begun(o)
  BY <1>1 DEF OrderFits, MoneyFits, LegacyRefundLeaseEnds, NoMoney
<1>3. m \in MoneyRecords
  BY <1>1 DEF MoneyRecords
<1>4. m.status = legacyMoney[o].status /\ m.claim = "UNKNOWN" /\ m.token = legacyMoney[o].token
  BY <1>1 DEF OrderRecords, MoneyRecords
<1>5. UNCHANGED <<saleType, usedSlots, currentQuantity, legacyOrder>>
      /\ legacyMoney' = [legacyMoney EXCEPT ![o] = m]
  BY DEF LegacyRefundLeaseEnds
<1> HIDE DEF m
<1>6. ASSUME legacyOrder'[o] = legacyOrder[o], legacyMoney'[o] = m, saleType' = saleType
      PROVE  OrderFits(o)' /\ Keeps(o)
  BY <1>1, <1>2, <1>4, <1>6
     DEF OrderFits, SlotFits, MoneyFits, Keeps, Begun, Status, AsBeforeTimeout, Stopped,
         CancellationPending, Decided, TimedOut, WorthRefunding, Unreturned, MayBeLost
<1> QED
  BY <1>3, <1>5, <1>6, MoneyMoves

(* A payment of a cancelled order is booked, or returned at once. *)
LEMMA SettlingKept ==
  ASSUME ShopGood, NEW o \in LegacyOrders, SettleCancelledLegacyOrder(o), UNCHANGED legacyOrder,
         NEW status \in {"PAID", "CANCELLED"},
         legacyMoney' = [legacyMoney EXCEPT ![o] = [NoMoney EXCEPT !.status = status]]
  PROVE  ShopKept
<1> DEFINE m == [NoMoney EXCEPT !.status = status]
<1>1. legacyOrder[o] \in OrderRecords /\ legacyMoney[o] \in MoneyRecords /\ OrderFits(o)
  BY RecordsTyped DEF ShopGood
<1>2. Status(o) = "CANCELLED" /\ legacyOrder[o].reason \notin {"request", "lack"}
  BY <1>1
     DEF OrderFits, SlotFits, MoneyFits, Begun, TimedOut, Unreturned, NoOrderYet,
         SettleCancelledLegacyOrder, SettledByRefund, PaymentArrives
<1>3. m \in MoneyRecords
  BY DEF MoneyRecords, NoMoney
<1>4. m.status = status /\ m.claim = "NONE" /\ m.token = "nobody"
  BY <1>1 DEF NoMoney, OrderRecords, MoneyRecords
<1>5. UNCHANGED <<saleType, usedSlots, currentQuantity, legacyOrder>>
      /\ legacyMoney' = [legacyMoney EXCEPT ![o] = m]
  BY DEF SettleCancelledLegacyOrder
<1> HIDE DEF m
<1>6. ASSUME legacyOrder'[o] = legacyOrder[o], legacyMoney'[o] = m, saleType' = saleType
      PROVE  OrderFits(o)' /\ Keeps(o)
  BY <1>1, <1>2, <1>6
     DEF OrderFits, SlotFits, MoneyFits, Keeps, Begun, Status, AsBeforeTimeout, Stopped, Decided,
         TimedOut, WorthRefunding, MayBeLost
<1> QED
  BY <1>3, <1>5, <1>6, MoneyMoves

(* Its refund fails. *)
LEMMA SettlingFailed ==
  ASSUME ShopGood, NEW o \in LegacyOrders, SettleCancelledLegacyOrder(o),
         legacyMoney' = [legacyMoney EXCEPT ![o] = [NoMoney EXCEPT !.status = "PAID",
                                                                   !.claim = "UNKNOWN"]],
         SetOrder(o, [legacyOrder[o] EXCEPT !.cancellation = "REFUND_FAILED",
                                            !.token = "nobody", !.lease = "over"])
  PROVE  ShopKept
<1> DEFINE r == [legacyOrder[o] EXCEPT !.cancellation = "REFUND_FAILED", !.token = "nobody",
                                       !.lease = "over"]
           m == [NoMoney EXCEPT !.status = "PAID", !.claim = "UNKNOWN"]
<1>1. legacyOrder[o] \in OrderRecords /\ legacyMoney[o] \in MoneyRecords /\ OrderFits(o)
  BY RecordsTyped DEF ShopGood
<1>2. Status(o) = "CANCELLED" /\ (legacyOrder[o].slot = "HELD" => Status(o) # "CANCELLED")
  BY <1>1
     DEF OrderFits, SlotFits, MoneyFits, Begun, TimedOut, NoOrderYet, SettleCancelledLegacyOrder,
         SettledByRefund, PaymentArrives
<1>3a. r \in OrderRecords
  BY <1>1, <1>2 DEF OrderRecords, Status
<1>3b. m \in MoneyRecords
  BY DEF MoneyRecords, NoMoney
<1>4. /\ r.status = legacyOrder[o].status /\ r.reason = legacyOrder[o].reason
      /\ r.slot = legacyOrder[o].slot /\ r.cancellation = "REFUND_FAILED" /\ r.token = "nobody"
      /\ r.lease = "over"
      /\ m.status = "PAID" /\ m.claim = "UNKNOWN" /\ m.token = "nobody"
  BY <1>1 DEF NoMoney, OrderRecords, MoneyRecords
<1>5. UNCHANGED <<saleType, usedSlots, currentQuantity>> /\ SetOrder(o, r)
      /\ r.slot = legacyOrder[o].slot /\ (r.slot = "HELD" => r.status # "CANCELLED")
      /\ (r.status # "none" /\ legacyOrder[o].status # "none")
      /\ (r.reason = "request" <=> legacyOrder[o].reason = "request")
      /\ legacyMoney' = [legacyMoney EXCEPT ![o] = m]
  BY <1>2, <1>4 DEF Status, SettleCancelledLegacyOrder
<1> HIDE DEF r, m
<1>6. ASSUME legacyOrder'[o] = r, legacyMoney'[o] = m, saleType' = saleType
      PROVE  OrderFits(o)' /\ Keeps(o)
  BY <1>1, <1>2, <1>4, <1>6
     DEF OrderFits, SlotFits, MoneyFits, Keeps, Begun, Status, AsBeforeTimeout, Stopped, Decided,
         TimedOut, WorthRefunding, Unreturned, MayBeLost
<1> QED
  BY <1>2, <1>3a, <1>3b, <1>5, <1>6, OrderMoves

(* A cancellation claims its order. *)
LEMMA Claiming ==
  ASSUME ShopGood, NEW o \in LegacyOrders, NEW w \in LegacyCancellers,
         ClaimLegacyCancellation(w, o)
  PROVE  ShopKept
<1> DEFINE r == [legacyOrder[o] EXCEPT !.cancellation = "REFUNDING", !.token = w,
                                       !.lease = "live"]
<1>1. legacyOrder[o] \in OrderRecords /\ legacyMoney[o] \in MoneyRecords /\ OrderFits(o)
  BY RecordsTyped DEF ShopGood
<1>2. /\ Begun(o) /\ Status(o) \notin {"none", "PENDING", "DELIVERING", "DELIVERED"}
      /\ (legacyOrder[o].slot = "HELD" => Status(o) # "CANCELLED")
  BY <1>1
     DEF OrderFits, SlotFits, Begun, ClaimLegacyCancellation, MayCancel, Cancellable,
         CancelledAgain
<1>3. r \in OrderRecords
  BY <1>1 DEF OrderRecords
<1>4. /\ r.status = legacyOrder[o].status /\ r.reason = legacyOrder[o].reason
      /\ r.slot = legacyOrder[o].slot /\ r.cancellation = "REFUNDING" /\ r.token = w
      /\ r.lease = "live"
  BY <1>1 DEF OrderRecords, MoneyRecords
<1>5. UNCHANGED <<saleType, usedSlots, currentQuantity>> /\ SetOrder(o, r)
      /\ r.slot = legacyOrder[o].slot /\ (r.slot = "HELD" => r.status # "CANCELLED")
      /\ (r.status # "none" /\ legacyOrder[o].status # "none")
      /\ (r.reason = "request" <=> legacyOrder[o].reason = "request")
      /\ UNCHANGED legacyMoney
  BY <1>2, <1>4 DEF Status, ClaimLegacyCancellation
<1> HIDE DEF r
<1>6. ASSUME legacyOrder'[o] = r, legacyMoney'[o] = legacyMoney[o], saleType' = saleType
      PROVE  OrderFits(o)' /\ Keeps(o)
  BY <1>1, <1>2, <1>4, <1>6
     DEF OrderFits, SlotFits, MoneyFits, Keeps, Begun, Status, AsBeforeTimeout, Stopped,
         CancellationPending, Decided, TimedOut, WorthRefunding, Unreturned, MayBeLost,
         OwnsCancellation, PendingLegacyCancellations, ClaimLegacyCancellation
<1> QED
  BY <1>3, <1>5, <1>6, MarkMoves

(* A cancellation that failed says so. *)
LEMMA FailureRecording ==
  ASSUME ShopGood, NEW o \in LegacyOrders, NEW step \in {"REFUND_FAILED", "LOCAL_FAILED"},
         Begun(o),
         UNCHANGED <<saleType, legacyMoney, usedSlots, currentQuantity>>,
         SetOrder(o, [legacyOrder[o] EXCEPT !.cancellation = step, !.token = "nobody",
                                            !.lease = "over"])
  PROVE  ShopKept
<1> DEFINE r == [legacyOrder[o] EXCEPT !.cancellation = step, !.token = "nobody",
                                       !.lease = "over"]
<1>1. legacyOrder[o] \in OrderRecords /\ legacyMoney[o] \in MoneyRecords /\ OrderFits(o)
  BY RecordsTyped DEF ShopGood
<1>2. /\ Status(o) \notin {"none", "PENDING"}
      /\ (legacyOrder[o].slot = "HELD" => Status(o) # "CANCELLED")
  BY <1>1 DEF OrderFits, SlotFits, Begun
<1>3. r \in OrderRecords
  BY <1>1 DEF OrderRecords
<1>4. /\ r.status = legacyOrder[o].status /\ r.reason = legacyOrder[o].reason
      /\ r.slot = legacyOrder[o].slot /\ r.cancellation = step /\ r.token = "nobody"
      /\ r.lease = "over"
  BY <1>1 DEF OrderRecords, MoneyRecords
<1>5. UNCHANGED <<saleType, usedSlots, currentQuantity>> /\ SetOrder(o, r)
      /\ r.slot = legacyOrder[o].slot /\ (r.slot = "HELD" => r.status # "CANCELLED")
      /\ (r.status # "none" /\ legacyOrder[o].status # "none")
      /\ (r.reason = "request" <=> legacyOrder[o].reason = "request")
      /\ UNCHANGED legacyMoney
  BY <1>2, <1>4 DEF Status
<1> HIDE DEF r
<1>6. ASSUME legacyOrder'[o] = r, legacyMoney'[o] = legacyMoney[o], saleType' = saleType
      PROVE  OrderFits(o)' /\ Keeps(o)
  BY <1>1, <1>4, <1>6
     DEF OrderFits, SlotFits, MoneyFits, Keeps, Begun, Status, AsBeforeTimeout, Stopped,
         CancellationPending, Decided, TimedOut, WorthRefunding, Unreturned, MayBeLost,
         OwnsCancellation, PendingLegacyCancellations
<1> QED
  BY <1>3, <1>5, <1>6, MarkMoves

(* A refund is claimed, by a run or by a caller whose order has stopped. *)
LEMMA RefundTaking ==
  ASSUME ShopGood, NEW o \in LegacyOrders, NEW w \in LegacyWorkers, ~RefundReturnsAtOnce(o),
         TakeRefund(o, w),
         w \in LegacyCancellers => AsBeforeTimeout(o),
         UNCHANGED <<saleType, legacyOrder, usedSlots, currentQuantity>>
  PROVE  ShopKept
<1> DEFINE m == [legacyMoney[o] EXCEPT !.claim = IF @ = "NONE" THEN "CLAIMED" ELSE "UNKNOWN",
                                       !.token = w]
<1>1. legacyOrder[o] \in OrderRecords /\ legacyMoney[o] \in MoneyRecords /\ OrderFits(o)
  BY RecordsTyped DEF ShopGood
<1>2. Begun(o)
  BY <1>1 DEF OrderFits, MoneyFits, RefundReturnsAtOnce, NoMoney
<1>3. m \in MoneyRecords
  BY <1>1 DEF MoneyRecords
<1>4. /\ m.status = legacyMoney[o].status
      /\ m.claim = (IF legacyMoney[o].claim = "NONE" THEN "CLAIMED" ELSE "UNKNOWN") /\ m.token = w
  BY <1>1 DEF OrderRecords, MoneyRecords
<1>5. UNCHANGED <<saleType, usedSlots, currentQuantity, legacyOrder>>
      /\ legacyMoney' = [legacyMoney EXCEPT ![o] = m]
  BY DEF TakeRefund
<1> HIDE DEF m
<1>6. ASSUME legacyOrder'[o] = legacyOrder[o], legacyMoney'[o] = m, saleType' = saleType
      PROVE  OrderFits(o)' /\ Keeps(o)
  BY <1>1, <1>2, <1>4, <1>6
     DEF OrderFits, SlotFits, MoneyFits, Keeps, Begun, Status, AsBeforeTimeout, Stopped,
         CancellationPending, Decided, TimedOut, WorthRefunding, Unreturned, MayBeLost
<1> QED
  BY <1>3, <1>5, <1>6, MoneyMoves

(* The refund succeeds. *)
LEMMA RefundDoing ==
  ASSUME ShopGood, NEW o \in LegacyOrders, NEW w \in LegacyWorkers, OwnsRefund(o, w),
         RefundDone(o, w),
         UNCHANGED <<saleType, legacyOrder, usedSlots, currentQuantity>>
  PROVE  ShopKept
<1> DEFINE m == [legacyMoney[o] EXCEPT !.status = "CANCELLED", !.claim = "NONE"]
<1>1. legacyOrder[o] \in OrderRecords /\ legacyMoney[o] \in MoneyRecords /\ OrderFits(o)
  BY RecordsTyped DEF ShopGood
<1>2. Begun(o)
  BY <1>1 DEF OrderFits, MoneyFits, OwnsRefund, NoMoney
<1>3. m \in MoneyRecords
  BY <1>1 DEF MoneyRecords
<1>4. m.status = "CANCELLED" /\ m.claim = "NONE" /\ m.token = legacyMoney[o].token
  BY <1>1 DEF OrderRecords, MoneyRecords
<1>5. UNCHANGED <<saleType, usedSlots, currentQuantity, legacyOrder>>
      /\ legacyMoney' = [legacyMoney EXCEPT ![o] = m]
  BY DEF RefundDone
<1> HIDE DEF m
<1>6. ASSUME legacyOrder'[o] = legacyOrder[o], legacyMoney'[o] = m, saleType' = saleType
      PROVE  OrderFits(o)' /\ Keeps(o)
  BY <1>1, <1>2, <1>4, <1>6
     DEF OrderFits, SlotFits, MoneyFits, Keeps, Begun, Status, AsBeforeTimeout, Stopped,
         CancellationPending, Decided, TimedOut, WorthRefunding, Unreturned, MayBeLost
<1> QED
  BY <1>3, <1>5, <1>6, MoneyMoves

(* The refund fails. *)
LEMMA RefundThrowing ==
  ASSUME ShopGood, NEW o \in LegacyOrders, NEW w \in LegacyWorkers, OwnsRefund(o, w),
         RefundThrows(o, w),
         UNCHANGED <<saleType, legacyOrder, usedSlots, currentQuantity>>
  PROVE  ShopKept
<1> DEFINE m == [legacyMoney[o] EXCEPT !.claim = "UNKNOWN"]
<1>1. legacyOrder[o] \in OrderRecords /\ legacyMoney[o] \in MoneyRecords /\ OrderFits(o)
  BY RecordsTyped DEF ShopGood
<1>2. Begun(o)
  BY <1>1 DEF OrderFits, MoneyFits, OwnsRefund, NoMoney
<1>3. m \in MoneyRecords
  BY <1>1 DEF MoneyRecords
<1>4. m.status = legacyMoney[o].status /\ m.claim = "UNKNOWN" /\ m.token = legacyMoney[o].token
  BY <1>1 DEF OrderRecords, MoneyRecords
<1>5. UNCHANGED <<saleType, usedSlots, currentQuantity, legacyOrder>>
      /\ legacyMoney' = [legacyMoney EXCEPT ![o] = m]
  BY DEF RefundThrows
<1> HIDE DEF m
<1>6. ASSUME legacyOrder'[o] = legacyOrder[o], legacyMoney'[o] = m, saleType' = saleType
      PROVE  OrderFits(o)' /\ Keeps(o)
  BY <1>1, <1>2, <1>4, <1>6
     DEF OrderFits, SlotFits, MoneyFits, Keeps, Begun, Status, AsBeforeTimeout, Stopped,
         CancellationPending, Decided, TimedOut, WorthRefunding, Unreturned, MayBeLost
<1> QED
  BY <1>3, <1>5, <1>6, MoneyMoves

(* An order that is cancelled already completes its mark. *)
LEMMA Recancelling ==
  ASSUME ShopGood, NEW o \in LegacyOrders, CompleteCancelled(o),
         UNCHANGED <<saleType, legacyMoney>>
  PROVE  ShopKept
<1> DEFINE r == [legacyOrder[o] EXCEPT !.cancellation = "COMPLETED", !.token = "nobody",
                                       !.lease = "over",
                                 !.slot = SlotAfterRelease(o)]
<1>1. legacyOrder[o] \in OrderRecords /\ legacyMoney[o] \in MoneyRecords /\ OrderFits(o)
  BY RecordsTyped DEF ShopGood
<1>2. Status(o) = "CANCELLED" /\ legacyOrder[o].slot # "HELD"
  BY <1>1 DEF OrderFits, SlotFits, CompleteCancelled
<1>0. SlotAfterRelease(o) \in {"none", "HELD", "RELEASED"}
  BY <1>1 DEF OrderRecords, SlotAfterRelease
<1>3. r \in OrderRecords
  BY <1>0, <1>1 DEF OrderRecords
<1>4. /\ r.status = legacyOrder[o].status /\ r.reason = legacyOrder[o].reason
      /\ r.slot = SlotAfterRelease(o) /\ r.cancellation = "COMPLETED" /\ r.token = "nobody"
      /\ r.lease = "over"
  BY <1>1 DEF OrderRecords, MoneyRecords
<1>5. UNCHANGED <<saleType, usedSlots, currentQuantity>> /\ SetOrder(o, r)
      /\ r.slot = legacyOrder[o].slot /\ (r.slot = "HELD" => r.status # "CANCELLED")
      /\ (r.status # "none" /\ legacyOrder[o].status # "none")
      /\ (r.reason = "request" <=> legacyOrder[o].reason = "request")
      /\ UNCHANGED legacyMoney
  BY <1>2, <1>4 DEF Status, CompleteCancelled, Completed, SlotsAfterRelease, SlotAfterRelease
<1> HIDE DEF r
<1>6. ASSUME legacyOrder'[o] = r, legacyMoney'[o] = legacyMoney[o], saleType' = saleType
      PROVE  OrderFits(o)' /\ Keeps(o)
  BY <1>1, <1>2, <1>4, <1>6
     DEF OrderFits, SlotFits, MoneyFits, Keeps, Begun, Status, AsBeforeTimeout, Stopped, Decided,
         TimedOut, WorthRefunding, Unreturned, MayBeLost, SlotAfterRelease
<1> QED
  BY <1>3, <1>5, <1>6, MarkMoves

(* An order is confirmed, or cancelled for lack after its refund. *)
LEMMA Deciding ==
  ASSUME ShopGood, NEW o \in LegacyOrders, NEW status \in {"CONFIRMED", "CANCELLED"},
         StillRecruiting(o),
         UNCHANGED <<saleType, legacyMoney, usedSlots, currentQuantity>>,
         SetOrder(o, [legacyOrder[o] EXCEPT !.status = status,
                        !.reason = IF status = "CANCELLED" THEN "lack" ELSE @]),
         status = "CANCELLED" => ~Unreturned(o)
  PROVE  ShopKept
<1> DEFINE r == [legacyOrder[o] EXCEPT !.status = status,
                                       !.reason = IF status = "CANCELLED" THEN "lack" ELSE @]
<1>1. legacyOrder[o] \in OrderRecords /\ legacyMoney[o] \in MoneyRecords /\ OrderFits(o)
  BY RecordsTyped DEF ShopGood
<1>2. Status(o) = "RECRUITING" /\ ~CancellationPending(o) /\ legacyOrder[o].slot # "HELD"
      /\ legacyOrder[o].reason \notin {"request", "lack"}
  BY <1>1 DEF OrderFits, SlotFits, StillRecruiting
<1>3. r \in OrderRecords
  BY <1>1 DEF OrderRecords
<1>4. /\ r.status = status
      /\ r.reason = (IF status = "CANCELLED" THEN "lack" ELSE legacyOrder[o].reason)
      /\ r.slot = legacyOrder[o].slot /\ r.cancellation = legacyOrder[o].cancellation
      /\ r.token = legacyOrder[o].token /\ r.lease = legacyOrder[o].lease
  BY <1>1 DEF OrderRecords, MoneyRecords
<1>5. UNCHANGED <<saleType, usedSlots, currentQuantity>> /\ SetOrder(o, r)
      /\ r.slot = legacyOrder[o].slot /\ (r.slot = "HELD" => r.status # "CANCELLED")
      /\ (r.status # "none" /\ legacyOrder[o].status # "none")
      /\ (r.reason = "request" <=> legacyOrder[o].reason = "request")
      /\ UNCHANGED legacyMoney
  BY <1>2, <1>4 DEF Status
<1> HIDE DEF r
<1>6. ASSUME legacyOrder'[o] = r, legacyMoney'[o] = legacyMoney[o], saleType' = saleType
      PROVE  OrderFits(o)' /\ Keeps(o)
  BY <1>1, <1>2, <1>4, <1>6
     DEF OrderFits, SlotFits, MoneyFits, Keeps, Begun, Status, AsBeforeTimeout, Stopped, Decided,
         TimedOut, WorthRefunding, Unreturned, MayBeLost, OwnsCancellation
<1> QED
  BY <1>3, <1>5, <1>6, MarkMoves

(* A checkout. *)
LEMMA Creating ==
  ASSUME ShopGood, NEW o \in LegacyOrders, CreateLegacyOrder(o)
  PROVE  ShopKept
<1> DEFINE r == [NoOrderYet EXCEPT !.status = "PENDING",
                                   !.slot = IF saleType = "normal" THEN "HELD" ELSE "none"]
           m == legacyMoney[o]
<1>1. legacyOrder[o] \in OrderRecords /\ legacyMoney[o] \in MoneyRecords /\ OrderFits(o)
  BY RecordsTyped DEF ShopGood
<1>2. legacyOrder[o] = NoOrderYet /\ legacyMoney[o] = NoMoney
  BY <1>1 DEF OrderFits, SlotFits, MoneyFits, Begun, CreateLegacyOrder
<1>3a. r \in OrderRecords
  BY <1>1, <1>2 DEF OrderRecords
<1>3b. m \in MoneyRecords
  BY <1>1
<1>4. /\ r.status = "PENDING" /\ r.reason = "none"
      /\ r.slot = (IF saleType = "normal" THEN "HELD" ELSE "none") /\ r.cancellation = "none"
      /\ r.token = "nobody" /\ r.lease = "over"
      /\ m.status = legacyMoney[o].status
      /\ m.claim = legacyMoney[o].claim
      /\ m.token = legacyMoney[o].token
  BY <1>1 DEF NoOrderYet, OrderRecords, MoneyRecords
<1>5. /\ saleType' = saleType /\ SetOrder(o, r)
      /\ legacyMoney' = [legacyMoney EXCEPT ![o] = m]
      /\ r.slot = "HELD" => r.status # "CANCELLED"
      /\ usedSlots' = usedSlots - SlotWeight(o, legacyOrder[o]) + SlotWeight(o, r)
      /\ SlotWeight(o, r) > 0 => usedSlots' <= TotalCap
      /\ currentQuantity' = currentQuantity - GroupWeight(o, legacyOrder[o]) + GroupWeight(o, r)
  <2>1. saleType' = saleType /\ SetOrder(o, r)
    BY DEF CreateLegacyOrder
  <2>2. legacyMoney' = [legacyMoney EXCEPT ![o] = m]
    BY TypedRecords DEF ShopGood, Typed, CreateLegacyOrder
  <2>3. r.slot = "HELD" => r.status # "CANCELLED"
    BY <1>4
  <2>4. usedSlots' = usedSlots - SlotWeight(o, legacyOrder[o]) + SlotWeight(o, r)
    BY <1>2, TypedRecords DEF ShopGood, Typed, NoOrderYet, CreateLegacyOrder, SlotWeight
  <2>5. SlotWeight(o, r) > 0 => usedSlots' <= TotalCap
    BY DEF CreateLegacyOrder, SlotWeight, SlotFree
  <2>6. currentQuantity' = currentQuantity - GroupWeight(o, legacyOrder[o]) + GroupWeight(o, r)
    BY <1>2, TypedRecords DEF ShopGood, Typed, NoOrderYet, CreateLegacyOrder, GroupWeight
  <2> QED
    BY <2>1, <2>2, <2>3, <2>4, <2>5, <2>6
<1> HIDE DEF r, m
<1>6. ASSUME legacyOrder'[o] = r, legacyMoney'[o] = m, saleType' = saleType
      PROVE  OrderFits(o)' /\ Keeps(o)
  BY <1>2, <1>4, <1>6, LegacyAssumption
     DEF OrderFits, SlotFits, MoneyFits, Keeps, Begun, Status, Decided, LegacyWorkers, NoMoney,
         CreateLegacyOrder
<1> QED
  BY <1>3a, <1>3b, <1>5, <1>6, SlotMoves

(* A payment after the time-out. *)
LEMMA FinalizingLate ==
  ASSUME ShopGood, NEW o \in LegacyOrders, FinalizeLateLegacyOrder(o)
  PROVE  ShopKept
<1> DEFINE r == [legacyOrder[o] EXCEPT !.status = PaidStatus,
                                 !.slot = IF @ = "RELEASED" THEN "HELD" ELSE @]
           m == [NoMoney EXCEPT !.status = "PAID"]
<1>1. legacyOrder[o] \in OrderRecords /\ legacyMoney[o] \in MoneyRecords /\ OrderFits(o)
  BY RecordsTyped DEF ShopGood
<1>2. TimedOut(o) /\ legacyOrder[o].slot # "HELD" /\ legacyOrder[o].cancellation # "REFUNDING"
  BY <1>1 DEF OrderFits, SlotFits, TimedOut, FinalizeLateLegacyOrder, SettledByRefund
<1>3a. r \in OrderRecords
  BY <1>1 DEF OrderRecords, PaidStatus
<1>3b. m \in MoneyRecords
  BY DEF MoneyRecords, NoMoney
<1>4. /\ r.status = PaidStatus /\ r.reason = legacyOrder[o].reason
      /\ r.slot = (IF legacyOrder[o].slot = "RELEASED" THEN "HELD" ELSE legacyOrder[o].slot)
      /\ r.cancellation = legacyOrder[o].cancellation /\ r.token = legacyOrder[o].token
      /\ r.lease = legacyOrder[o].lease
      /\ m.status = "PAID" /\ m.claim = "NONE" /\ m.token = "nobody"
  BY <1>1 DEF NoMoney, OrderRecords, MoneyRecords
<1>5. /\ saleType' = saleType /\ SetOrder(o, r)
      /\ legacyMoney' = [legacyMoney EXCEPT ![o] = m]
      /\ r.slot = "HELD" => r.status # "CANCELLED"
      /\ usedSlots' = usedSlots - SlotWeight(o, legacyOrder[o]) + SlotWeight(o, r)
      /\ SlotWeight(o, r) > 0 => usedSlots' <= TotalCap
      /\ currentQuantity' = currentQuantity - GroupWeight(o, legacyOrder[o]) + GroupWeight(o, r)
  <2>1. saleType' = saleType /\ SetOrder(o, r)
    BY DEF FinalizeLateLegacyOrder
  <2>2. legacyMoney' = [legacyMoney EXCEPT ![o] = m]
    BY DEF FinalizeLateLegacyOrder, Booked
  <2>3. r.slot = "HELD" => r.status # "CANCELLED"
    BY DEF PaidStatus
  <2>4. usedSlots' = usedSlots - SlotWeight(o, legacyOrder[o]) + SlotWeight(o, r)
    BY TypedRecords, LegacyAssumption DEF ShopGood, Typed, FinalizeLateLegacyOrder, SlotWeight
  <2>5. SlotWeight(o, r) > 0 => usedSlots' <= TotalCap
    BY <1>2 DEF FinalizeLateLegacyOrder, SlotWeight, SlotFree
  <2>0. r.status # "none"
    BY DEF PaidStatus
  <2>6. currentQuantity' = currentQuantity - GroupWeight(o, legacyOrder[o]) + GroupWeight(o, r)
    BY <2>0, TypedRecords, Weights
       DEF ShopGood, Typed, Status, TimedOut, FinalizeLateLegacyOrder, GroupWeight
  <2> QED
    BY <2>1, <2>2, <2>3, <2>4, <2>5, <2>6
<1> HIDE DEF r, m
<1>6. ASSUME legacyOrder'[o] = r, legacyMoney'[o] = m, saleType' = saleType
      PROVE  OrderFits(o)' /\ Keeps(o)
  BY <1>1, <1>2, <1>4, <1>6
     DEF OrderFits, SlotFits, MoneyFits, Keeps, Begun, Status, AsBeforeTimeout, Decided, TimedOut,
         MayBeLost, OwnsCancellation, PaidStatus
<1> QED
  BY <1>3a, <1>3b, <1>5, <1>6, SlotMoves

(* An order that was not paid, or with a wrong amount, is cancelled. *)
LEMMA TimingOut ==
  ASSUME ShopGood, NEW o \in LegacyOrders, NEW reason \in {"timeout", "amount_mismatch"},
         CancelPendingLegacyOrder(o, reason)
  PROVE  ShopKept
<1> DEFINE r == [legacyOrder[o] EXCEPT !.status = "CANCELLED", !.reason = reason,
                                       !.slot = SlotAfterRelease(o)]
           m == [NoMoney EXCEPT !.status = IF reason = "timeout" THEN "none" ELSE "CANCELLED"]
<1>1. legacyOrder[o] \in OrderRecords /\ legacyMoney[o] \in MoneyRecords /\ OrderFits(o)
  BY RecordsTyped DEF ShopGood
<1>2. Status(o) = "PENDING" /\ legacyMoney[o] = NoMoney /\ legacyOrder[o].reason = "none"
  BY <1>1 DEF OrderFits, SlotFits, MoneyFits, Begun, CancelPendingLegacyOrder
<1>0. SlotAfterRelease(o) \in {"none", "HELD", "RELEASED"}
  BY <1>1 DEF OrderRecords, SlotAfterRelease
<1>3a. r \in OrderRecords
  BY <1>0, <1>1 DEF OrderRecords
<1>3b. m \in MoneyRecords
  BY <1>1, <1>2 DEF MoneyRecords
<1>4. /\ r.status = "CANCELLED" /\ r.reason = reason /\ r.slot = SlotAfterRelease(o)
      /\ r.cancellation = legacyOrder[o].cancellation /\ r.token = legacyOrder[o].token
      /\ r.lease = legacyOrder[o].lease
      /\ m.status = (IF reason = "timeout" THEN "none" ELSE "CANCELLED")
      /\ m.claim = "NONE"
      /\ m.token = "nobody"
  BY <1>1 DEF NoMoney, OrderRecords, MoneyRecords
<1>5. /\ saleType' = saleType /\ SetOrder(o, r)
      /\ legacyMoney' = [legacyMoney EXCEPT ![o] = m]
      /\ r.slot = "HELD" => r.status # "CANCELLED"
      /\ usedSlots' = usedSlots - SlotWeight(o, legacyOrder[o]) + SlotWeight(o, r)
      /\ SlotWeight(o, r) > 0 => usedSlots' <= TotalCap
      /\ currentQuantity' = currentQuantity - GroupWeight(o, legacyOrder[o]) + GroupWeight(o, r)
  <2>1. saleType' = saleType /\ SetOrder(o, r)
    BY DEF CancelPendingLegacyOrder
  <2>2. legacyMoney' = [legacyMoney EXCEPT ![o] = m]
    BY <1>2, TypedRecords DEF ShopGood, Typed, NoMoney, CancelPendingLegacyOrder
  <2>3. r.slot = "HELD" => r.status # "CANCELLED"
    BY DEF SlotAfterRelease
  <2>4. usedSlots' = usedSlots - SlotWeight(o, legacyOrder[o]) + SlotWeight(o, r)
    BY TypedRecords, LegacyAssumption
       DEF ShopGood, Typed, CancelPendingLegacyOrder, SlotAfterRelease, SlotsAfterRelease,
           SlotWeight
  <2>5. SlotWeight(o, r) > 0 => usedSlots' <= TotalCap
    BY DEF SlotAfterRelease, SlotWeight
  <2>6. currentQuantity' = currentQuantity - GroupWeight(o, legacyOrder[o]) + GroupWeight(o, r)
    BY <1>2, TypedRecords, LegacyAssumption
       DEF ShopGood, Typed, Status, CancelPendingLegacyOrder, GroupWeight
  <2> QED
    BY <2>1, <2>2, <2>3, <2>4, <2>5, <2>6
<1> HIDE DEF r, m
<1>6. ASSUME legacyOrder'[o] = r, legacyMoney'[o] = m, saleType' = saleType
      PROVE  OrderFits(o)' /\ Keeps(o)
  BY <1>1, <1>2, <1>4, <1>6, LegacyAssumption
     DEF OrderFits, SlotFits, MoneyFits, Keeps, Begun, Status, Decided, TimedOut, LegacyWorkers,
         SlotAfterRelease
<1> QED
  BY <1>3a, <1>3b, <1>5, <1>6, SlotMoves

(* An order is cancelled at a request, after its refund. *)
LEMMA Cancelling ==
  ASSUME ShopGood, NEW o \in LegacyOrders, CancelNow(o), Begun(o), ~Unreturned(o),
         UNCHANGED <<saleType, legacyMoney>>
  PROVE  ShopKept
<1> DEFINE r == [legacyOrder[o] EXCEPT !.cancellation = "COMPLETED", !.token = "nobody",
                                       !.lease = "over",
                                 !.status = "CANCELLED", !.reason = "request",
                                 !.slot = SlotAfterRelease(o)]
           m == legacyMoney[o]
<1>1. legacyOrder[o] \in OrderRecords /\ legacyMoney[o] \in MoneyRecords /\ OrderFits(o)
  BY RecordsTyped DEF ShopGood
<1>2. Status(o) \notin {"none", "PENDING", "CANCELLED"} /\ legacyOrder[o].reason # "request"
  BY <1>1 DEF OrderFits, SlotFits, Begun, CancelNow
<1>0. SlotAfterRelease(o) \in {"none", "HELD", "RELEASED"}
  BY <1>1 DEF OrderRecords, SlotAfterRelease
<1>3a. r \in OrderRecords
  BY <1>0, <1>1 DEF OrderRecords
<1>3b. m \in MoneyRecords
  BY <1>1
<1>4. /\ r.status = "CANCELLED" /\ r.reason = "request" /\ r.slot = SlotAfterRelease(o)
      /\ r.cancellation = "COMPLETED" /\ r.token = "nobody" /\ r.lease = "over"
      /\ m.status = legacyMoney[o].status
      /\ m.claim = legacyMoney[o].claim
      /\ m.token = legacyMoney[o].token
  BY <1>1 DEF OrderRecords, MoneyRecords
<1>5. /\ saleType' = saleType /\ SetOrder(o, r)
      /\ legacyMoney' = [legacyMoney EXCEPT ![o] = m]
      /\ r.slot = "HELD" => r.status # "CANCELLED"
      /\ usedSlots' = usedSlots - SlotWeight(o, legacyOrder[o]) + SlotWeight(o, r)
      /\ SlotWeight(o, r) > 0 => usedSlots' <= TotalCap
      /\ currentQuantity' = currentQuantity - GroupWeight(o, legacyOrder[o]) + GroupWeight(o, r)
  <2>1. saleType' = saleType /\ SetOrder(o, r)
    BY DEF CancelNow, Completed
  <2>2. legacyMoney' = [legacyMoney EXCEPT ![o] = m]
    BY TypedRecords DEF ShopGood, Typed
  <2>3. r.slot = "HELD" => r.status # "CANCELLED"
    BY DEF SlotAfterRelease
  <2>4. usedSlots' = usedSlots - SlotWeight(o, legacyOrder[o]) + SlotWeight(o, r)
    BY TypedRecords, LegacyAssumption
       DEF ShopGood, Typed, CancelNow, SlotAfterRelease, SlotsAfterRelease, SlotWeight
  <2>5. SlotWeight(o, r) > 0 => usedSlots' <= TotalCap
    BY DEF SlotAfterRelease, SlotWeight
  <2>6. currentQuantity' = currentQuantity - GroupWeight(o, legacyOrder[o]) + GroupWeight(o, r)
    BY <1>2, TypedRecords, LegacyAssumption
       DEF ShopGood, Typed, Status, CancelNow, QuantityAfterRestore, GroupWeight
  <2> QED
    BY <2>1, <2>2, <2>3, <2>4, <2>5, <2>6
<1> HIDE DEF r, m
<1>6. ASSUME legacyOrder'[o] = r, legacyMoney'[o] = m, saleType' = saleType
      PROVE  OrderFits(o)' /\ Keeps(o)
  BY <1>1, <1>2, <1>4, <1>6
     DEF OrderFits, SlotFits, MoneyFits, Keeps, Begun, Status, AsBeforeTimeout, Stopped, Decided,
         TimedOut, WorthRefunding, Unreturned, MayBeLost, SlotAfterRelease
<1> QED
  BY <1>3a, <1>3b, <1>5, <1>6, SlotMoves

(***************************************************************************)
(* The steps.                                                              *)
(***************************************************************************)

(* An empty shop satisfies the invariant. *)
LEMMA ShopInitially == LegacyInit => ShopInv
<1> SUFFICES ASSUME LegacyInit PROVE ShopInv
  OBVIOUS
<1>1. LegacyTypeOK
  <2>1. NoOrderYet \in OrderRecords /\ NoMoney \in MoneyRecords
    BY DEF NoOrderYet, NoMoney, OrderRecords, MoneyRecords
  <2> QED
    BY <2>1, TypedRecords, LegacyAssumption DEF LegacyInit, Typed
<1>2. WorkersTyped
  BY DEF LegacyInit, WorkersTyped, NoCall, NoGroupRun
<1>3. LegacyCountersMatchOrders
  <2>1. HoldingSlots = {} /\ Counted = {}
    BY DEF LegacyInit, HoldingSlots, Counted, Status, NoOrderYet
  <2> QED
    BY <2>1, QuantityOfNothing DEF LegacyInit, LegacyCountersMatchOrders
<1>4. ASSUME NEW o \in LegacyOrders PROVE SlotFits(o) /\ MoneyFits(o)
  BY LegacyAssumption
     DEF LegacyInit, SlotFits, MoneyFits, Status, NoOrderYet, NoMoney, Begun, TimedOut,
         Unreturned, LegacyWorkers
<1>5. ASSUME NEW w \in LegacyCancellers PROVE CallerFits(w)
  BY DEF LegacyInit, CallerFits, NoCall
<1>6. ASSUME NEW g \in GroupRuns PROVE RunFits(g)
  BY DEF LegacyInit, RunFits, NoGroupRun
<1> QED
  BY <1>1, <1>2, <1>3, <1>4, <1>5, <1>6 DEF ShopInv

(* The invariant is about orders, and about who works on them. *)
LEMMA ShopGoodness == ShopInv <=> /\ ShopGood /\ WorkersTyped
                                  /\ \A w \in LegacyCancellers : CallerFits(w)
                                  /\ \A g \in GroupRuns : RunFits(g)
BY DEF ShopInv, ShopGood, OrderFits

(* Workers that do not move. *)
LEMMA CallersStay ==
  ASSUME ShopInv, ShopKept, UNCHANGED canceller, NEW w \in LegacyCancellers
  PROVE  CallerFits(w)'
BY CallersKeep DEF ShopInv, ShopKept

(* The same of a run. *)
LEMMA RunsStay ==
  ASSUME ShopInv, ShopKept, UNCHANGED groupRun, NEW g \in GroupRuns
  PROVE  RunFits(g)'
BY RunsKeep DEF ShopInv, ShopKept

(* Actions that move no worker. *)
LEMMA WorkersStay ==
  ASSUME ShopInv, ShopKept, UNCHANGED <<canceller, groupRun>>
  PROVE  ShopInv'
<1>1. WorkersTyped'
  BY DEF ShopInv, WorkersTyped
<1>2. ShopGood'
  BY DEF ShopKept
<1> QED
  BY <1>1, <1>2, CallersStay, RunsStay DEF ShopInv, ShopGood, OrderFits

(* A caller that moves on, and the others. *)
CallerSteps == {"idle", "refund", "post", "local", "settlement", "REFUND_FAILED", "LOCAL_FAILED"}

LEMMA CallerMoves ==
  ASSUME ShopInv, ShopKept, UNCHANGED groupRun, NEW w \in LegacyCancellers,
         canceller[w].step # "idle", NEW step \in CallerSteps \ {"idle", "refund"},
         CallerTo(w, step),
         step = "post" => canceller[w].step = "refund",
         step \in {"post", "local"} =>
           \/ canceller[w].step \in {"post", "local"}
           \/ \A o \in LegacyOrders : o = canceller[w].order => ~Unreturned(o)'
  PROVE  ShopInv'
<1>1. /\ canceller'[w] = [canceller[w] EXCEPT !.step = step]
      /\ \A v \in LegacyCancellers : v # w => canceller'[v] = canceller[v]
  BY DEF ShopInv, WorkersTyped, CallerTo
<1>2. canceller'[w].step = step /\ canceller'[w].order = canceller[w].order
  BY <1>1 DEF ShopInv, WorkersTyped
<1>3. WorkersTyped'
  BY <1>1, <1>2 DEF ShopInv, WorkersTyped, CallerTo, CallerSteps
<1>4. ASSUME NEW v \in LegacyCancellers PROVE CallerFits(v)'
  BY <1>1, <1>2, CallersKeep DEF ShopInv, ShopKept
<1> QED
  BY <1>3, <1>4, RunsStay DEF ShopInv, ShopKept, ShopGood, OrderFits

(* A caller that ends or dies. *)
LEMMA CallersLeave ==
  ASSUME ShopInv, ShopKept, UNCHANGED groupRun, NEW w \in LegacyCancellers, CallerLeaves(w)
  PROVE  ShopInv'
<1>1. canceller'[w] = NoCall /\ \A v \in LegacyCancellers : v # w => canceller'[v] = canceller[v]
  BY DEF ShopInv, WorkersTyped, CallerLeaves
<1>2. WorkersTyped'
  BY <1>1 DEF ShopInv, WorkersTyped, CallerLeaves, NoCall
<1>3. ASSUME NEW v \in LegacyCancellers PROVE CallerFits(v)'
  BY <1>1, CallersKeep DEF ShopInv, ShopKept, NoCall
<1> QED
  BY <1>2, <1>3, RunsStay DEF ShopInv, ShopKept, ShopGood, OrderFits

(* A run of the group's decision that moves on. *)
LEMMA RunMoves ==
  ASSUME ShopInv, ShopKept, UNCHANGED canceller, NEW g \in GroupRuns, NEW r,
         groupRun' = [groupRun EXCEPT ![g] = r], WorkersTyped', RunFits(g)'
  PROVE  ShopInv'
<1>1. \A h \in GroupRuns : h # g => groupRun'[h] = groupRun[h]
  BY DEF ShopInv, WorkersTyped
<1>2. ASSUME NEW h \in GroupRuns PROVE RunFits(h)'
  BY <1>1, RunsKeep DEF ShopInv, ShopKept
<1> QED
  BY <1>2, CallersStay DEF ShopInv, ShopKept, ShopGood, OrderFits

(* The finaliser of a payment found after a cancellation. *)
LEMMA SettlingKeeps ==
  ASSUME ShopGood, NEW o \in LegacyOrders, SettleCancelledLegacyOrder(o)
  PROVE  ShopKept
<1>1. CASE Booked(o) /\ UNCHANGED legacyOrder
  BY <1>1, SettlingKept DEF Booked
<1>2. CASE /\ legacyMoney' = [legacyMoney EXCEPT ![o] = [NoMoney EXCEPT !.status = "CANCELLED"]]
           /\ UNCHANGED legacyOrder
  BY <1>2, SettlingKept
<1>3. CASE /\ legacyMoney' = [legacyMoney EXCEPT
                ![o] = [NoMoney EXCEPT !.status = "PAID", !.claim = "UNKNOWN"]]
           /\ SetOrder(o, [legacyOrder[o] EXCEPT !.cancellation = "REFUND_FAILED",
                             !.token = "nobody", !.lease = "over"])
  BY <1>3, SettlingFailed
<1> QED
  BY <1>1, <1>2, <1>3 DEF SettleCancelledLegacyOrder

(* Customers, payments, sellers and expiring claims. *)
LEMMA OrderStepsKeep ==
  ASSUME ShopInv, NEW o \in LegacyOrders, OrderStep(o)
  PROVE  ShopInv'
<1>0. ShopGood
  BY ShopGoodness
<1>1. CASE CreateLegacyOrder(o)
  BY <1>0, <1>1, Creating, WorkersStay DEF CreateLegacyOrder
<1>2. CASE FinalizeLegacyOrder(o)
  BY <1>0, <1>2, Finalizing, WorkersStay DEF FinalizeLegacyOrder
<1>3. CASE FinalizeLateLegacyOrder(o)
  BY <1>0, <1>3, FinalizingLate, WorkersStay DEF FinalizeLateLegacyOrder
<1>4. CASE RefundLateLegacyPayment(o)
  BY <1>0, <1>4, RefundingLate, WorkersStay DEF RefundLateLegacyPayment
<1>5. CASE SettleCancelledLegacyOrder(o)
  BY <1>0, <1>5, SettlingKeeps, WorkersStay DEF SettleCancelledLegacyOrder
<1>6. ASSUME NEW reason \in {"timeout", "amount_mismatch"}, CancelPendingLegacyOrder(o, reason)
      PROVE  ShopInv'
  BY <1>0, <1>6, TimingOut, WorkersStay DEF CancelPendingLegacyOrder
<1>7. CASE AdvanceLegacyOrder(o)
  <2>1. PICK status \in {"PREPARING", "DELIVERING", "DELIVERED"} :
          SetOrder(o, [legacyOrder[o] EXCEPT !.status = status])
    BY <1>7 DEF AdvanceLegacyOrder, LegacyTransitions
  <2> QED
    BY <1>0, <1>7, <2>1, Advancing, WorkersStay DEF AdvanceLegacyOrder
<1>8. CASE CancellationLeaseEnds(o)
  BY <1>0, <1>8, ClaimEnding, WorkersStay DEF CancellationLeaseEnds
<1>9. CASE LegacyRefundLeaseEnds(o)
  BY <1>0, <1>9, RefundClaimEnding, WorkersStay DEF LegacyRefundLeaseEnds
<1> QED
  BY <1>1, <1>2, <1>3, <1>4, <1>5, <1>6, <1>7, <1>8, <1>9 DEF OrderStep

(* What is known of the order of a caller at work. *)
LEMMA CallersOrder ==
  ASSUME ShopInv, NEW w \in LegacyCancellers, canceller[w].step # "idle"
  PROVE  /\ canceller[w].order \in LegacyOrders /\ Begun(ItsOrder(w))
         /\ canceller[w].step \in {"refund", "post"} => AsBeforeTimeout(ItsOrder(w))
         /\ canceller[w].step \in {"post", "local"} => ~MayBeLost(ItsOrder(w), w)
         /\ ItsOrder(w) \in LegacyOrders
BY DEF ShopInv, WorkersTyped, CallerFits, AsBeforeTimeout, MayBeLost, ItsOrder

(* A cancellation begins: the mark it leaves stops the order. *)
LEMMA ClaimingKeeps ==
  ASSUME ShopInv, NEW w \in LegacyCancellers, NEW o \in LegacyOrders,
         ClaimLegacyCancellation(w, o)
  PROVE  ShopInv'
<1>1. ShopKept
  BY ShopGoodness, Claiming
<1>2. PICK as \in {"consumer", "seller", "admin"} :
        /\ MayCancel(o, as)
        /\ canceller' = [canceller EXCEPT ![w] = [step |-> "refund", as |-> as, order |-> o]]
  BY DEF ClaimLegacyCancellation
<1>3. /\ canceller'[w] = [step |-> "refund", as |-> as, order |-> o]
      /\ \A v \in LegacyCancellers : v # w => canceller'[v] = canceller[v]
  BY <1>2 DEF ShopInv, WorkersTyped
<1>4. WorkersTyped'
  BY <1>2, <1>3 DEF ShopInv, WorkersTyped, ClaimLegacyCancellation
<1>5. Begun(o)' /\ Stopped(o)'
  <2>1. legacyOrder'[o] = [legacyOrder[o] EXCEPT !.cancellation = "REFUNDING", !.token = w,
                                                 !.lease = "live"]
    BY TypedRecords DEF ShopInv, Typed, ClaimLegacyCancellation, SetOrder
  <2>2. legacyOrder[o] \in OrderRecords
    BY RecordsTyped DEF ShopInv
  <2>3. /\ legacyOrder'[o].status = legacyOrder[o].status
        /\ legacyOrder'[o].cancellation = "REFUNDING"
    BY <2>1, <2>2 DEF OrderRecords
  <2>4. Status(o) \notin {"none", "PENDING", "DELIVERING", "DELIVERED"}
    BY <1>2 DEF MayCancel, Cancellable, CancelledAgain
  <2> QED
    BY <2>3, <2>4 DEF Begun, Stopped, Status, CancellationPending, PendingLegacyCancellations
<1>6. CallerFits(w)'
  <2>1. ItsOrder(w)' = o /\ canceller'[w].step = "refund"
    BY <1>3 DEF ItsOrder
  <2> QED
    BY <1>5, <2>1 DEF CallerFits
<1>7. ASSUME NEW v \in LegacyCancellers PROVE CallerFits(v)'
  BY <1>1, <1>3, <1>6, CallersKeep DEF ShopInv, ShopKept
<1> QED
  BY <1>1, <1>4, <1>7, RunsStay
     DEF ShopInv, ShopKept, ShopGood, OrderFits, ClaimLegacyCancellation

(* Its refund is taken up, by it or already by another. *)
LEMMA RefundKeeps ==
  ASSUME ShopInv, NEW w \in LegacyCancellers, RefundLegacyOrder(w)
  PROVE  ShopInv'
<1>1. canceller[w].step = "refund" /\ w \in LegacyWorkers
  BY DEF RefundLegacyOrder, CallerAt, LegacyWorkers
<1>2. PICK o \in LegacyOrders : o = ItsOrder(w)
  BY <1>1, CallersOrder
<1>3. AsBeforeTimeout(o) /\ ShopGood
  BY <1>1, <1>2, CallersOrder, ShopGoodness
<1>4. CASE RefundReturnsAtOnce(o)
  <2>1. CallerTo(w, "local") /\ UNCHANGED legacyMoney
    BY <1>2, <1>4 DEF RefundLegacyOrder
  <2>2. ShopKept
    BY <1>3, <2>1, NoMove DEF RefundLegacyOrder
  <2>3. ~Unreturned(o)'
    BY <1>4, <2>1 DEF RefundReturnsAtOnce, Unreturned
  <2>4. canceller[w].order = o
    BY <1>2 DEF ItsOrder
  <2> QED
    BY <1>1, <2>1, <2>2, <2>3, <2>4, CallerMoves DEF RefundLegacyOrder, CallerSteps
<1>5. CASE ~RefundReturnsAtOnce(o)
  <2>1. CallerTo(w, "post") /\ TakeRefund(o, w)
    BY <1>2, <1>5 DEF RefundLegacyOrder
  <2>2. ShopKept
    BY <1>1, <1>3, <1>5, <2>1, RefundTaking DEF RefundLegacyOrder
  <2>3. ~Unreturned(o)'
    <3>1. legacyMoney[o] \in MoneyRecords /\ legacyMoney \in [LegacyOrders -> MoneyRecords]
      BY TypedRecords DEF ShopInv, Typed
    <3>2. legacyMoney'[o].claim \in {"CLAIMED", "UNKNOWN"}
      BY <2>1, <3>1 DEF TakeRefund, MoneyRecords
    <3> QED
      BY <3>2 DEF Unreturned
  <2>4. canceller[w].order = o
    BY <1>2 DEF ItsOrder
  <2> QED
    BY <1>1, <2>1, <2>2, <2>3, <2>4, CallerMoves DEF RefundLegacyOrder, CallerSteps
<1> QED
  BY <1>4, <1>5

(* The refund is answered. *)
LEMMA PostingKeeps ==
  ASSUME ShopInv, NEW w \in LegacyCancellers, PostLegacyRefund(w)
  PROVE  ShopInv'
<1>1. canceller[w].step = "post" /\ w \in LegacyWorkers
  BY DEF PostLegacyRefund, CallerAt, LegacyWorkers
<1>2. PICK o \in LegacyOrders : o = ItsOrder(w)
  BY <1>1, CallersOrder
<1>3. ShopGood
  BY ShopGoodness
<1>4. ShopKept
  <2>1. CASE OwnsRefund(o, w)
    BY <1>1, <1>2, <1>3, <2>1, RefundDoing, RefundThrowing DEF PostLegacyRefund
  <2>2. CASE ~OwnsRefund(o, w)
    <3>1. UNCHANGED legacyMoney
      BY <1>2, <2>2 DEF PostLegacyRefund, RefundDone, RefundThrows
    <3> QED
      BY <1>3, <3>1, NoMove DEF PostLegacyRefund
  <2> QED
    BY <2>1, <2>2
<1>5. CallerTo(w, "local") \/ CallerTo(w, "REFUND_FAILED")
  BY DEF PostLegacyRefund
<1> QED
  BY <1>1, <1>4, <1>5, CallerMoves DEF PostLegacyRefund, CallerSteps

(* The order is cancelled: its money was seen returned. *)
LEMMA LocalPartKeeps ==
  ASSUME ShopInv, NEW w \in LegacyCancellers, CancelLocally(w)
  PROVE  ShopInv'
<1>1. canceller[w].step = "local"
  BY DEF CancelLocally, CallerAt
<1>2. PICK o \in LegacyOrders : o = ItsOrder(w)
  BY <1>1, CallersOrder
<1>3. ShopGood /\ Begun(o) /\ ~MayBeLost(o, w)
  BY <1>1, <1>2, CallersOrder, ShopGoodness
<1>4. UNCHANGED <<saleType, legacyMoney, groupRun>> /\ CallerTo(w, "settlement")
      /\ OwnsCancellation(o, w)
  BY <1>2 DEF CancelLocally
<1>5. ShopKept
  <2>1. CASE CompleteCancelled(o)
    BY <1>3, <1>4, <2>1, Recancelling
  <2>2. CASE CancelNow(o)
    BY <1>3, <1>4, <2>2, Cancelling DEF MayBeLost, CancelNow
  <2> QED
    BY <1>2, <2>1, <2>2 DEF CancelLocally
<1> QED
  BY <1>1, <1>4, <1>5, CallerMoves DEF CallerSteps

(* The failure of a cancellation is recorded. *)
LEMMA FailureKeeps ==
  ASSUME ShopInv, NEW w \in LegacyCancellers, RecordLegacyFailure(w)
  PROVE  ShopInv'
<1>1. canceller[w].step \in {"REFUND_FAILED", "LOCAL_FAILED"}
  BY DEF RecordLegacyFailure
<1>2. PICK o \in LegacyOrders : o = ItsOrder(w)
  BY <1>1, CallersOrder
<1>3. ShopGood /\ Begun(o)
  BY <1>1, <1>2, CallersOrder, ShopGoodness
<1>4. UNCHANGED <<saleType, legacyMoney, usedSlots, currentQuantity, groupRun>> /\ CallerLeaves(w)
  BY DEF RecordLegacyFailure
<1>5. CASE UNCHANGED legacyOrder
  BY <1>3, <1>4, <1>5, NoMove, CallersLeave
<1>6. CASE SetOrder(o, [legacyOrder[o] EXCEPT !.cancellation = canceller[w].step,
                                              !.token = "nobody", !.lease = "over"])
  <2>1. PICK step \in {"REFUND_FAILED", "LOCAL_FAILED"} : step = canceller[w].step
    BY <1>1
  <2>2. SetOrder(o, [legacyOrder[o] EXCEPT !.cancellation = step, !.token = "nobody",
                                           !.lease = "over"])
    BY <1>6, <2>1
  <2> QED
    BY <1>3, <1>4, <2>2, FailureRecording, CallersLeave
<1> QED
  BY <1>2, <1>5, <1>6 DEF RecordLegacyFailure

(* All steps of a cancellation. *)
LEMMA CancellerStepsKeep ==
  ASSUME ShopInv, NEW w \in LegacyCancellers, CancellerStep(w)
  PROVE  ShopInv'
<1>0. ShopGood
  BY ShopGoodness
<1>1. CASE CancelLocallyFails(w)
  <2>1. ShopKept
    BY <1>0, <1>1, NoMove DEF CancelLocallyFails, shopVars
  <2> QED
    BY <1>1, <2>1, CallerMoves DEF CancelLocallyFails, CallerAt, CallerSteps
<1>2. CASE CancelLegacySettlement(w)
  <2>1. ShopKept
    BY <1>0, <1>2, NoMove DEF CancelLegacySettlement, shopVars
  <2> QED
    BY <1>2, <2>1, CallerMoves, CallersLeave DEF CancelLegacySettlement, CallerAt, CallerSteps
<1>3. CASE CancellerDies(w)
  <2>1. ShopKept
    BY <1>0, <1>3, NoMove DEF CancellerDies, shopVars
  <2> QED
    BY <1>3, <2>1, CallersLeave DEF CancellerDies
<1> QED
  BY <1>1, <1>2, <1>3, ClaimingKeeps, RefundKeeps, PostingKeeps, LocalPartKeeps, FailureKeeps
     DEF CancellerStep

GroupRunRecords ==
  [step : {"idle", "confirm", "lack", "CONFIRMED", "refund", "CANCELLED", "done", "failed"},
   targets : SUBSET LegacyOrders, toRefund : SUBSET LegacyOrders, refunding : SUBSET LegacyOrders]

(* How a run's record changes. *)
LEMMA RunChange ==
  ASSUME ShopInv, NEW g \in GroupRuns, NEW r, groupRun' = [groupRun EXCEPT ![g] = r],
         r \in GroupRunRecords,
         UNCHANGED canceller
  PROVE  WorkersTyped' /\ groupRun'[g] = r
BY DEF ShopInv, WorkersTyped, GroupRunRecords

(* A run that only goes on or gives up keeps what it relies on. *)
LEMMA RunGoesOn ==
  ASSUME ShopInv, ShopKept, UNCHANGED canceller, NEW g \in GroupRuns, NEW r,
         groupRun' = [groupRun EXCEPT ![g] = r],
         r \in GroupRunRecords,
         r.targets \subseteq groupRun[g].targets,
         r.step \in {"refund", "CANCELLED"} =>
           /\ groupRun[g].step \in {"refund", "CANCELLED"}
           /\ r.toRefund = groupRun[g].toRefund
           /\ r.step # groupRun[g].step => groupRun[g].toRefund = {}
  PROVE  ShopInv'
<1>1. WorkersTyped' /\ groupRun'[g] = r
  BY RunChange
<1>2. RunFits(g)'
  BY <1>1, RunsKeep DEF ShopInv, ShopKept
<1> QED
  BY <1>1, <1>2, RunMoves

(* The record of one run. *)
LEMMA RunTyped ==
  ASSUME ShopInv, NEW g \in GroupRuns
  PROVE  /\ groupRun[g] \in GroupRunRecords /\ groupRun[g].targets \subseteq LegacyOrders
         /\ groupRun \in [GroupRuns -> GroupRunRecords]
BY DEF ShopInv, WorkersTyped, GroupRunRecords

(* The seller or the deadline decides. *)
LEMMA StartsKeep ==
  ASSUME ShopInv, NEW g \in GroupRuns, NEW step \in {"confirm", "lack"}, ProcessGroupBuy(g, step)
  PROVE  ShopInv'
<1> DEFINE r == [groupRun[g] EXCEPT !.step = step]
<1>1. groupRun[g] \in GroupRunRecords /\ groupRun \in [GroupRuns -> GroupRunRecords]
  BY RunTyped
<1>2. ShopKept
  BY ShopGoodness, NoMove DEF ProcessGroupBuy
<1>3. r \in GroupRunRecords /\ r.targets = groupRun[g].targets /\ r.step = step
  BY <1>1 DEF GroupRunRecords
<1>4. groupRun' = [groupRun EXCEPT ![g] = r] /\ UNCHANGED canceller
  BY <1>1 DEF ProcessGroupBuy
<1> HIDE DEF r
<1> QED
  BY <1>2, <1>3, <1>4, RunGoesOn DEF GroupRunRecords

(* A run lists the members that still wait. *)
LEMMA ListingKeeps ==
  ASSUME ShopInv, NEW g \in GroupRuns, ListOrders(g)
  PROVE  ShopInv'
<1>1. groupRun[g] \in GroupRunRecords /\ groupRun \in [GroupRuns -> GroupRunRecords]
  BY RunTyped
<1>2. ShopKept
  BY ShopGoodness, NoMove DEF ListOrders, shopVars
<1>3. CASE Recruiting = {}
  <2> DEFINE r == [groupRun[g] EXCEPT !.step = "done"]
  <2>1. r \in GroupRunRecords /\ r.targets = groupRun[g].targets /\ r.step = "done"
    BY <1>1 DEF GroupRunRecords
  <2>2. groupRun' = [groupRun EXCEPT ![g] = r] /\ UNCHANGED canceller
    BY <1>3 DEF ListOrders
  <2> HIDE DEF r
  <2> QED
    BY <1>2, <2>1, <2>2, RunGoesOn DEF GroupRunRecords
<1>4. CASE Recruiting # {}
  <2> DEFINE r == IF groupRun[g].step = "confirm"
                  THEN [groupRun[g] EXCEPT !.step = "CONFIRMED", !.targets = Recruiting]
                  ELSE [groupRun[g] EXCEPT !.step = "refund", !.targets = Recruiting,
                                           !.toRefund = Recruiting]
  <2>1. Recruiting \in SUBSET LegacyOrders
    BY DEF Recruiting
  <2>2. r \in GroupRunRecords /\ r.targets = Recruiting
    BY <1>1, <2>1 DEF GroupRunRecords
  <2>3. r.step # "CONFIRMED" => r.step = "refund" /\ r.toRefund = Recruiting
    BY <1>1, <2>1 DEF GroupRunRecords
  <2>4. groupRun' = [groupRun EXCEPT ![g] = r] /\ UNCHANGED canceller
    BY <1>4 DEF ListOrders
  <2> HIDE DEF r
  <2>5. WorkersTyped' /\ groupRun'[g] = r
    BY <2>2, <2>4, RunChange DEF GroupRunRecords
  <2>6. ASSUME NEW o \in Recruiting PROVE Decided(o)'
    <3>1. UNCHANGED legacyOrder /\ Status(o) = "RECRUITING"
      BY <2>6 DEF ListOrders, shopVars, Recruiting
    <3> QED
      BY <3>1 DEF Decided, Begun, TimedOut, Status
  <2>7. RunFits(g)'
    BY <2>2, <2>3, <2>5, <2>6 DEF RunFits, Decided
  <2> QED
    BY <1>2, <2>4, <2>5, <2>7, RunMoves
<1> QED
  BY <1>3, <1>4

(* It refunds a member. *)
LEMMA LackRefundsKeep ==
  ASSUME ShopInv, NEW g \in GroupRuns, NEW o \in LegacyOrders, RefundForLack(g, o)
  PROVE  ShopInv'
<1>1. groupRun[g] \in GroupRunRecords /\ groupRun \in [GroupRuns -> GroupRunRecords]
  BY RunTyped
<1>2. g \in LegacyWorkers /\ g \notin LegacyCancellers /\ ShopGood
  BY LegacyAssumption, ShopGoodness DEF LegacyWorkers
<1>3. /\ ShopKept /\ ~Unreturned(o)'
      /\ \E r \in GroupRunRecords :
           /\ groupRun' = [groupRun EXCEPT ![g] = r] /\ r.step = groupRun[g].step
           /\ r.targets = groupRun[g].targets /\ r.toRefund = groupRun[g].toRefund \ {o}
  <2>1. CASE RefundReturnsAtOnce(o)
    <3>1. ShopKept
      BY <1>2, <2>1, NoMove DEF RefundForLack
    <3>2. ~Unreturned(o)'
      BY <2>1 DEF RefundForLack, RefundReturnsAtOnce, Unreturned
    <3> DEFINE r == [groupRun[g] EXCEPT !.toRefund = @ \ {o}]
    <3>3. r \in GroupRunRecords /\ r.step = groupRun[g].step
          /\ r.targets = groupRun[g].targets /\ r.toRefund = groupRun[g].toRefund \ {o}
      BY <1>1 DEF GroupRunRecords
    <3>4. groupRun' = [groupRun EXCEPT ![g] = r]
      BY <2>1, <1>1 DEF RefundForLack
    <3> QED
      BY <3>1, <3>2, <3>3, <3>4
  <2>2. CASE ~RefundReturnsAtOnce(o)
    <3>0. TakeRefund(o, g)
      BY <2>2 DEF RefundForLack
    <3>1. ShopKept
      BY <1>2, <2>2, <3>0, RefundTaking DEF RefundForLack
    <3>2. ~Unreturned(o)'
      <4>1. legacyMoney[o] \in MoneyRecords /\ legacyMoney \in [LegacyOrders -> MoneyRecords]
        BY TypedRecords DEF ShopInv, Typed
      <4>2. legacyMoney'[o].claim \in {"CLAIMED", "UNKNOWN"}
        BY <3>0, <4>1 DEF TakeRefund, MoneyRecords
      <4> QED
        BY <4>2 DEF Unreturned
    <3> DEFINE r == [groupRun[g] EXCEPT !.toRefund = @ \ {o}, !.refunding = @ \union {o}]
    <3>3. r \in GroupRunRecords /\ r.step = groupRun[g].step
          /\ r.targets = groupRun[g].targets /\ r.toRefund = groupRun[g].toRefund \ {o}
      BY <1>1 DEF GroupRunRecords
    <3>4. groupRun' = [groupRun EXCEPT ![g] = r]
      BY <2>2, <1>1 DEF RefundForLack
    <3> QED
      BY <3>1, <3>2, <3>3, <3>4
  <2> QED
    BY <2>1, <2>2
<1>4. PICK r \in GroupRunRecords :
        /\ groupRun' = [groupRun EXCEPT ![g] = r] /\ r.step = groupRun[g].step
        /\ r.targets = groupRun[g].targets /\ r.toRefund = groupRun[g].toRefund \ {o}
  BY <1>3
<1>5. WorkersTyped' /\ groupRun'[g] = r
  BY <1>4, RunChange DEF GroupRunRecords, RefundForLack
<1>6. RunFits(g)'
  <2>0. groupRun[g].targets \subseteq LegacyOrders /\ RunFits(g)
    BY RunTyped DEF ShopInv
  <2>1. ASSUME NEW p \in groupRun[g].targets PROVE Decided(p)'
    BY <1>3, <2>0, <2>1 DEF RunFits, Decided, ShopKept, Keeps
  <2>2. ASSUME r.step \in {"refund", "CANCELLED"}, NEW p \in r.targets \ r.toRefund
        PROVE  ~WorthRefunding(p)'
    <3>1. CASE p = o
      BY <1>3, <3>1 DEF WorthRefunding
    <3>2. CASE p # o
      <4>1. p \in groupRun[g].targets \ groupRun[g].toRefund /\ p \in LegacyOrders
        BY <1>4, <2>0, <2>2, <3>2
      <4>2. ~WorthRefunding(p) /\ Decided(p)
        BY <1>4, <2>0, <2>2, <4>1 DEF RunFits, WorthRefunding, Decided
      <4> QED
        BY <1>3, <4>1, <4>2 DEF ShopKept, Keeps
    <3> QED
      BY <3>1, <3>2
  <2>3. r.step = "CANCELLED" => r.toRefund = {}
    BY <1>4, <2>0 DEF RunFits
  <2> QED
    BY <1>4, <1>5, <2>1, <2>2, <2>3 DEF RunFits, Decided, WorthRefunding
<1> QED
  BY <1>3, <1>4, <1>5, <1>6, RunMoves DEF RefundForLack

(* The refund is answered. *)
LEMMA LackPostsKeep ==
  ASSUME ShopInv, NEW g \in GroupRuns, NEW o \in LegacyOrders, PostRefundForLack(g, o)
  PROVE  ShopInv'
<1>1. groupRun[g] \in GroupRunRecords /\ groupRun \in [GroupRuns -> GroupRunRecords]
  BY RunTyped
<1>2. g \in LegacyWorkers /\ ShopGood
  BY ShopGoodness DEF LegacyWorkers
<1>3. ShopKept
  <2>1. CASE OwnsRefund(o, g)
    BY <1>2, <2>1, RefundDoing, RefundThrowing DEF PostRefundForLack
  <2>2. CASE ~OwnsRefund(o, g)
    <3>1. UNCHANGED legacyMoney
      BY <2>2 DEF PostRefundForLack, RefundDone, RefundThrows
    <3> QED
      BY <1>2, <3>1, NoMove DEF PostRefundForLack
  <2> QED
    BY <2>1, <2>2
<1>4. \E r \in GroupRunRecords :
        /\ groupRun' = [groupRun EXCEPT ![g] = r]
        /\ r.targets = groupRun[g].targets /\ r.toRefund = groupRun[g].toRefund
        /\ r.step \in {groupRun[g].step, "failed"}
  <2>1. CASE groupRun' = [groupRun EXCEPT ![g].refunding = @ \ {o}]
    <3> DEFINE r == [groupRun[g] EXCEPT !.refunding = @ \ {o}]
    <3>1. /\ r \in GroupRunRecords /\ r.targets = groupRun[g].targets
          /\ r.toRefund = groupRun[g].toRefund /\ r.step = groupRun[g].step
      BY <1>1 DEF GroupRunRecords
    <3>2. groupRun' = [groupRun EXCEPT ![g] = r]
      BY <1>1, <2>1
    <3> QED
      BY <3>1, <3>2
  <2>2. CASE groupRun' = [groupRun EXCEPT ![g].refunding = @ \ {o},
                            ![g].step = IF @ = "refund" THEN "failed" ELSE @]
    <3> DEFINE r == [groupRun[g] EXCEPT !.refunding = @ \ {o},
                                        !.step = IF @ = "refund" THEN "failed" ELSE @]
    <3>1. /\ r \in GroupRunRecords /\ r.targets = groupRun[g].targets
          /\ r.toRefund = groupRun[g].toRefund /\ r.step \in {groupRun[g].step, "failed"}
      BY <1>1 DEF GroupRunRecords
    <3>2. groupRun' = [groupRun EXCEPT ![g] = r]
      BY <1>1, <2>2
    <3> QED
      BY <3>1, <3>2
  <2> QED
    BY <2>1, <2>2 DEF PostRefundForLack
<1> QED
  BY <1>3, <1>4, RunGoesOn DEF PostRefundForLack, GroupRunRecords

(* It confirms or cancels a member: cancelled ones were refunded. *)
LEMMA DecisionsKeep ==
  ASSUME ShopInv, NEW g \in GroupRuns, NEW o \in LegacyOrders, DecideOrder(g, o)
  PROVE  ShopInv'
<1>1. groupRun[g] \in GroupRunRecords /\ groupRun \in [GroupRuns -> GroupRunRecords]
  BY RunTyped
<1>2. ShopKept
  <2>1. CASE StillRecruiting(o)
    <3>1. PICK status \in {"CONFIRMED", "CANCELLED"} : status = groupRun[g].step
      BY DEF DecideOrder
    <3>2. SetOrder(o, [legacyOrder[o] EXCEPT !.status = status,
                         !.reason = IF status = "CANCELLED" THEN "lack" ELSE @])
      BY <2>1, <3>1 DEF DecideOrder
    <3>3. status = "CANCELLED" => ~Unreturned(o)
      BY <2>1, <3>1 DEF DecideOrder, ShopInv, RunFits, StillRecruiting
    <3> QED
      BY <2>1, <3>2, <3>3, ShopGoodness, Deciding DEF DecideOrder
  <2>2. CASE ~StillRecruiting(o)
    BY <2>2, ShopGoodness, NoMove DEF DecideOrder
  <2> QED
    BY <2>1, <2>2
<1> DEFINE r == [groupRun[g] EXCEPT !.targets = @ \ {o},
                   !.step = IF groupRun[g].targets = {o} THEN "done" ELSE @]
<1>3. /\ r \in GroupRunRecords /\ r.targets \subseteq groupRun[g].targets
      /\ r.toRefund = groupRun[g].toRefund /\ r.step \in {groupRun[g].step, "done"}
  BY <1>1 DEF GroupRunRecords
<1>4. groupRun' = [groupRun EXCEPT ![g] = r] /\ UNCHANGED canceller
  BY <1>1 DEF DecideOrder
<1> HIDE DEF r
<1> QED
  BY <1>2, <1>3, <1>4, RunGoesOn DEF GroupRunRecords

(* All steps of a run. *)
LEMMA GroupStepsKeep ==
  ASSUME ShopInv, NEW g \in GroupRuns, GroupStep(g)
  PROVE  ShopInv'
<1>1. groupRun[g] \in GroupRunRecords /\ groupRun \in [GroupRuns -> GroupRunRecords]
  BY RunTyped
<1>2. ConfirmEarly(g) \/ DecideAtDeadline(g) => ShopInv'
  BY StartsKeep DEF ConfirmEarly, DecideAtDeadline
<1>3. CASE BeginLackCancellation(g)
  <2> DEFINE r == [groupRun[g] EXCEPT !.step = "CANCELLED"]
  <2>1. /\ r \in GroupRunRecords /\ r.targets = groupRun[g].targets /\ r.step = "CANCELLED"
        /\ r.toRefund = groupRun[g].toRefund
    BY <1>1 DEF GroupRunRecords
  <2>2. /\ groupRun' = [groupRun EXCEPT ![g] = r] /\ UNCHANGED canceller
        /\ groupRun[g].step = "refund"
    BY <1>1, <1>3 DEF BeginLackCancellation
  <2>3. ShopKept /\ groupRun[g].toRefund = {}
    BY <1>3, ShopGoodness, NoMove DEF BeginLackCancellation, shopVars, AllRefunded
  <2> HIDE DEF r
  <2> QED
    BY <2>1, <2>2, <2>3, RunGoesOn DEF GroupRunRecords
<1>4. CASE GroupRunFails(g)
  <2> DEFINE r == [groupRun[g] EXCEPT !.step = "failed", !.targets = {}]
  <2>1. r \in GroupRunRecords /\ r.targets = {} /\ r.step = "failed"
    BY <1>1 DEF GroupRunRecords
  <2>2. groupRun' = [groupRun EXCEPT ![g] = r] /\ UNCHANGED canceller /\ ShopKept
    BY <1>1, <1>4, ShopGoodness, NoMove DEF GroupRunFails, shopVars
  <2> HIDE DEF r
  <2> QED
    BY <2>1, <2>2, RunGoesOn DEF GroupRunRecords
<1>5. CASE FinishGroupRun(g)
  <2> DEFINE r == [groupRun[g] EXCEPT !.step = "idle", !.targets = {}]
  <2>1. r \in GroupRunRecords /\ r.targets = {} /\ r.step = "idle"
    BY <1>1 DEF GroupRunRecords
  <2>2. groupRun' = [groupRun EXCEPT ![g] = r] /\ UNCHANGED canceller /\ ShopKept
    BY <1>1, <1>5, ShopGoodness, NoMove DEF FinishGroupRun
  <2> HIDE DEF r
  <2> QED
    BY <2>1, <2>2, RunGoesOn DEF GroupRunRecords
<1>6. CASE GroupRunDies(g)
  <2>1. NoGroupRun \in GroupRunRecords /\ NoGroupRun.targets = {} /\ NoGroupRun.step = "idle"
    BY DEF NoGroupRun, GroupRunRecords
  <2>2. groupRun' = [groupRun EXCEPT ![g] = NoGroupRun] /\ UNCHANGED canceller /\ ShopKept
    BY <1>6, ShopGoodness, NoMove DEF GroupRunDies, shopVars
  <2> QED
    BY <2>1, <2>2, RunGoesOn DEF GroupRunRecords
<1> QED
  BY <1>2, <1>3, <1>4, <1>5, <1>6, ListingKeeps, LackRefundsKeep, LackPostsKeep, DecisionsKeep
     DEF GroupStep

(* No step of anybody breaks the invariant. *)
LEMMA ShopSteps ==
  ASSUME ShopInv, [LegacyNext]_legacyVars
  PROVE  ShopInv'
<1>1. CASE UNCHANGED legacyVars
  BY <1>1, ShopGoodness, NoMove, WorkersStay DEF legacyVars, shopVars
<1>2. CASE MissEarlyConfirmation \/ ProcessingLeaseEnds \/ DeadlinePasses
  BY <1>2, ShopGoodness, NoMove, WorkersStay
     DEF MissEarlyConfirmation, ProcessingLeaseEnds, DeadlinePasses
<1> QED
  BY <1>1, <1>2, OrderStepsKeep, CancellerStepsKeep, GroupStepsKeep DEF LegacyNext

(* Orders, money, counters and all that work on them stay consistent. *)
THEOREM ShopInvariant == LegacySpec => []ShopInv
BY ShopInitially, ShopSteps, PTL DEF LegacySpec

(* usedSlots and currentQuantity are what the orders add up to. *)
THEOREM LegacyCounters == LegacySpec => []LegacyCountersMatchOrders
<1>1. ShopInv => LegacyCountersMatchOrders
  BY DEF ShopInv
<1> QED
  BY <1>1, ShopInvariant, PTL

(* What is refunded at request is not delivered. *)
THEOREM LegacyRefunds == LegacySpec => []LegacyRefundsStopOrders
<1>1. ShopInv => LegacyRefundsStopOrders
  BY DEF ShopInv, LegacyRefundsStopOrders, MoneyFits, ReturnedAtRequest, Stopped, Unreturned
<1> QED
  BY <1>1, ShopInvariant, PTL
-------------------------------------------------------------------------------
(* The run of the specifications side by side is a behaviour of each of    *)
(* them, since the one that is picked moves and the others stutter: what   *)
(* is proved of a component holds of the run.                              *)
THEOREM ClaimsRunEachComponent ==
  ClaimsSpec => Spec /\ JobSpec /\ NotificationSpec /\ SessionSpec /\ LegacySpec
<1>1. ClaimsInit => Init /\ JobInit /\ NotificationInit /\ SessionInit /\ LegacyInit
  BY DEF ClaimsInit, SaleInit
<1>2. ASSUME [ClaimsNext]_claimsVars
      PROVE  [Next]_refundVars
  <2>1. CASE SaleNext
    BY <2>1, SaleStepRefunds
  <2> QED
    BY <1>2, <2>1 DEF ClaimsNext, claimsVars
<1>3. ASSUME [ClaimsNext]_claimsVars
      PROVE  /\ [JobNext]_jobVars
             /\ [NotificationNext]_notificationVars
             /\ [SessionNext]_sessionVars
             /\ [LegacyNext]_legacyVars
  BY <1>3 DEF ClaimsNext, claimsVars
<1> QED
  BY <1>1, <1>2, <1>3, PTL
  DEF ClaimsSpec, Spec, JobSpec, NotificationSpec, SessionSpec, LegacySpec

(* Where the run picks the refunds of an order, it is a behaviour of       *)
(* RefundedSale, so that the refund of the payment moves the order's side  *)
(* only as Settlement says.                                                *)
THEOREM ClaimsRunSettles ==
  ClaimsSpec => (focus = "sale" => SaleSpec) /\ RefundedSaleKeepsSettlement
<1>1. ClaimsInit => SaleInit
  BY DEF ClaimsInit
<1>2. ASSUME focus = "sale", [ClaimsNext]_claimsVars
      PROVE  (focus = "sale")' /\ [SaleNext]_refundedSaleVars
  BY <1>2 DEF ClaimsNext, claimsVars, refundedSaleVars
<1>3. ~(focus = "sale") /\ [ClaimsNext]_claimsVars => (~(focus = "sale"))'
  BY DEF ClaimsNext, claimsVars
<1>4. ClaimsSpec => (focus = "sale" => SaleSpec)
  BY <1>1, <1>2, PTL DEF ClaimsSpec, SaleSpec
<1>5. SettlementStep => [focus = "sale" => SettlementStep]_claimsVars
  OBVIOUS
<1>6. ~(focus = "sale") => [focus = "sale" => SettlementStep]_claimsVars
  OBVIOUS
<1>7. [Settle!SettlementNext]_(Settle!settlementVars) => SettlementStep
  BY DEF SettlementStep
<1>8. SaleSpec => [][focus = "sale" => SettlementStep]_claimsVars
  BY <1>5, <1>7, RefundedSaleSettles, PTL DEF KeepsSettlement, Settle!SettlementSpec
<1>9. ClaimsSpec /\ ~(focus = "sale") => [][focus = "sale" => SettlementStep]_claimsVars
  BY <1>3, <1>6, PTL DEF ClaimsSpec
<1> QED
  BY <1>4, <1>8, <1>9, PTL DEF RefundedSaleKeepsSettlement

(* Payment, lease, delivery, sessions and shop keep their types together,  *)
(* for any number of workers, instances, senders, sessions and orders.     *)
THEOREM ClaimsTypes == ClaimsSpec => []ClaimsTypeOK
<1>1. ShopInv => LegacyTypeOK
  BY DEF ShopInv
<1>2. TypeOK /\ JobTypeOK /\ NotificationTypeOK /\ SessionTypeOK /\ LegacyTypeOK => ClaimsTypeOK
  BY DEF ClaimsTypeOK
<1> QED
  BY <1>1, <1>2, ClaimsRunEachComponent, RefundTypes, JobTypes, NotificationTypes, SessionTypes,
     ShopInvariant, PTL
===============================================================================
