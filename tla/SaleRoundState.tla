--------------------------- MODULE SaleRoundState ---------------------------
(***************************************************************************)
(* The rules of a sale round that depend on nothing but the round document *)
(* and the clock (sale-rounds/sale-round-state.contract.ts).  A round is   *)
(* [status, closeReason, cancellation]; of the clock only its position     *)
(* against the ordering window [orderOpenAt, orderCloseAt) matters.        *)
(***************************************************************************)

RoundStatuses == {"DRAFT", "SCHEDULED", "OPEN", "CLOSED", "COMPLETED", "CANCELLED"}
CloseReasons == {"none", "MANUAL", "CAPACITY", "SCHEDULE_ENDED"}
CancellationStatuses == {"none", "CANCELLING", "LOCAL_FAILED", "COMPLETED"}
Windows == {"before", "open", "after"}

Rounds == [status : RoundStatuses, closeReason : CloseReasons,
           cancellation : CancellationStatuses]

(* The statuses a seller may move a round to. *)
NextStatusesReschedulable(status) ==
  CASE status = "DRAFT"     -> {"SCHEDULED", "CANCELLED"}
    [] status = "SCHEDULED" -> {"OPEN", "CANCELLED"}
    [] status = "OPEN"      -> {"SCHEDULED", "CLOSED", "CANCELLED"}
    [] status = "CLOSED"    -> {"COMPLETED", "CANCELLED"}
    [] OTHER                -> {}
NextStatuses(status) ==
  CASE status = "DRAFT"     -> {"SCHEDULED", "CANCELLED"}
    [] status = "SCHEDULED" -> {"OPEN", "CANCELLED"}
    [] status = "OPEN"      -> {"CLOSED", "CANCELLED"}
    [] status = "CLOSED"    -> {"COMPLETED", "CANCELLED"}
    [] OTHER                -> {}

(* A checkout is admitted only by an open round that nobody is cancelling. *)
OrderWindowOpenWhileCancelling(round, window) == round.status = "OPEN" /\ window = "open"
OrderWindowOpen(round, window) ==
  /\ round.status = "OPEN"
  /\ round.cancellation = "none"
  /\ window = "open"

ManualOpenEligible(round, window) ==
  /\ round.status = "SCHEDULED"
  /\ round.cancellation = "none"
  /\ window = "open"

Closed(round, reason) == [round EXCEPT !.status = "CLOSED", !.closeReason = reason]
Opened(round) == [round EXCEPT !.status = "OPEN", !.closeReason = "none"]

(***************************************************************************)
(* The status a round has by the clock and its counters, whatever is       *)
(* stored.  A round being cancelled keeps its status; a round closed for   *)
(* capacity opens again before orderCloseAt once there is room.            *)
(***************************************************************************)
ResolveAutomaticState(round, window, full) ==
  LET automatic == round.cancellation = "none" /\ round.status \in {"SCHEDULED", "OPEN"}
      closedByCapacity == /\ round.cancellation = "none"
                          /\ round.status = "CLOSED"
                          /\ round.closeReason = "CAPACITY"
  IN CASE closedByCapacity /\ window # "after" /\ ~full -> Opened(round)
       [] automatic /\ window = "after" -> Closed(round, "SCHEDULE_ENDED")
       [] automatic /\ window # "after" /\ full -> Closed(round, "CAPACITY")
       [] /\ automatic /\ window = "open" /\ ~full
          /\ round.status = "SCHEDULED" -> Opened(round)
       [] OTHER -> round
=============================================================================
