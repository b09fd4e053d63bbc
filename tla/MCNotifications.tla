--------------------------- MODULE MCNotifications ---------------------------
(***************************************************************************)
(* The calendar of a year that is not a leap year, for one reminder.       *)
(***************************************************************************)
EXTENDS Notifications

ThreeDaysBefore ==
  {[owner |-> u, kind |-> "payment", day |-> 3, advance |-> 3] : u \in Owners}

Calendar == <<31, 28, 31, 30>>
=============================================================================
