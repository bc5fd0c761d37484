----------------------- MODULE MCNotificationDelivery -----------------------
(***************************************************************************)
(* One time unit is the five minutes between two deadlines: the reminder   *)
(* reaches one unit ahead, a no-show is due after one, overdue after two.  *)
(* Every reservation starts at 1.                                          *)
(***************************************************************************)
EXTENDS NotificationDelivery

OneStart  == <<1>>
=============================================================================
