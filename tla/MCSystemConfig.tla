--------------------------- MODULE MCSystemConfig ---------------------------
(***************************************************************************)
(* Three keys, values 0..3; readers of this and of an older release that   *)
(* race to seed, and updates that are legal one by one: raise the grace to *)
(* the default threshold, lower the threshold to the default grace; and    *)
(* one that is not, a maximum of 0 hours.                                  *)
(***************************************************************************)
EXTENDS SystemConfig

MCConfigKeys == {"grace", "threshold", "hours"}
MCDefault == [grace |-> 1, threshold |-> 2, hours |-> 1]
MCLeast   == [grace |-> 0, threshold |-> 0, hours |-> 1]
MCUpdates == {[key |-> "grace", value |-> 2],
              [key |-> "threshold", value |-> 1],
              [key |-> "hours", value |-> 0]}
=============================================================================
