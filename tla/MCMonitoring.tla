---------------------------- MODULE MCMonitoring ----------------------------
(* Model-checking instances of Monitoring. *)
EXTENDS Monitoring, TLC

\* Two events are an outage and its end, or a window around one of them; the flap
\* counter of Cisco ports needs a third.
Events == [v \in Vendors |-> IF v = "cisco" THEN 3 ELSE 2]

\* Status, health alerts and the firmware flag come to agree with the device.
RowsFollow == StatusFollows /\ HealthAlertFollows /\ FwFlagFollows
=============================================================================
