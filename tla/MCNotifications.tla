-------------------------- MODULE MCNotifications --------------------------
(* A small instance of Notifications for TLC: a message to a device and a  *)
(* mail address, and two broadcasts to users who have neither: one by mail  *)
(* with a text that is too long.                                           *)
EXTENDS Notifications

CONSTANTS d1, n1, n2, n3

MCChannelsOf == [n \in Notes |-> IF n = n1 THEN {"push", "email"} ELSE {}]
MCSameHandset == [d \in Devices |-> Devices \ {d}]
=============================================================================
