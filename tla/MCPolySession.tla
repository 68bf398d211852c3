---------------------------- MODULE MCPolySession ----------------------------
(***************************************************************************)
(* The instances TLC explores: the three kinds of call PolySessionRegistry *)
(* builds.  Leg a is the party named first in the registry's resolve.      *)
(***************************************************************************)
EXTENDS PolySession

\* A client calls a client: leg b is woken by a notification.
WebToWeb == [l \in Legs |-> IF l = "a" THEN "caller" ELSE "callee"]

\* A client calls a telephone number.
WebToSip == [l \in Legs |-> IF l = "a" THEN "caller" ELSE "sip"]

\* A telephone calls a client whose session the inbound flow has invited.
SipToWeb == [l \in Legs |-> IF l = "a" THEN "sip" ELSE "adopt"]
==============================================================================
