---------------------------- MODULE MCDirectLink ----------------------------
(***************************************************************************)
(* Instances of DirectLink for TLC.  The time limits keep their order      *)
(* (heartbeat, window reset, session) with the smallest values that show   *)
(* it.                                                                     *)
(***************************************************************************)
EXTENDS DirectLink, TLC

\* Long messages of two segments, or short ones.
MCTwoSegs == [m \in Sms |-> 2]
MCOneSeg == [m \in Sms |-> 1]
=============================================================================
