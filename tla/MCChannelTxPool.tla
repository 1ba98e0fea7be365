-------------------------- MODULE MCChannelTxPool --------------------------
(***************************************************************************)
(* Instances of ChannelTxPool for TLC.  The time limits keep their order   *)
(* (heartbeat, window reset, session) with the smallest values that show   *)
(* it.                                                                     *)
(***************************************************************************)
EXTENDS ChannelTxPool, TLC

\* Long messages of two segments, or short ones.
MCTwoSegs == [m \in Sms |-> 2]
MCOneSeg == [m \in Sms |-> 1]

\* Long messages whose reports announce a segment more than is sent.
MCThreeAnnounced == [m \in Sms |-> 3]

Symmetry == Permutations(Links) \cup Permutations(Sms)
=============================================================================
