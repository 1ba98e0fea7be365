-------------------------- MODULE MCAccessSession --------------------------
(***************************************************************************)
(* The instance of AccessSession for TLC.                                  *)
(***************************************************************************)
EXTENDS AccessSession, TLC

\* Every account may use every channel.
MCGroup == [m \in Sms |-> Channels]

\* Charged for everything, or not charged here at all.
MCAccounts == {[prepaid |-> b, overRateCharge |-> b] : b \in BOOLEAN}
=============================================================================
