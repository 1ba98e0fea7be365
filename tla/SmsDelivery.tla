---------------------------- MODULE SmsDelivery ----------------------------
(***************************************************************************)
(* What the send component owes to an SMS that waits in the queue of a     *)
(* channel, without windows, links, segments and time-outs: the SMS is     *)
(* taken once, goes forward only, is sent back for another route only if   *)
(* no gateway can have seen it, and is lost only with its channel.         *)
(* ChannelTxPool implements it; AccessSession relies on it when it takes   *)
(* the send component to deliver an SMS or to send it back, once.          *)
(***************************************************************************)
CONSTANT Sms

VARIABLES
    live,       \* the channel exists
    place       \* place[m]: how far m has come

delivery_vars == <<live, place>>

Places == {"WAITING",   \* in the broker's queue
           "POOL",      \* with the pool: being audited, looking for a link
           "LINK",      \* handed to a link, or refused by it unsent
           "GATEWAY",   \* submitted, the session or its report is open
           "ANSWERED",  \* delivered, failed, or intercepted by the audit
           "BACK",      \* sent back, to be routed again
           "DROPPED"}   \* gone with the channel, nobody is told

Init ==
    /\ live = TRUE
    /\ place = [m \in Sms |-> "WAITING"]

\* The steps of an SMS.  From the pool the answer is the audit's; a link
\* answers without a gateway only when its channel has ended.
Steps == {<<"WAITING", "POOL">>, <<"POOL", "LINK">>, <<"LINK", "GATEWAY">>,
          <<"POOL", "ANSWERED">>, <<"GATEWAY", "ANSWERED">>,
          <<"POOL", "BACK">>, <<"LINK", "BACK">>}

LateSteps == {<<"LINK", "ANSWERED">>}

Advance(m) ==
    /\ <<place[m], place'[m]>> \in IF live THEN Steps ELSE Steps \cup LateSteps
    /\ place' = [place EXCEPT ![m] = place'[m]]
    /\ UNCHANGED live

Delete ==
    /\ live
    /\ live' = FALSE
    /\ UNCHANGED place

\* What becomes of SMS whose channel has gone.  destroy() forgets the sessions of
\* several at once: one of which some segments had been answered is over, of
\* the others nobody is told.
Losses == {<<"POOL", "DROPPED">>, <<"GATEWAY", "DROPPED">>,
           <<"GATEWAY", "ANSWERED">>}

Drop ==
    /\ ~live
    /\ place' \in [Sms -> Places]
    /\ \A m \in Sms : place'[m] = place[m] \/ <<place[m], place'[m]>> \in Losses
    /\ UNCHANGED live

Next ==
    \/ \E m \in Sms : Advance(m)
    \/ Delete \/ Drop

Spec == Init /\ [][Next]_delivery_vars
=============================================================================
