----------------------------- MODULE SmsCustody -----------------------------
(***************************************************************************)
(* What the access component owes to an SMS, without the stages of a       *)
(* session, over-rate counters, requests and redis: one party at a time    *)
(* has it, an SMS is sent only out of a session, what has ended does not   *)
(* come back, and whoever ends an SMS without sending it tells the client, *)
(* but for two exceptions: Forget and Misfile.  A client that was told of  *)
(* a time-out may still see the SMS sent, if an auditor had it then.       *)
(* AccessSession implements it.                                            *)
(***************************************************************************)
CONSTANT Sms

VARIABLES
    place,      \* place[m]: who has m
    told,       \* SMS reported to the client as failed
    sent        \* SMS delivered

custody_vars == <<place, told, sent>>

Places == {"QUEUED",    \* in a queue of access, new or to be routed again
           "OWNED",     \* in a session
           "HELD",      \* with an auditor
           "CHECKED",   \* with the audit thread, no session waits for it
           "SENDING",   \* with the send component
           "ENDED"}

Init ==
    /\ place = [m \in Sms |-> "QUEUED"]
    /\ told = {} /\ sent = {}

\* A session begins; the SMS goes back to a queue of access, on to the send
\* component, or to the audit.
HandOver(from, to) ==
    /\ \/ from = "QUEUED" /\ to = "OWNED"
       \/ from \in {"OWNED", "HELD", "SENDING"} /\ to = "QUEUED"
       \/ from \in {"OWNED", "CHECKED"} /\ to = "HELD"
       \/ from = "OWNED" /\ to = "SENDING"
       \/ from = "HELD" /\ to = "CHECKED"
    /\ UNCHANGED <<told, sent>>

Deliver(m, from, to) ==
    /\ from = "SENDING" /\ to = "ENDED"
    /\ sent' = sent \cup {m}
    /\ UNCHANGED told

Reject(m, from, to) ==
    /\ from \in {"QUEUED", "OWNED", "HELD"} /\ to = "ENDED"
    /\ told' = told \cup {m}
    /\ UNCHANGED sent

\* The session times out; the audit still has the SMS, or just had it and has
\* queued it, or has dropped it.
GiveUp(m, from, to) ==
    /\ \/ from = "OWNED" /\ to = "CHECKED"
       \/ from \in {"HELD", "CHECKED", "QUEUED", "ENDED"} /\ to = from
    /\ m \notin sent
    /\ told' = told \cup {m}
    /\ UNCHANGED sent

\* The audit's verdict on an SMS without a session finds nobody: it was given
\* up, or held and checked again.
Forget(from, to) ==
    /\ from = "CHECKED" /\ to = "ENDED"
    /\ UNCHANGED <<told, sent>>

\* Recorded as submitted although there is no channel, or no queue of it:
\* nobody is told.
Misfile(from, to) ==
    /\ from = "OWNED" /\ to = "ENDED"
    /\ UNCHANGED <<told, sent>>

Step(m, from, to) ==
    \/ HandOver(from, to) \/ Deliver(m, from, to) \/ Reject(m, from, to)
    \/ GiveUp(m, from, to) \/ Forget(from, to) \/ Misfile(from, to)

Next ==
    \E m \in Sms :
        /\ Step(m, place[m], place'[m])
        /\ place' = [place EXCEPT ![m] = place'[m]]

Spec == Init /\ [][Next]_custody_vars
=============================================================================
