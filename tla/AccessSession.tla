--------------------------- MODULE AccessSession ---------------------------
(***************************************************************************)
(* The access component: the session thread (CSessionThread), which takes  *)
(* an SMS through blacklist, template, audit, route, over-rate and charge, *)
(* and the over-rate thread (OverRateThread) with its counters in redis.   *)
(* The audit thread, the router and the charge server are their answers;   *)
(* the send component takes an SMS off its channel's queue and delivers it *)
(* or sends it back (reback) to be routed again.                           *)
(*                                                                         *)
(* An SMS from the client side has a session timer; one that comes back    *)
(* has none.  A session has one request outstanding; an answer that finds  *)
(* no session is dropped, what the request did elsewhere stays done.       *)
(*                                                                         *)
(* All SMS go to one phone with one SMS type, so that they share the       *)
(* global counter and one day counter per channel with each other and with *)
(* the SMS OtherSms stands for.  Send-limit control, white lists, test     *)
(* channels and failed-resend are not configured; the queues back to the   *)
(* client side and for rebacks are.  The keyword and SMS-type checks are   *)
(* one check left to choice, and so is the check by minute and second that *)
(* follows the check by day of a channel.                                  *)
(***************************************************************************)
EXTENDS Integers, Sequences, FiniteSets

CONSTANTS
    Sms, Channels,
    NoChannel,      \* channel id 0
    Group,          \* Group[m]: the channels of the channel group of m's account
    Accounts,       \* kinds of account: charged through the charge server,
                    \* charged also for what is over rate (m_uOverRateCharge)
    GlobalLimit,    \* m_overRate_num_h of the global rule
    ChannelLimit,   \* m_overRate_num_h of the channel rule
    MaxOverCount,   \* m_iOverCount
    MaxSelect,      \* m_uSelectChannelMaxNum
    MaxFaults,      \* bound: redis replies lost
    MaxOthers,      \* bound: units other SMS have of one counter
    Closing         \* bound: the channels that may be closed

ASSUME AccessAssumption ==
    /\ IsFiniteSet(Sms)
    /\ NoChannel \notin Channels
    /\ Group \in [Sms -> SUBSET Channels]
    /\ Accounts \subseteq [prepaid : BOOLEAN, overRateCharge : BOOLEAN] /\ Accounts # {}
    /\ GlobalLimit \in Nat \ {0} /\ ChannelLimit \in Nat \ {0}
    /\ MaxOverCount \in Nat \ {0} /\ MaxSelect \in Nat
    /\ MaxFaults \in Nat /\ MaxOthers \in Nat /\ Closing \subseteq Channels

VARIABLES
    account,        \* account[m]: the account m belongs to
    ioMq,           \* SMS queued by the client side, and requeued by access
    rebackMq,       \* SMS queued for another route
    channelMq,      \* SMS queued for a channel of the send component
    session,        \* m_mapSMSSession, by SMS
    known,          \* channels in m_mapChannelInfo of the session thread
    auditReq,       \* SMS whose AuditReqMsg the audit thread has not handled
    auditHeld,      \* SMS that wait for an auditor
    chargeReq,      \* SMS whose charge request is outstanding
    over,           \* m_mapSession of the over-rate thread, by SMS
    setQ,           \* OverRateSetReqMsg, with the over-rate session each ends
    globalCount,    \* redis: SASP_Global_OverRate
    chanDay,        \* redis: SASP_Channel_Day_OverRate, by channel
    dayCache,       \* channels in m_mapChannelDayOverRate
    others,         \* units of globalCount that belong to SMS not modelled
    otherDay,       \* units of chanDay[c] that belong to SMS not modelled
    faults,         \* redis replies lost
    \* History, read by no action of the program:
    log             \* log[m]: what became of m

config_vars == <<account, known>>
mq_vars == <<ioMq, rebackMq, channelMq>>
request_vars == <<auditReq, chargeReq>>
rate_vars == <<over, setQ>>
env_vars == <<others, otherDay, faults>>
redis_vars == <<globalCount, chanDay, dayCache, env_vars>>
access_vars == <<config_vars, mq_vars, session, request_vars, auditHeld, rate_vars,
                 redis_vars, log>>

Maybe == Channels \cup {NoChannel}

Stages == {"BLACKLIST", "TEMPLATE", "AUDIT", "ROUTE", "OVERRATE", "CHARGE"}

\* A session: m_uFromSmsReback, m_uSessionState, m_uAuditFlag,
\* m_uSelectChannelNum, m_iOverCount, m_uChannleId,
\* m_vecFailedResendChannelsSet, m_uState = SMS_STATUS_INITIAL (its value when
\* created), m_bOverRateSessionState, m_bOverRatePlanFlag, m_uRepushPushType,
\* the channel of m_strChannelOverrate_access, the answer not yet handled.
\* The queue id m_uChannelMQID goes with the channel.
NewSession == [open |-> TRUE, reback |-> FALSE, stage |-> "INIT", audited |-> FALSE,
               routed |-> 0, count |-> 0, chan |-> NoChannel, failed |-> {}, initial |-> TRUE,
               overState |-> FALSE, plan |-> FALSE, push |-> "REPORT", origin |-> NoChannel,
               ans |-> "NONE"]
NoSession == [NewSession EXCEPT !.open = FALSE]

\* A session of the over-rate thread: how far the check is, whether it loaded
\* the global rule, its channel, the global counter it read, its reply lost.
NoOver == [at |-> "NONE", global |-> FALSE, chan |-> NoChannel, val |-> 0, lost |-> FALSE]

\* The over-rate session of m holds one unit of the global counter.
Holds(o) == o.global /\ o.at \in {"CONTENT", "CHANNEL", "OK"}

\* failure reports; "submit success" recorded without a message for send, and
\* the channel it was counted for all the same; a verdict of the audit that no
\* session heard; recorded as sent with a unit of the global counter; charges;
\* channel delivered on; timed out while the audit, the over-rate check was
\* outstanding.
NewLog == [rep |-> 0, lost |-> FALSE, unsent |-> NoChannel, unheard |-> FALSE, unit |-> FALSE,
           charged |-> 0, delivered |-> NoChannel, late |-> FALSE, leaked |-> FALSE]

-----------------------------------------------------------------------------
(* States of a session.  An operator that ends or enters a state takes the *)
(* queues ioMq and rebackMq as the handler has left them so far.           *)

\* MQChannelpublishMeaasge finds the queue of the session's channel, if it has
\* one.  `queue`: m_mqConfigInfo, which is loaded anew now and then, has the id
\* m_uChannelMQID, with an exchange and a routing key.
Publishes(s, queue) == s.initial /\ s.chan # NoChannel /\ queue

\* The SMS goes to the queue of its channel.
Published(m, s, queue) ==
    IF Publishes(s, queue)
    THEN channelMq \cup {[sms |-> m, chan |-> s.chan, count |-> IF s.reback THEN s.count ELSE 1]}
    ELSE channelMq

\* What sessionDone leaves in the database and tells the client: "submit
\* success" also when nothing was published.
Logged(m, s, expired, queue) ==
    [log[m] EXCEPT
        !.rep = @ + (IF ~s.initial /\ s.push = "REPORT" THEN 1 ELSE 0),
        !.lost = @ \/ (s.initial /\ ~Publishes(s, queue)),
        !.unsent = IF s.initial /\ s.overState /\ ~Publishes(s, queue) THEN over[m].chan ELSE @,
        !.unit = @ \/ (s.initial /\ s.overState /\ over[m].global),
        !.late = @ \/ (expired /\ s.stage = "AUDIT"),
        !.leaked = @ \/ (expired /\ s.stage = "OVERRATE")]

\* Variation: the over-rate thread is told of success only.
OverRateSetPostedOnSuccess(m, s) ==
    IF s.overState /\ s.initial
    THEN /\ setQ' = Append(setQ, [ok |-> TRUE, global |-> over[m].global, chan |-> over[m].chan])
         /\ over' = [over EXCEPT ![m] = NoOver]
    ELSE UNCHANGED rate_vars

\* sessionOverRate(OVERRATE_SET): state 0 only after "submit success".
OverRateSetPosted(m, s) ==
    IF s.overState /\ ~s.plan
    THEN /\ setQ' = Append(setQ, [ok |-> s.initial, global |-> over[m].global,
                                  chan |-> over[m].chan])
         /\ over' = [over EXCEPT ![m] = NoOver]
    ELSE UNCHANGED rate_vars

\* Variation: what is reported is requeued as well, a missing "else".
RequeuedAlways(m, s, io) ==
    IF ~s.initial /\ s.push # "IOREBACK"
    THEN io \cup {[sms |-> m, audited |-> TRUE, routed |-> s.routed]} ELSE io

\* MQPushBackToC2sIO
Requeued(m, s, io) ==
    IF ~s.initial /\ s.push = "OVERFLOW"
    THEN io \cup {[sms |-> m, audited |-> TRUE, routed |-> s.routed]} ELSE io

\* SendToReback
SentBack(m, s, rb) ==
    IF ~s.initial /\ s.push = "IOREBACK"
    THEN rb \cup {[sms |-> m, count |-> s.count, chan |-> s.origin, again |-> TRUE]} ELSE rb

\* sessionDone, and the expiry of the session's timer before it.
Finish(m, s, io, rb, expired) ==
    /\ \E queue \in BOOLEAN :
          /\ channelMq' = Published(m, s, queue)
          /\ log' = [log EXCEPT ![m] = Logged(m, s, expired, queue)]
    /\ ioMq' = Requeued(m, s, io)
    /\ rebackMq' = SentBack(m, s, rb)
    /\ OverRateSetPosted(m, s)
    /\ session' = [session EXCEPT ![m] = NoSession]
    /\ UNCHANGED request_vars

\* sessionDone for an SMS the audit keeps: the session ends, nothing else.
FinishHeld(m) ==
    /\ session' = [session EXCEPT ![m] = NoSession]
    /\ UNCHANGED <<mq_vars, request_vars, rate_vars, log>>

Done(m, s, io, rb) == Finish(m, s, io, rb, FALSE)

\* The handler ends with m_uState an error state: reported to the client.
Fail(m, s, io, rb) == Done(m, [s EXCEPT !.initial = FALSE], io, rb)

\* The session waits in `stage` for the answer to the request it posts.
Wait(m, s, stage, io, rb) ==
    /\ session' = [session EXCEPT ![m] = [s EXCEPT !.stage = stage, !.ans = "NONE"]]
    /\ ioMq' = io /\ rebackMq' = rb
    /\ auditReq' = IF stage = "AUDIT" THEN auditReq \cup {m} ELSE auditReq
    /\ chargeReq' = IF stage = "CHARGE" THEN chargeReq \cup {m} ELSE chargeReq
    /\ over' = IF stage = "OVERRATE"
               THEN [over EXCEPT ![m] = [NoOver EXCEPT !.at = "POSTED", !.chan = s.chan,
                                                       !.global = s.failed = {} /\ ~s.reback]]
               ELSE over
    /\ UNCHANGED <<channelMq, setQ, log>>

\* sessionStateProc: an account that is not prepaid passes CHARGE at once.
Enter(m, s, stage, io, rb) ==
    \/ stage # "DONE" /\ (stage = "CHARGE" => account[m].prepaid) /\ Wait(m, s, stage, io, rb)
    \/ (stage = "DONE" \/ (stage = "CHARGE" /\ ~account[m].prepaid)) /\ Done(m, s, io, rb)

Following == [INIT |-> "BLACKLIST", BLACKLIST |-> "TEMPLATE", TEMPLATE |-> "AUDIT",
              AUDIT |-> "ROUTE", ROUTE |-> "OVERRATE", OVERRATE |-> "CHARGE", CHARGE |-> "DONE"]

\* Variation: an SMS that came back is charged like a new one.
nextStateRebackCharged(s) ==
    IF s.audited /\ s.stage \in {"INIT", "BLACKLIST", "TEMPLATE", "AUDIT"} THEN "ROUTE"
    ELSE IF s.reback /\ s.stage = "BLACKLIST" THEN "ROUTE"
    ELSE Following[s.stage]

\* What was audited before goes straight to the route; what came back from
\* send is neither audited nor charged again.
nextState(s) ==
    IF s.audited /\ s.stage \in {"INIT", "BLACKLIST", "TEMPLATE", "AUDIT"} THEN "ROUTE"
    ELSE IF s.reback /\ s.stage = "BLACKLIST" THEN "ROUTE"
    ELSE IF s.reback /\ s.stage = "OVERRATE" THEN "DONE"
    ELSE Following[s.stage]

Proceed(m, s) == Enter(m, s, nextState(s), ioMq, rebackMq)

InState(m, stage) == session[m].open /\ session[m].stage = stage

-----------------------------------------------------------------------------
(* Queues into the session thread.                                         *)

\* HandleMQReqMsg and sessionPreProcess.  Answers to an earlier session of m
\* are ahead of the message that brings m back in the thread's queue.
HandleMQReqMsg(q) ==
    LET s == [NewSession EXCEPT !.audited = q.audited, !.routed = q.routed] IN
    /\ q \in ioMq /\ ~session[q.sms].open
    /\ \/ Enter(q.sms, s, nextState(s), ioMq \ {q}, rebackMq)
       \/ Fail(q.sms, s, ioMq \ {q}, rebackMq)   \* unknown account, phone, no credit
    /\ UNCHANGED <<config_vars, auditHeld, redis_vars>>

\* Variation: whatever brings the SMS back, the counter is given back.
GivenBackAlways(q) == [chanDay EXCEPT ![q.chan] = @ - 1]

\* The day counter of the SMS's last channel is given back once.
GivenBack(q) == IF q.count = 1 \/ ~q.again THEN [chanDay EXCEPT ![q.chan] = @ - 1] ELSE chanDay

\* Variation: the attempt is not counted.
RetriedUncounted(s) == s

\* m_iOverCount++
Retried(s) == [s EXCEPT !.count = @ + 1]

\* HandleMQRebackReqMsg.  No timer is set.
HandleMQRebackReqMsg(q) ==
    LET s == [NewSession EXCEPT !.reback = TRUE, !.count = q.count, !.origin = q.chan] IN
    /\ q \in rebackMq /\ ~session[q.sms].open
    /\ chanDay' = GivenBack(q)
    /\ \/ /\ q.count < MaxOverCount
          /\ Enter(q.sms, Retried(s), "BLACKLIST", ioMq, rebackMq \ {q})
       \/ Fail(q.sms, s, ioMq, rebackMq \ {q})   \* too many times, too late, no account
    /\ UNCHANGED <<config_vars, auditHeld, globalCount, dayCache, env_vars>>

-----------------------------------------------------------------------------
(* Blacklist, template, route: the answer is handled with the request.     *)

\* sessionBlackListReport: no answer from redis, or an SMS sent back, passes.
BlackListReport(m) ==
    LET s == session[m] IN
    /\ InState(m, "BLACKLIST")
    /\ \/ Proceed(m, s)
       \/ ~s.reback /\ Fail(m, s, ioMq, rebackMq)
    /\ UNCHANGED <<config_vars, auditHeld, redis_vars>>

\* sessionTemplateReport
TemplateReport(m) ==
    LET s == session[m] IN
    /\ InState(m, "TEMPLATE")
    /\ Proceed(m, s) \/ Fail(m, s, ioMq, rebackMq)
    /\ UNCHANGED <<config_vars, auditHeld, redis_vars>>

\* CHANNEL_GET_SUCCESS.  For an unknown channel the session of a new SMS gets
\* an error state; that of an SMS sent back keeps the state it has.
RouteFound(m, s, c) ==
    /\ c \in Group[m] \ s.failed
    /\ IF c \in known THEN Proceed(m, [s EXCEPT !.chan = c, !.initial = TRUE])
       ELSE Done(m, [s EXCEPT !.initial = s.reback /\ @], ioMq, rebackMq)

\* Variation: the limit of rounds is off by one.
PushWhenFullOneMore(s) == IF s.routed > MaxSelect THEN "REPORT" ELSE "OVERFLOW"

PushWhenFull(s) == IF s.routed >= MaxSelect THEN "REPORT" ELSE "OVERFLOW"

\* CHANNEL_GET_FAILURE_OVERFLOW, _LOGINSTATUS: another round, or too many.
RouteFull(m, s) ==
    IF s.reback
    THEN \E again \in {p \in {"IOREBACK", "REPORT"} : p = "IOREBACK" => s.count < MaxOverCount} :
            Done(m, [s EXCEPT !.initial = FALSE, !.push = again], ioMq, rebackMq)
    ELSE Done(m, [s EXCEPT !.initial = FALSE, !.routed = @ + 1, !.push = PushWhenFull(s)],
              ioMq, rebackMq)

\* sessionRouterReport on what smsGetChannelRouter returns.
RouterReport(m) ==
    LET s == session[m] IN
    /\ InState(m, "ROUTE")
    /\ \/ \E c \in Channels : RouteFound(m, s, c)
       \/ RouteFull(m, s)
       \/ Fail(m, s, ioMq, rebackMq)
    /\ UNCHANGED <<config_vars, auditHeld, redis_vars>>

-----------------------------------------------------------------------------
(* Audit.                                                                  *)

\* An answer reaches the session that waits for it, if it is still there.
Answered(m, stage, r) ==
    session' = IF InState(m, stage) /\ session[m].ans = "NONE"
               THEN [session EXCEPT ![m].ans = r] ELSE session

\* Variation: the SMS is kept whatever the verdict.
KeptAlways(m, r) == auditHeld \cup {m}

Kept(m, r) == IF r = "HELD" THEN auditHeld \cup {m} ELSE auditHeld

\* The session of m waits for the audit.
Awaits(m) == InState(m, "AUDIT") /\ session[m].ans = "NONE"

\* CAuditThread answers (sendAuditRspMsg), and keeps the SMS itself when an
\* auditor, or a later hour, must see it.
AuditThread(m, r) ==
    /\ m \in auditReq /\ r \in {"PASS", "FAIL", "HELD"}
    /\ auditReq' = auditReq \ {m}
    /\ auditHeld' = Kept(m, r)
    /\ Answered(m, "AUDIT", r)
    /\ log' = [log EXCEPT ![m].unheard = @ \/ (r # "HELD" /\ ~Awaits(m))]
    /\ UNCHANGED <<mq_vars, config_vars, chargeReq, rate_vars, redis_vars>>

\* Variation: an SMS the audit refuses ends like one it keeps.
AuditEndsSilent == {"FAIL", "HELD"}

\* SMS_AUDIT_STATUS_WAIT, _CACHE, _GROUPSENDLIMIT: the verdicts sessionDone
\* has nothing to do for.
AuditEnds == {"HELD"}

\* sessionAuditReport
AuditReport(m) ==
    LET s == session[m] IN
    /\ InState(m, "AUDIT")
    /\ \/ s.ans = "PASS" /\ Proceed(m, s)
       \/ s.ans \in AuditEnds /\ FinishHeld(m)
       \/ s.ans = "FAIL" /\ s.ans \notin AuditEnds /\ Fail(m, s, ioMq, rebackMq)
    /\ UNCHANGED <<config_vars, auditHeld, redis_vars>>

\* processAudit, for what the audit holds after a group-send limit was lifted:
\* checked like a new SMS (processAuditReal), though its session has ended.
Reaudited(m) ==
    /\ auditReq' = auditReq \cup {m}
    /\ UNCHANGED <<ioMq, log>>

\* Variation: an SMS that is refused is queued again as well.
AuditResultBoth(m) ==
    /\ m \in auditHeld
    /\ auditHeld' = auditHeld \ {m}
    /\ ioMq' = ioMq \cup {[sms |-> m, audited |-> TRUE, routed |-> 0]}
    /\ \/ log' = [log EXCEPT ![m].rep = @ + 1] \/ UNCHANGED log
    /\ UNCHANGED <<rebackMq, channelMq, session, config_vars, request_vars, rate_vars, redis_vars>>

\* processGetAuditDetailRspMsg, processAuditDetail: the auditor's verdict, or
\* that no check is needed any more, through the client side's queue with
\* audit_flag=1; a refusal reported to the client; or another check.
AuditResult(m) ==
    /\ m \in auditHeld
    /\ auditHeld' = auditHeld \ {m}
    /\ \/ /\ ioMq' = ioMq \cup {[sms |-> m, audited |-> TRUE, routed |-> 0]}
          /\ UNCHANGED <<auditReq, log>>
       \/ /\ log' = [log EXCEPT ![m].rep = @ + 1]
          /\ UNCHANGED <<auditReq, ioMq>>
       \/ Reaudited(m)
    /\ UNCHANGED <<rebackMq, channelMq, session, config_vars, chargeReq, rate_vars, redis_vars>>

-----------------------------------------------------------------------------
(* Over-rate.  Commands on one redis key run in the order they are posted. *)

\* Variation: the unit is never taken back.
OverRateNoRollback(m, r) ==
    /\ Answered(m, "OVERRATE", r)
    /\ over' = [over EXCEPT ![m] = NoOver]
    /\ UNCHANGED globalCount

\* sendOverRateCheckRspMsg for a verdict against the SMS: the session of the
\* over-rate thread is deleted; except after the global check a loaded global
\* rule has its unit taken back.
OverRate(m, r) ==
    /\ Answered(m, "OVERRATE", r)
    /\ over' = [over EXCEPT ![m] = NoOver]
    /\ globalCount' = IF r # "GLOBAL" /\ over[m].global THEN globalCount - 1 ELSE globalCount

\* checkChannelOverRate: the day's verdict from memory, or ask redis.
ChannelCheck(m) ==
    IF over[m].chan \in dayCache THEN OverRate(m, "CHANNEL")
    ELSE /\ over' = [over EXCEPT ![m].at = "CHANNEL"]
         /\ UNCHANGED <<session, globalCount>>

\* handleOverRateCheckReqMsg: the global check first, or the channel's only.
OverRateCheckReq(m) ==
    /\ over[m].at = "POSTED"
    /\ IF over[m].global
       THEN /\ over' = [over EXCEPT ![m].at = "GLOBAL", ![m].val = globalCount]
            /\ UNCHANGED <<session, globalCount>>
       ELSE ChannelCheck(m)
    /\ UNCHANGED <<mq_vars, config_vars, request_vars, auditHeld, setQ, chanDay, dayCache, env_vars,
                   log>>

\* checkRedisGlobalOverRate, with the count of the time of the request.
GlobalReply(m) ==
    /\ over[m].at = "GLOBAL" /\ ~over[m].lost
    /\ IF over[m].val >= GlobalLimit THEN OverRate(m, "GLOBAL")
       ELSE /\ over' = [over EXCEPT ![m].at = "CONTENT", ![m].val = 0]
            /\ globalCount' = globalCount + 1
            /\ UNCHANGED session
    /\ UNCHANGED <<mq_vars, config_vars, request_vars, auditHeld, setQ, chanDay, dayCache, env_vars,
                   log>>

\* The keyword and the SMS-type check, then the channel's.
ContentReply(m) ==
    /\ over[m].at = "CONTENT" /\ ~over[m].lost
    /\ OverRate(m, "CONTENT") \/ ChannelCheck(m)
    /\ UNCHANGED <<mq_vars, config_vars, request_vars, auditHeld, setQ, chanDay, dayCache, env_vars,
                   log>>

\* The sum over the days is a UInt32: below zero it is beyond every limit.
DayOver(n) == n < 0 \/ n >= ChannelLimit

\* checkRedisChannelDayOverRate; checkRedisChannelOverRate when it allows.
ChannelReply(m) ==
    LET c == over[m].chan IN
    /\ over[m].at = "CHANNEL" /\ ~over[m].lost
    /\ dayCache' = IF DayOver(chanDay[c]) THEN dayCache \cup {c} ELSE dayCache
    /\ \/ OverRate(m, "CHANNEL")
       \/ /\ ~DayOver(chanDay[c])
          /\ Answered(m, "OVERRATE", "OK")
          /\ over' = [over EXCEPT ![m].at = "OK"]
          /\ UNCHANGED globalCount
    /\ UNCHANGED <<mq_vars, config_vars, request_vars, auditHeld, setQ, chanDay, env_vars, log>>

\* redis gives no answer: the check goes no further.
ReplyLost(m) ==
    /\ over[m].at \in {"GLOBAL", "CONTENT", "CHANNEL"} /\ ~over[m].lost
    /\ faults < MaxFaults
    /\ faults' = faults + 1
    /\ over' = [over EXCEPT ![m].lost = TRUE]
    /\ UNCHANGED <<mq_vars, session, config_vars, request_vars, auditHeld, setQ, globalCount,
                   chanDay, dayCache, others, otherDay, log>>

\* handleOverRateSetReqMsg.  The increments of a day counter are posted to
\* another redis thread than its reads, so that no order between them holds.
OverRateSetReq ==
    LET q == Head(setQ) IN
    /\ setQ # <<>>
    /\ setQ' = Tail(setQ)
    /\ chanDay' = IF q.ok THEN [chanDay EXCEPT ![q.chan] = @ + 1] ELSE chanDay
    /\ globalCount' = IF ~q.ok /\ q.global THEN globalCount - 1 ELSE globalCount
    /\ UNCHANGED <<mq_vars, session, config_vars, request_vars, auditHeld, over, dayCache, env_vars,
                   log>>

\* cleanChannelOverRateMap: once a day, and when the rules change.
CleanOverRateMap ==
    /\ dayCache # {}
    /\ dayCache' = {}
    /\ UNCHANGED <<mq_vars, session, config_vars, request_vars, auditHeld, rate_vars, globalCount,
                   chanDay, env_vars, log>>

\* sessionOverRateReport: go on; route again without the channel; or end,
\* after a charge if the account's plan says so.
OverRateReport(m) ==
    LET s == session[m] IN
    /\ InState(m, "OVERRATE")
    /\ \/ s.ans = "OK" /\ Proceed(m, [s EXCEPT !.overState = TRUE])
       \/ /\ s.ans = "CHANNEL"
          /\ Enter(m, [s EXCEPT !.failed = @ \cup {s.chan}, !.chan = NoChannel, !.initial = FALSE],
                   "ROUTE", ioMq, rebackMq)
       \/ /\ s.ans \in {"GLOBAL", "CONTENT"}
          /\ IF account[m].overRateCharge
             THEN Enter(m, [s EXCEPT !.initial = FALSE, !.plan = TRUE], "CHARGE", ioMq, rebackMq)
             ELSE Fail(m, s, ioMq, rebackMq)
    /\ UNCHANGED <<config_vars, auditHeld, redis_vars>>

-----------------------------------------------------------------------------
(* Charge, the session's timer, the send component, the rules.             *)

\* The charge server takes the money or not; its answer, the time-out of the
\* HTTP client and smsChargePre failing at once come back as OK or FAIL.
ChargeServer(m) ==
    /\ m \in chargeReq
    /\ chargeReq' = chargeReq \ {m}
    /\ \E paid \in BOOLEAN, r \in {"OK", "FAIL"} :
          /\ r = "OK" => paid
          /\ log' = [log EXCEPT ![m].charged = IF paid THEN @ + 1 ELSE @]
          /\ Answered(m, "CHARGE", r)
    /\ UNCHANGED <<mq_vars, config_vars, auditReq, auditHeld, rate_vars, redis_vars>>

\* sessionChargeReport
ChargeReport(m) ==
    LET s == session[m] IN
    /\ InState(m, "CHARGE")
    /\ \/ s.ans = "OK" /\ Proceed(m, s)
       \/ s.ans = "FAIL" /\ Fail(m, s, ioMq, rebackMq)
    /\ UNCHANGED <<config_vars, auditHeld, redis_vars>>

\* HandleTimeOut: the timer of a session from the client side.
HandleTimeOut(m) ==
    /\ session[m].open /\ ~session[m].reback
    /\ Finish(m, [session[m] EXCEPT !.initial = FALSE], ioMq, rebackMq, TRUE)
    /\ UNCHANGED <<config_vars, auditHeld, redis_vars>>

\* The send component delivers the SMS, or sends it back as it came.
Deliver(q) ==
    /\ q \in channelMq
    /\ channelMq' = channelMq \ {q}
    /\ log' = [log EXCEPT ![q.sms].delivered = q.chan]
    /\ UNCHANGED <<ioMq, rebackMq, session, config_vars, request_vars, auditHeld, rate_vars,
                   redis_vars>>

SendReback(q) ==
    /\ q \in channelMq
    /\ channelMq' = channelMq \ {q}
    /\ rebackMq' = rebackMq \cup {[sms |-> q.sms, count |-> q.count, chan |-> q.chan,
                                  again |-> FALSE]}
    /\ UNCHANGED <<ioMq, session, config_vars, request_vars, auditHeld, rate_vars, redis_vars, log>>

\* RULELOAD_CHANNEL_UPDATE after a channel was closed.  The router thread has
\* a message and a map of its own: it may still choose the channel.
ChannelUpdate(c) ==
    /\ c \in known
    /\ known' = known \ {c}
    /\ UNCHANGED <<account, mq_vars, session, request_vars, auditHeld, rate_vars, redis_vars, log>>

\* SMS that are not modelled, of this access process or of another: they take
\* units of the shared counters, give them back, and meet full channels.
OtherSms ==
    /\ \/ \E n \in 0 .. MaxOthers :
             /\ n \in {others - 1, others + 1}
             /\ others' = n /\ globalCount' = globalCount + n - others
             /\ UNCHANGED <<otherDay, chanDay, dayCache>>
       \/ \E c \in Channels, n \in 0 .. MaxOthers :
             /\ n \in {otherDay[c] - 1, otherDay[c] + 1}
             /\ otherDay' = [otherDay EXCEPT ![c] = n]
             /\ chanDay' = [chanDay EXCEPT ![c] = @ + n - otherDay[c]]
             /\ UNCHANGED <<others, globalCount, dayCache>>
       \/ \E c \in Channels \ dayCache :
             /\ DayOver(chanDay[c])
             /\ dayCache' = dayCache \cup {c}
             /\ UNCHANGED <<others, otherDay, globalCount, chanDay>>
    /\ UNCHANGED <<mq_vars, session, config_vars, request_vars, auditHeld, rate_vars, faults, log>>

-----------------------------------------------------------------------------
AccessInit ==
    /\ account \in [Sms -> Accounts]
    /\ ioMq = {[sms |-> m, audited |-> FALSE, routed |-> 0] : m \in Sms}
    /\ rebackMq = {} /\ channelMq = {}
    /\ session = [m \in Sms |-> NoSession]
    /\ known = Channels
    /\ auditReq = {} /\ auditHeld = {} /\ chargeReq = {}
    /\ over = [m \in Sms |-> NoOver] /\ setQ = <<>>
    /\ globalCount = 0 /\ chanDay = [c \in Channels |-> 0] /\ dayCache = {}
    /\ others = 0 /\ otherDay = [c \in Channels |-> 0] /\ faults = 0
    /\ log = [m \in Sms |-> NewLog]

Of(m, queue) == {q \in queue : q.sms = m}

\* Everything the session thread does for m but the timer.
SessionThread(m) ==
    \/ \E q \in Of(m, ioMq) : HandleMQReqMsg(q)
    \/ \E q \in Of(m, rebackMq) : HandleMQRebackReqMsg(q)
    \/ BlackListReport(m) \/ TemplateReport(m) \/ RouterReport(m) \/ AuditReport(m)
    \/ OverRateReport(m) \/ ChargeReport(m)

\* The over-rate thread on its messages and the answers of redis for m.
OverRateThread(m) == OverRateCheckReq(m) \/ GlobalReply(m) \/ ContentReply(m) \/ ChannelReply(m)

AuditAnswer(m) == \E r \in {"PASS", "FAIL", "HELD"} : AuditThread(m, r)

\* The send component ends what it took off the queue.
SendComponent(m) == \E q \in Of(m, channelMq) : Deliver(q) \/ SendReback(q)

AccessNext ==
    \/ \E m \in Sms :
          \/ SessionThread(m) \/ HandleTimeOut(m)
          \/ AuditAnswer(m) \/ AuditResult(m)
          \/ OverRateThread(m) \/ ReplyLost(m) \/ ChargeServer(m)
          \/ SendComponent(m)
    \/ OverRateSetReq \/ CleanOverRateMap \/ OtherSms
    \/ \E c \in Closing : ChannelUpdate(c)

AccessSpec == AccessInit /\ [][AccessNext]_access_vars

\* The session and the over-rate thread handle what is in their queues, the
\* timers fire, redis answers unless the answer is lost, the send component
\* finishes.  Nothing is asked of the audit, of the charge server or of the
\* message that ends an over-rate session.
AccessFairness ==
    \A m \in Sms :
       /\ WF_access_vars(SessionThread(m)) /\ WF_access_vars(HandleTimeOut(m))
       /\ WF_access_vars(OverRateThread(m)) /\ WF_access_vars(SendComponent(m))

AccessFairSpec == AccessSpec /\ AccessFairness

-----------------------------------------------------------------------------
(* Properties.                                                             *)

\* Where the SMS m is.  A session that has been told that the audit keeps the
\* SMS no longer has it; an audit request may outlive its session, or have none.
Carriers(m) ==
    {<<"io", q>> : q \in Of(m, ioMq)} \cup {<<"reback", q>> : q \in Of(m, rebackMq)}
    \cup {<<"channel", q>> : q \in Of(m, channelMq)}
    \cup (IF session[m].open /\ session[m].ans # "HELD" THEN {<<"session", m>>} ELSE {})
    \cup (IF m \in auditHeld THEN {<<"held", m>>} ELSE {})
    \cup (IF m \in auditReq /\ ~Awaits(m) THEN {<<"audit", m>>} ELSE {})

IoMsg == [sms : Sms, audited : BOOLEAN, routed : 0 .. MaxSelect]
RebackMsg == [sms : Sms, count : 1 .. MaxOverCount, chan : Channels, again : BOOLEAN]
ChannelMsg == [sms : Sms, chan : Channels, count : 1 .. MaxOverCount]
SetMsg == [ok : BOOLEAN, global : BOOLEAN, chan : Channels]
SessionType ==
    [open : BOOLEAN, reback : BOOLEAN, stage : Stages \cup {"INIT"}, audited : BOOLEAN,
     routed : 0 .. MaxSelect, count : 0 .. MaxOverCount, chan : Maybe, failed : SUBSET Channels,
     initial : BOOLEAN, overState : BOOLEAN, plan : BOOLEAN, push : {"REPORT"}, origin : Maybe,
     ans : {"NONE", "PASS", "FAIL", "HELD", "OK", "GLOBAL", "CONTENT", "CHANNEL"}]
OverType(Val) ==
    [at : {"NONE", "POSTED", "GLOBAL", "CONTENT", "CHANNEL", "OK"}, global : BOOLEAN,
     chan : Maybe, val : Val, lost : BOOLEAN]
LogType ==
    [rep : Nat, lost : BOOLEAN, unsent : Maybe, unheard : BOOLEAN, unit : BOOLEAN, charged : Nat,
     delivered : Maybe, late : BOOLEAN, leaked : BOOLEAN]

MqTypeOK == ioMq \subseteq IoMsg /\ rebackMq \subseteq RebackMsg /\ channelMq \subseteq ChannelMsg
SessionTypeOK ==
    /\ account \in [Sms -> Accounts] /\ session \in [Sms -> SessionType]
    /\ auditReq \subseteq Sms /\ auditHeld \subseteq Sms /\ chargeReq \subseteq Sms
RateTypeOK(Val) == over \in [Sms -> OverType(Val)] /\ setQ \in Seq(SetMsg)
CountTypeOK ==
    /\ globalCount \in Int /\ chanDay \in [Channels -> Int]
    /\ known \subseteq Channels /\ dayCache \subseteq Channels
    /\ others \in 0 .. MaxOthers /\ otherDay \in [Channels -> 0 .. MaxOthers]
    /\ faults \in 0 .. MaxFaults
LogTypeOK == log \in [Sms -> LogType]

(* Every variable has its type; counters and times stay within their       *)
(* bounds: the maps and queues of the two threads.                         *)
AccessTypeOK ==
    MqTypeOK /\ SessionTypeOK /\ RateTypeOK(Nat) /\ CountTypeOK /\ LogTypeOK

(* An SMS is in one place: in two it would be sent twice.  The queues, the *)
(* session, the audit and the auditor hand it over although the session's  *)
(* timer may fire in between (sessionDone, processAuditDetail).            *)
OneCarrier == \A m \in Sms : Cardinality(Carriers(m)) <= 1

(* An SMS that is nowhere any more was delivered, reported to the client   *)
(* as failed, recorded as submitted though nothing was published, or       *)
(* checked by the audit when no session could hear the verdict: the code   *)
(* has these two ways of dropping an SMS without a word, on every other    *)
(* path of sessionDone and of the audit thread somebody has it.            *)
NotForgotten ==
    \A m \in Sms :
       Carriers(m) = {} =>
          \/ log[m].delivered # NoChannel \/ log[m].rep > 0
          \/ log[m].lost \/ log[m].unheard

(* The global counter of the phone is what is in progress plus what was    *)
(* recorded as sent, here or elsewhere: an SMS that fails after it was     *)
(* counted is taken back by exactly one of sendOverRateCheckRspMsg and     *)
(* handleOverRateSetReqMsg.                                                *)
GlobalConserved ==
    globalCount = Cardinality({m \in Sms : Holds(over[m])})
                  + Cardinality({i \in DOMAIN setQ : ~setQ[i].ok /\ setQ[i].global})
                  + Cardinality({m \in Sms : log[m].unit})
                  + others

(* An over-rate session is owned by a session that will end it, or its     *)
(* session timed out while the check was under way: nothing else leaves a  *)
(* unit of the global counter behind (HandleTimeOut, m_mapSession).        *)
TokenOwned ==
    \A m \in Sms :
       /\ over[m].at # "NONE" =>
             \/ InState(m, "OVERRATE")
             \/ over[m].at = "OK" /\ InState(m, "CHARGE") /\ session[m].overState
             \/ log[m].leaked
       /\ InState(m, "OVERRATE") /\ session[m].ans = "NONE" => over[m].at \notin {"NONE", "OK"}

(* The day counter of a channel, once pending updates are in, is the       *)
(* number of SMS sent on it and not come back, and of those recorded as    *)
(* sent on it though its queue was not found: HandleMQRebackReqMsg gives   *)
(* back what handleOverRateSetReqMsg counted, except for the latter, which *)
(* sessionDone counts and which never come back.                           *)
ChannelDayConserved ==
    \A c \in Channels :
       chanDay[c] + Cardinality({i \in DOMAIN setQ : setQ[i].ok /\ setQ[i].chan = c})
       = Cardinality({q \in channelMq : q.chan = c})
         + Cardinality({q \in rebackMq : q.chan = c /\ ~q.again})
         + Cardinality({m \in Sms : c \in {log[m].delivered, log[m].unsent}})
         + otherDay[c]

(* No SMS is charged twice, and one that goes out for a prepaid account    *)
(* has been charged, however often it comes back (nextState).              *)
ChargedOnce ==
    \A m \in Sms :
       /\ log[m].charged <= 1
       /\ account[m].prepaid /\ (Of(m, channelMq) # {} \/ log[m].delivered # NoChannel)
             => log[m].charged = 1

(* The client hears one verdict: an SMS is not both delivered and reported *)
(* as failed, nor reported twice, unless its session timed out while the   *)
(* audit thread still had it (sessionDone, HandleTimeOut).                 *)
OneVerdict ==
    \A m \in Sms :
       ~log[m].late => log[m].rep + (IF log[m].delivered # NoChannel THEN 1 ELSE 0) <= 1

\* An SMS sent back whose redis reply was lost: its session has no timer.
Stuck(m) == session[m].reback /\ over[m].lost

\* With an auditor, or with the audit thread, which nothing makes answer.
InAudit(m) == m \in auditHeld \/ (m \in auditReq /\ ~Awaits(m))

Settled(m) ==
    \/ log[m].rep > 0 \/ log[m].delivered # NoChannel \/ InAudit(m)
    \/ log[m].lost \/ log[m].unheard \/ Stuck(m)

(* Every SMS ends: delivered, reported, with the audit; or recorded but    *)
(* not published, refused or passed by the audit with no session to hear   *)
(* it, or in a session that waits forever, the three ways this code has of *)
(* losing one.  Requeues and rebacks come to an end.                       *)
Settles == \A m \in Sms : []<>Settled(m)
-----------------------------------------------------------------------------
PlaceOf(m) ==
    IF Of(m, ioMq) # {} \/ Of(m, rebackMq) # {} THEN "QUEUED"
    ELSE IF Of(m, channelMq) # {} THEN "SENDING"
    ELSE IF m \in auditHeld THEN "HELD"
    ELSE IF m \in auditReq /\ ~Awaits(m) THEN "CHECKED"
    ELSE IF session[m].open /\ session[m].ans # "HELD" THEN "OWNED"
    ELSE "ENDED"

SmsPlace == [m \in Sms |-> PlaceOf(m)]
SmsTold == {m \in Sms : log[m].rep > 0}
SmsSent == {m \in Sms : log[m].delivered # NoChannel}

Custody == INSTANCE SmsCustody WITH place <- SmsPlace, told <- SmsTold, sent <- SmsSent

(* Sessions, timers, audit and queues together do what SmsCustody says: an *)
(* SMS is handed from one to the next, comes back from the send component  *)
(* and the auditor only through a queue, is sent only out of a session,    *)
(* never comes back once it has ended, and gets lost only where nothing    *)
(* could be published or the audit checked it without a session            *)
(* (sessionDone, HandleTimeOut, processCheckEndAuditSms).                  *)
ImplementsCustody == Custody!Spec
=============================================================================
