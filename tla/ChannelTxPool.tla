--------------------------- MODULE ChannelTxPool ---------------------------
(***************************************************************************)
(* One direct channel of the send component, end to end: the RabbitMQ      *)
(* consumer (CMQConsumerThread), the window it shares with the pool        *)
(* (CChanelTxFlowCtr), the pool thread (CChannelThreadPool) and the links  *)
(* of DirectLink.                                                          *)
(*                                                                         *)
(* The consumer takes an SMS off the broker when the shared window has     *)
(* room and acknowledges it; from then on this process alone knows the     *)
(* SMS.  The pool opens a session, hands the SMS to a link that is logged  *)
(* in and has window left, and closes the session when every segment has   *)
(* been reported.  An SMS that no link can take is sent back (reback) for  *)
(* the access component to route again.                                    *)
(*                                                                         *)
(* Each handler of the pool thread is one action.  Times (5 minutes before *)
(* SysnSlideWndFromChannel, 3 s before SSRecover, the speed limit of the   *)
(* consumer) and the threshold uSsthresh are left to choice.  Reback takes *)
(* its normal path: the reback queue is configured.                        *)
(***************************************************************************)
EXTENDS DirectLink, FiniteSetsExt

CONSTANTS
    MaxSendTimes,   \* m_uMaxSendTimes
    AuditSwitch,    \* m_uSendAuditInterceptSwitch
    MaxMqFaults     \* bound: failed acknowledgements and lost connections

ASSUME PoolAssumption ==
    /\ MaxSendTimes \in Nat \ {0} /\ MaxMqFaults \in Nat
    /\ AuditSwitch \in BOOLEAN

VARIABLES
    broker,         \* SMS in the channel's RabbitMQ queue, unacked one included
    blocked,        \* m_mapBlockedChannel[channel]: the SMS held back, or none
    mqFaults,       \* consumer faults so far
    audit,          \* copied messages that wait for the audit redis
    poolLive,       \* the channel is in m_ChannelMap and m_mapChanneThread
    poolSlider,     \* m_ChannelMap[channel].m_uSliderWindow
    nodeLogin,      \* m_mapChannelLoginState[channel]
    poolWnd,        \* m_mapChannelFlowCtr[channel]->iWindowSize
    zeroed,         \* ...->uLastWndZeroTime has been set
    shared,         \* g_mapChannelShareInfo[channel].uSliderWindowNum
    bSwitchOff,     \* g_mapChannelShareInfo[channel].bSwitchOff
    session,        \* m_mapSessions: open, m_uRecvCnt, m_uTotalCnt by SMS
    \* History, read by no action of the program:
    outcome         \* outcome[m]: reports and rebacks issued for m

pool_vars == <<broker, blocked, mqFaults, audit, poolLive, poolSlider, nodeLogin, poolWnd,
               zeroed, shared, bSwitchOff, session, outcome>>
mq_vars == <<broker, blocked, mqFaults>>
window_vars == <<poolWnd, zeroed, shared, bSwitchOff>>
tx_vars == <<link_vars, pool_vars>>

NoSession == [open |-> FALSE, recv |-> 0, total |-> 0]
NoOutcome == [succ |-> 0, fail |-> 0, reback |-> 0, audit |-> 0]

\* Messages of the pool's queue next to those of DirectLink.
ReqMsg(m) == [type |-> "REQ", sms |-> m, times |-> 0]
DispatchMsg(m, n) == [type |-> "DISPATCH", sms |-> m, times |-> n]
SmsMsg == [type : {"REQ", "DISPATCH"}, sms : Sms, times : Nat]

-----------------------------------------------------------------------------
(* CChanelTxFlowCtr.  Every function holds g_channelShareMutex.  Without   *)
(* an entry for the channel nothing is counted and nothing is limited.     *)

\* channelFlowCtrCountAdd: the counter after it, and what it returns.
Added(max) ==
    IF bSwitchOff \/ ~poolLive THEN shared
    ELSE IF max >= 0 /\ shared + 1 > max THEN max ELSE shared + 1

CountAddReturns(max) == IF bSwitchOff THEN max ELSE Added(max)

\* channelFlowCtrCountSub: the counter after it.
Subtracted == IF bSwitchOff \/ ~poolLive THEN shared ELSE shared - 1

\* channelFlowCtrCheckState = CHANNEL_FLOW_STATE_NORMAL.
SharedNormal == ~poolLive \/ bSwitchOff \/ shared >= 0

\* channelFlowCtrSetSize.
SetSize(n) == shared' = n /\ bSwitchOff' = (n = 0)

-----------------------------------------------------------------------------
(* CMQConsumerThread.  The queue is consumed with a prefetch of one, so    *)
(* that a blocked SMS is the only unacknowledged one.                      *)
Available == IF blocked = {} THEN broker ELSE {}

\* Variation: the SMS is handed over without having been acknowledged.
MqConsumeUnacked(m) ==
    /\ m \in Available
    /\ shared' = Subtracted
    /\ ~poolLive \/ Subtracted >= 0
    /\ poolQ' = Append(poolQ, ReqMsg(m))
    /\ UNCHANGED <<broker, blocked, bSwitchOff>>

\* amqpConsumeMessage, window and speed allow it: acknowledged, handed over.
MqConsume(m) ==
    /\ m \in Available
    /\ shared' = Subtracted
    /\ ~poolLive \/ Subtracted >= 0
    /\ broker' = broker \ {m}
    /\ poolQ' = Append(poolQ, ReqMsg(m))
    /\ UNCHANGED <<blocked, bSwitchOff>>

\* amqpConsumeMessage, no window or over the speed limit: held back.
MqBlock(m) ==
    /\ m \in Available
    /\ shared' = Subtracted
    /\ blocked' = {m}
    /\ UNCHANGED <<broker, bSwitchOff, poolQ>>

\* amqpConsumeMessage, amqp_basic_ack fails: MainLoop reconnects, the broker
\* delivers the SMS again.
MqAckFails(m) ==
    /\ m \in Available
    /\ shared' = Subtracted
    /\ ~poolLive \/ Subtracted >= 0
    /\ UNCHANGED <<broker, blocked, bSwitchOff, poolQ>>

\* Variation: the entry stays in m_mapBlockedChannel.
MqReleaseKept(m) ==
    /\ m \in blocked
    /\ SharedNormal
    /\ broker' = broker \ {m}
    /\ poolQ' = Append(poolQ, ReqMsg(m))
    /\ UNCHANGED <<shared, bSwitchOff, blocked>>

\* ReleaseBlockedChannels.
MqRelease(m) ==
    /\ m \in blocked
    /\ SharedNormal
    /\ blocked' = {}
    /\ broker' = broker \ {m}
    /\ poolQ' = Append(poolQ, ReqMsg(m))
    /\ UNCHANGED <<shared, bSwitchOff>>

\* MainLoop after an exception of the connection, with
\* clearBlockedMsgAndResumeSlideWindowSize: the held SMS is forgotten and the
\* broker delivers it again.
MqReconnect ==
    /\ blocked # {}
    /\ shared' = Added(-1)
    /\ blocked' = {}
    /\ UNCHANGED <<broker, bSwitchOff, poolQ>>

MqDeliver == \E m \in Sms : MqConsume(m) \/ MqBlock(m) \/ MqRelease(m)

MqStep ==
    /\ \/ MqDeliver /\ mqFaults' = mqFaults
       \/ /\ MqReconnect \/ \E m \in Sms : MqAckFails(m)
          /\ mqFaults < MaxMqFaults /\ mqFaults' = mqFaults + 1
    /\ UNCHANGED <<chan, conn_vars, flow_vars, sess_vars, cq, dq, heart, faults,
                   audit, poolLive, poolSlider, nodeLogin, poolWnd, zeroed,
                   session, outcome>>

-----------------------------------------------------------------------------
(* CChannelThreadPool: sending.                                            *)

\* m is sent off in one more way.
Outcome(m, what) == outcome' = [outcome EXCEPT ![m][what] = @ + 1]

\* GetWorkChannelNodeNum.
WorkNodes == Cardinality({l \in Links : nodeLogin[l] = 1})

\* HandleDirectSendMsg when a link can take m: session, hand-over, and
\* smsTxFlowCtrSendReq, which counts the SMS only locally.
SendToLink(l, m) ==
    /\ FlowNormal(l)
    /\ session' = [session EXCEPT ![m] = [NoSession EXCEPT !.open = TRUE]]
    /\ PostChannelMsg(l, m)
    /\ poolWnd' = poolWnd - 1
    /\ zeroed' = (zeroed \/ poolWnd' <= 0)
    /\ UNCHANGED <<shared, outcome>>

\* Variation: an SMS that has been sent back is queued all the same.
SendToNoneTwice(m, times, q) ==
    /\ \A l \in Links : ~FlowNormal(l)
    /\ shared' = 0
    /\ poolWnd' = 0
    /\ IF times + 1 >= MaxSendTimes
       THEN /\ session' = [session EXCEPT ![m] = [NoSession EXCEPT !.open = TRUE]]
            /\ Outcome(m, "reback")
       ELSE UNCHANGED <<session, outcome>>
    /\ poolQ' = IF times > MaxSendTimes THEN q
                ELSE Append(q, DispatchMsg(m, times + 1))
    /\ UNCHANGED <<cq, zeroed>>

\* HandleDirectSendMsg when none can: both windows drop to zero, and the SMS
\* goes to the end of the pool's queue or, after MaxSendTimes, to reback.
SendToNone(m, times, q) ==
    /\ \A l \in Links : ~FlowNormal(l)
    /\ shared' = 0
    /\ poolWnd' = 0
    /\ IF times + 1 >= MaxSendTimes
       THEN /\ session' = [session EXCEPT ![m] = [NoSession EXCEPT !.open = TRUE]]
            /\ Outcome(m, "reback")
            /\ poolQ' = q
       ELSE /\ poolQ' = Append(q, DispatchMsg(m, times + 1))
            /\ UNCHANGED <<session, outcome>>
    /\ UNCHANGED <<cq, zeroed>>

\* HandleDirectSendMsg; q is the pool's queue without the message handled.  An
\* SMS whose channel has been deleted is dropped.
HandleDirectSendMsg(m, times, q) ==
    /\ IF poolLive
       THEN \/ (\E l \in Links : SendToLink(l, m)) /\ poolQ' = q
            \/ SendToNone(m, times, q)
       ELSE /\ poolQ' = q
            /\ UNCHANGED <<cq, poolWnd, zeroed, shared, session, outcome>>
    /\ UNCHANGED <<chan, conn_vars, flow_vars, sess_vars, dq, heart, faults,
                   mq_vars, poolLive, poolSlider, nodeLogin, bSwitchOff>>

\* The pool takes message msg of type t from its queue.
PoolTakes(t) == poolQ # <<>> /\ Head(poolQ).type = t

\* GetSendAuditInterceptRedis: a copy of the message, its m_uSendTimes included,
\* waits until redis says whether the content is to be intercepted.
GetSendAuditInterceptRedis(msg) ==
    /\ audit' = audit \cup {msg}
    /\ poolQ' = Tail(poolQ)
    /\ UNCHANGED <<chan, conn_vars, flow_vars, sess_vars, cq, dq, heart, faults,
                   mq_vars, poolLive, poolSlider, nodeLogin, window_vars,
                   session, outcome>>

\* smsTxDirectChannelReq, for an SMS of the channel queue and for a retry.
SmsTxDirectChannelReq(msg) ==
    IF AuditSwitch
    THEN GetSendAuditInterceptRedis(msg)
    ELSE HandleDirectSendMsg(msg.sms, msg.times, Tail(poolQ)) /\ UNCHANGED audit

\* processChannelReq; an SMS whose channel has been deleted is dropped.
ProcessChannelReq ==
    /\ PoolTakes("REQ")
    /\ IF poolLive
       THEN SmsTxDirectChannelReq(DispatchMsg(Head(poolQ).sms, 0))
       ELSE /\ poolQ' = Tail(poolQ)
            /\ UNCHANGED <<chan, conn_vars, flow_vars, sess_vars, cq, dq, heart,
                           faults, mq_vars, audit, poolLive, poolSlider,
                           nodeLogin, window_vars, session, outcome>>

\* Variation: the message is kept for another answer.
AuditPassesKept(msg) ==
    /\ msg \in audit
    /\ HandleDirectSendMsg(msg.sms, msg.times, poolQ)
    /\ UNCHANGED audit

\* sendAuditInterceptDirectRedisResp: the SMS is sent, or recorded as
\* intercepted.
AuditPasses(msg) ==
    /\ msg \in audit
    /\ audit' = audit \ {msg}
    /\ HandleDirectSendMsg(msg.sms, msg.times, poolQ)

AuditIntercepts(msg) ==
    /\ msg \in audit
    /\ audit' = audit \ {msg}
    /\ Outcome(msg.sms, "audit")
    /\ UNCHANGED <<link_vars, mq_vars, poolLive, poolSlider, nodeLogin,
                   window_vars, session>>

\* MSGTYPE_DISPATCH_TO_DIRECTSEND_REQ, the pool's own retry, which asks redis
\* once more.
Redispatch == PoolTakes("DISPATCH") /\ SmsTxDirectChannelReq(Head(poolQ))

-----------------------------------------------------------------------------
(* CChannelThreadPool: windows.                                            *)

\* Variation: no upper bound.
ClampBelow(w, max) == IF w < 0 THEN 0 ELSE w

Clamp(w, max) == IF w < 0 THEN 0 ELSE IF w > max THEN max ELSE w

\* PoolChannelFlowCtrModify, then channelFlowCtrSynchronous.
PoolChannelFlowCtrModify(iWnd, max) ==
    /\ poolWnd' = Clamp(poolWnd + iWnd, max)
    /\ zeroed' = (zeroed \/ poolWnd + iWnd < 0)
    /\ shared' = poolWnd'
    /\ UNCHANGED bSwitchOff

\* HandleChannelLoginStateMsg.
HandleChannelLoginStateMsg ==
    /\ PoolTakes("LOGIN")
    /\ poolQ' = Tail(poolQ)
    /\ LET msg == Head(poolQ)
       IN  IF poolLive /\ ~msg.bDelAll
           THEN /\ nodeLogin' = [nodeLogin EXCEPT ![msg.node] = msg.new]
                /\ PoolChannelFlowCtrModify(msg.iWnd, WorkNodes' * msg.iMaxWnd)
           ELSE UNCHANGED <<nodeLogin, window_vars>>
    /\ UNCHANGED <<chan, conn_vars, flow_vars, sess_vars, cq, dq, heart, faults,
                   mq_vars, audit, poolLive, poolSlider, session, outcome>>

\* HandleTimeOutResetSlideWindowMsg.
HandleTimeOutResetSlideWindowMsg ==
    /\ PoolTakes("RESETWND")
    /\ poolQ' = Tail(poolQ)
    /\ IF poolLive
       THEN PoolChannelFlowCtrModify(Head(poolQ).iWnd,
                                     WorkNodes * Head(poolQ).iWnd)
       ELSE UNCHANGED window_vars
    /\ UNCHANGED <<chan, conn_vars, flow_vars, sess_vars, cq, dq, heart, faults,
                   mq_vars, audit, poolLive, poolSlider, nodeLogin, session,
                   outcome>>

\* PoolChannelFlowCtrSSRecover: what a window of w grows to.  (-w) \div 2 is
\* the division of C, which truncates.
SSRecovered(w, max) ==
    LET grown == IF w < 0 THEN 1 - ((-w) \div 2) ELSE 2 * w
    IN  IF grown > max THEN max ELSE grown

\* Variation: a refused SMS does not give its token back.
SmsTxFlowCtrSendRspFailLost(first, st) ==
    LET max  == poolSlider * WorkNodes
        adds == first /\ st \in {"SUCCESS", "REBACK"}
        subs == ~first /\ st = "TIMEOUT"
        s    == IF adds THEN Added(max) ELSE IF subs THEN Subtracted ELSE shared
        w    == IF adds THEN CountAddReturns(max) ELSE IF subs THEN s ELSE poolWnd
    IN  /\ \/ poolWnd' = w /\ shared' = s
           \/ poolWnd' = SSRecovered(w, max) /\ shared' = poolWnd'
        /\ zeroed' = (zeroed \/ poolWnd' <= 0)
        /\ UNCHANGED bSwitchOff

\* smsTxFlowCtrSendRsp, for a session's first report or a later one.
SmsTxFlowCtrSendRsp(first, st) ==
    LET max  == poolSlider * WorkNodes
        adds == first /\ st \in {"SUCCESS", "FAIL", "REBACK"}
        subs == ~first /\ st = "TIMEOUT"
        s    == IF adds THEN Added(max) ELSE IF subs THEN Subtracted ELSE shared
        w    == IF adds THEN CountAddReturns(max) ELSE IF subs THEN s ELSE poolWnd
    IN  /\ \/ poolWnd' = w /\ shared' = s
           \/ poolWnd' = SSRecovered(w, max) /\ shared' = poolWnd'
        /\ zeroed' = (zeroed \/ poolWnd' <= 0)
        /\ UNCHANGED bSwitchOff

\* Variation: an SMS without an answer is sent back.
TxStatusTimeoutRebacked(st) ==
    CASE st \in {"SOCKET_ERR", "TIMEOUT"} -> "REBACK"
      [] st \in {"FAIL", "NO_CHANNEL", "INTERNAL_ERROR"} -> "FAIL"
      [] OTHER -> st

\* What smsTxChannelSendStatusReport makes of a report; smsTxCheckReback sends
\* back only for SOCKET_IS_ERROR, SOCKET_IS_CLOSE and LIB_IS_NULL, which the
\* links do not report.
TxStatus(st) ==
    CASE st = "SOCKET_ERR" -> "REBACK"
      [] st \in {"FAIL", "NO_CHANNEL", "INTERNAL_ERROR"} -> "FAIL"
      [] OTHER -> st

\* Variation: the first report ends the session.
StatusReportFirstEnds(r) ==
    /\ r \in statusQ
    /\ statusQ' = statusQ \ {r}
    /\ LET m  == SmsOf(r.seg)
           st == TxStatus(r.status)
           n  == session[m].recv + 1
       IN  IF session[m].open
           THEN /\ session' = [session EXCEPT ![m] =
                      IF n >= 1 THEN NoSession
                      ELSE [open |-> TRUE, recv |-> n, total |-> r.total]]
                /\ Outcome(m, CASE st = "REBACK" -> "reback"
                                [] st = "FAIL" -> "fail"
                                [] OTHER -> "succ")
                /\ IF poolLive THEN SmsTxFlowCtrSendRsp(n = 1, st)
                   ELSE UNCHANGED window_vars
           ELSE UNCHANGED <<session, outcome, window_vars>>
    /\ UNCHANGED <<chan, conn_vars, flow_vars, packetDB, age, written, reported,
                   dropped, cq, dq, heart, poolQ, faults, mq_vars, audit,
                   poolLive, poolSlider, nodeLogin>>

\* Variation: the comparison misses the last report.
StatusReportLateEnd(r) ==
    /\ r \in statusQ
    /\ statusQ' = statusQ \ {r}
    /\ LET m  == SmsOf(r.seg)
           st == TxStatus(r.status)
           n  == session[m].recv + 1
       IN  IF session[m].open
           THEN /\ session' = [session EXCEPT ![m] =
                      IF n > r.total THEN NoSession
                      ELSE [open |-> TRUE, recv |-> n, total |-> r.total]]
                /\ Outcome(m, CASE st = "REBACK" -> "reback"
                                [] st = "FAIL" -> "fail"
                                [] OTHER -> "succ")
                /\ IF poolLive THEN SmsTxFlowCtrSendRsp(n = 1, st)
                   ELSE UNCHANGED window_vars
           ELSE UNCHANGED <<session, outcome, window_vars>>
    /\ UNCHANGED <<chan, conn_vars, flow_vars, packetDB, age, written, reported,
                   dropped, cq, dq, heart, poolQ, faults, mq_vars, audit,
                   poolLive, poolSlider, nodeLogin>>

\* smsTxChannelSendStatusReport.  The session goes away with its last report;
\* before that a timer is set that HandleTimeOut does not know.
SmsTxChannelSendStatusReport(r) ==
    /\ r \in statusQ
    /\ statusQ' = statusQ \ {r}
    /\ LET m  == SmsOf(r.seg)
           st == TxStatus(r.status)
           n  == session[m].recv + 1
       IN  IF session[m].open
           THEN /\ session' = [session EXCEPT ![m] =
                      IF n = r.total THEN NoSession
                      ELSE [open |-> TRUE, recv |-> n, total |-> r.total]]
                /\ Outcome(m, CASE st = "REBACK" -> "reback"
                                [] st = "FAIL" -> "fail"
                                [] OTHER -> "succ")
                /\ IF poolLive THEN SmsTxFlowCtrSendRsp(n = 1, st)
                   ELSE UNCHANGED window_vars
           ELSE UNCHANGED <<session, outcome, window_vars>>
    /\ UNCHANGED <<chan, conn_vars, flow_vars, packetDB, age, written, reported,
                   dropped, cq, dq, heart, poolQ, faults, mq_vars, audit,
                   poolLive, poolSlider, nodeLogin>>

\* SysnSlideWndFromChannel: a pool window that has stayed used up is set to
\* what the links still have, the number of their free tokens.
SysnSlideWndFromChannel ==
    LET normal == {l \in Links : FlowNormal(l)}
        sum == Cardinality(UNION {{l} \X (1 .. wnd[l]) : l \in normal})
    IN  /\ poolLive /\ zeroed /\ poolWnd <= 0 /\ sum > 0
        /\ poolWnd' = sum
        /\ SetSize(sum)
        /\ UNCHANGED <<link_vars, mq_vars, audit, poolLive, poolSlider,
                       nodeLogin, zeroed, session, outcome>>

-----------------------------------------------------------------------------
(* CChannelThreadPool: configuration (smsTxUpdateChannel).                 *)

\* A control message for every link's thread.
PostToAll(msg) == dq' = [l \in Links |-> Append(dq[l], msg)]

\* The slider of the channel changes: UpdateChannelReq, PoolChannelFlowCtrReset.
UpdateSlider(n) ==
    /\ poolLive /\ n # poolSlider
    /\ \A l \in Links : Len(dq[l]) < MaxQueue
    /\ poolSlider' = n
    /\ PostToAll(Msg("UPDATE", n))
    /\ poolWnd' = WorkNodes * n
    /\ SetSize(WorkNodes * n)
    /\ UNCHANGED <<chan, conn_vars, flow_vars, sess_vars, cq, heart, poolQ,
                   faults, mq_vars, audit, poolLive, nodeLogin, zeroed, session,
                   outcome>>

\* The channel is closed or moved to another node.
DeleteChannel ==
    /\ poolLive
    /\ \A l \in Links : Len(dq[l]) < MaxQueue
    /\ poolLive' = FALSE
    /\ PostToAll(Msg("DEL", 0))
    /\ nodeLogin' = [l \in Links |-> 0]
    /\ poolWnd' = 0 /\ shared' = 0 /\ bSwitchOff' = FALSE /\ zeroed' = FALSE
    /\ UNCHANGED <<chan, conn_vars, flow_vars, sess_vars, cq, heart, poolQ,
                   faults, mq_vars, audit, poolSlider, session, outcome>>

-----------------------------------------------------------------------------
PoolMessage ==
    \/ ProcessChannelReq
    \/ Redispatch
    \/ HandleChannelLoginStateMsg
    \/ HandleTimeOutResetSlideWindowMsg

PoolInit ==
    /\ InitLink
    /\ broker = Sms
    /\ blocked = {} /\ mqFaults = 0 /\ audit = {}
    /\ poolLive = TRUE
    /\ poolSlider = FirstSlider
    /\ nodeLogin = [l \in Links |-> 0]
    /\ poolWnd = FirstSlider * Cardinality(Links)       \* InitChannelThreadInfo
    /\ zeroed = FALSE
    /\ shared = FirstSlider * Cardinality(Links)
    /\ bSwitchOff = FALSE
    /\ session = [m \in Sms |-> NoSession]
    /\ outcome = [m \in Sms |-> NoOutcome]

PoolNext ==
    \/ (\E l \in Links : LinkStep(l)) /\ UNCHANGED pool_vars
    \/ MqStep
    \/ PoolMessage
    \/ \E r \in statusQ : SmsTxChannelSendStatusReport(r)
    \/ \E msg \in audit : AuditPasses(msg) \/ AuditIntercepts(msg)
    \/ SysnSlideWndFromChannel
    \/ \E n \in Sliders : UpdateSlider(n)
    \/ DeleteChannel

PoolSpec == PoolInit /\ [][PoolNext]_tx_vars

\* The threads of DirectLink, of the pool (MainLoop serves both queues on every
\* turn) and of the consumer keep running.
PoolFairness ==
    /\ \A l \in Links :
          /\ WF_tx_vars(LinkMessage(l) /\ UNCHANGED pool_vars)
          /\ WF_tx_vars(HandleDispatch(l) /\ UNCHANGED pool_vars)
          /\ WF_tx_vars(HeartFires(l) /\ UNCHANGED pool_vars)
    /\ WF_tx_vars(PoolMessage)
    /\ WF_tx_vars(\E r \in statusQ : SmsTxChannelSendStatusReport(r))
    /\ WF_tx_vars(MqStep /\ MqDeliver)

PoolFairSpec == PoolSpec /\ PoolFairness

-----------------------------------------------------------------------------
(* Every variable has its type.                                            *)
PoolTypeOK ==
    /\ broker \subseteq Sms /\ blocked \subseteq broker
    /\ audit \subseteq SmsMsg
    /\ mqFaults \in Nat
    /\ poolQ \in Seq(LoginMsg \cup ResetMsg \cup SmsMsg)
    /\ poolLive \in BOOLEAN
    /\ poolSlider \in Sliders
    /\ nodeLogin \in [Links -> {0, 1, 2}]
    /\ poolWnd \in Int /\ shared \in Int
    /\ zeroed \in BOOLEAN /\ bSwitchOff \in BOOLEAN
    /\ session \in [Sms -> [open : BOOLEAN, recv : Nat, total : Nat]]
    /\ outcome \in [Sms -> [succ : Nat, fail : Nat, reback : Nat, audit : Nat]]

(* Where an SMS is.  It is with a link while it waits in the channel queue,*)
(* has a session there, or has a report the pool has not read.             *)
InPoolQueue(m) ==
    \E i \in 1 .. Len(poolQ) :
        poolQ[i].type \in {"REQ", "DISPATCH"} /\ poolQ[i].sms = m
InAudit(m) == \E msg \in audit : msg.sms = m
AtLink(m) ==
    \/ \E l \in Links : InQueue(l, m) \/ Of(packetDB[l], m) # {}
    \/ \E r \in statusQ : SmsOf(r.seg) = m
Answered(m) == \E k \in DOMAIN outcome[m] : outcome[m][k] > 0

(* No SMS is lost or handled twice: as long as the channel exists, an SMS  *)
(* is in exactly one place, the broker, the pool's queue, the audit, a     *)
(* link, or it has left the process with an answer.                        *)
SmsInOnePlace ==
    poolLive =>
        \A m \in Sms :
            Cardinality({i \in 1 .. 5 :
                <<m \in broker, InPoolQueue(m), InAudit(m), AtLink(m),
                  Answered(m) /\ ~AtLink(m)>>[i]}) = 1

(* An SMS is delivered once: one that was sent back to be routed again was *)
(* never submitted to the gateway, has no answer of another kind, and is   *)
(* sent back only once.                                                    *)
RebackedNotSent ==
    \A m \in Sms :
        outcome[m].reback > 0 =>
            /\ outcome[m] = [NoOutcome EXCEPT !.reback = 1]
            /\ ~AtLink(m)
            /\ \A l \in Links : Of(wire[l], m) = {}

(* The sessions of the pool match the work of the links: whatever a link   *)
(* still has to report finds its session, and a session without such a     *)
(* report is gone, except for an SMS sent back after MaxSendTimes and one  *)
(* whose segments destroy() has skipped, whose sessions the code keeps.    *)
SessionsMatch ==
    \A m \in Sms :
        /\ AtLink(m) => session[m].open
        /\ session[m].open /\ ~AtLink(m) =>
              \/ dropped[m] > 0
              \/ outcome[m].reback = 1 /\ session[m].recv = 0

(* The pool's record of a link's login lags behind by the notifications in *)
(* its queue and by nothing else, so that the number of working nodes that *)
(* bounds its window becomes right.                                        *)
LoginAt(l) ==
    {i \in 1 .. Len(poolQ) : poolQ[i].type = "LOGIN" /\ poolQ[i].node = l}
PoolSeesLogin ==
    poolLive =>
        \A l \in Links :
            /\ LoginAt(l) = {} => nodeLogin[l] = loginState[l]
            /\ \A i \in LoginAt(l) :
                  (\A j \in LoginAt(l) : j <= i) => poolQ[i].new = loginState[l]

(* However logins, resets, answers and recovery are interleaved, the pool  *)
(* never gives itself more window than all links together can have.        *)
PoolWindowBounded == poolWnd <= Cardinality(Links) * Max(Sliders)

(* The flow control never blocks for good: as long as some link stays      *)
(* logged in, every SMS of the broker is answered or sent back, whatever   *)
(* the gateway leaves unanswered, unless the channel is deleted.           *)
EverySmsAnswered ==
    (\E l \in Links : <>[](m_iState[l] = "DATATRAN")) =>
        \A m \in Sms : m \in broker ~> (Answered(m) /\ ~AtLink(m)) \/ ~poolLive

(* The comment at the timer of smsTxChannelSendStatusReport: a session     *)
(* that waits for further segments is timed out by it.                     *)
SegmentsTimeOut ==
    \A m \in Sms :
        session[m].open /\ session[m].recv > 0 ~> ~session[m].open \/ ~poolLive

(* The comment of CDirectSendThread::HandleChannelDel: the SMS that wait   *)
(* in the queue of a deleted channel are handed to reback.                 *)
QueuedSmsRebacked ==
    [][\A r \in statusQ \ statusQ' :
          r.status = "NO_CHANNEL" /\ session[SmsOf(r.seg)].open =>
              outcome'[SmsOf(r.seg)].fail = outcome[SmsOf(r.seg)].fail]_tx_vars
-----------------------------------------------------------------------------
\* A link reports an SMS it has not submitted as its segment 0.
Refused(m) == <<m, 0>> \in {r.seg : r \in statusQ}

PlaceOf(m) ==
    IF m \in broker THEN "WAITING"
    ELSE IF InPoolQueue(m) \/ InAudit(m) THEN "POOL"
    ELSE IF Refused(m) \/ \E l \in Links : InQueue(l, m) THEN "LINK"
    ELSE IF AtLink(m) THEN "GATEWAY"
    ELSE IF outcome[m].reback > 0 THEN "BACK"
    ELSE IF Answered(m) THEN "ANSWERED"
    ELSE "DROPPED"

SmsPlace == [m \in Sms |-> PlaceOf(m)]

Delivery == INSTANCE SmsDelivery WITH live <- poolLive, place <- SmsPlace

(* Consumer, pool and links together do what SmsDelivery says: an SMS only *)
(* moves forward, from the broker through pool and link to its answer, and *)
(* is sent back only as long as no gateway can have seen it                *)
(* (smsTxCheckReback, HandleDirectSendMsg, amqpConsumeMessage).            *)
ImplementsDelivery == Delivery!Spec
=============================================================================
