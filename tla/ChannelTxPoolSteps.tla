--------------------- MODULE ChannelTxPoolSteps ---------------------
(***************************************************************************)
(* What each step of consumer, pool and links does: it keeps the types,    *)
(* and to one SMS it does one of a few things (SmsStep), which keep        *)
(* SmsInv.                                                                 *)
(*                                                                         *)
(* The proofs of ChannelTxPool go in three modules. This one goes through  *)
(* the actions once and ends in PoolProgress: every step is an SmsStep.    *)
(* ChannelTxPoolProofs makes SmsInv part of an inductive invariant and     *)
(* derives the properties of the runs from it; ChannelTxPoolDeliveryProofs *)
(* maps the same steps to those of SmsDelivery. Nothing below looks at an  *)
(* action again.                                                           *)
(***************************************************************************)
EXTENDS ChannelTxPool, DirectLinkProofs

PoolMsg == LoginMsg \cup ResetMsg \cup SmsMsg

\* The types of PoolTypeOK without those of the two windows.
RecordTyped ==
    /\ session \in [Sms -> [open : BOOLEAN, recv : Nat, total : Nat]]
    /\ outcome \in [Sms -> [succ : Nat, fail : Nat, reback : Nat, audit : Nat]]
PoolTyped ==
    /\ broker \subseteq Sms /\ blocked \subseteq broker /\ audit \subseteq SmsMsg
    /\ mqFaults \in Nat
    /\ poolQ \in Seq(PoolMsg)
    /\ poolLive \in BOOLEAN
    /\ poolSlider \in Sliders
    /\ nodeLogin \in [Links -> {0, 1, 2}]
    /\ zeroed \in BOOLEAN /\ bSwitchOff \in BOOLEAN
    /\ RecordTyped

(* The messages of the queue by their type.                                *)
LEMMA PoolMsgType ==
    ASSUME NEW msg \in PoolMsg
    PROVE  /\ msg.type \in {"REQ", "DISPATCH"} => msg.sms \in Sms /\ msg.times \in Nat
           /\ msg.type \in {"REQ", "DISPATCH"} => msg \in SmsMsg
           /\ msg.type = "LOGIN" => msg \in LoginMsg
           /\ msg.type = "RESETWND" => msg \in ResetMsg
           /\ msg.type \in {"REQ", "DISPATCH", "LOGIN", "RESETWND"}
<1>1. CASE msg \in LoginMsg
  BY <1>1 DEF LoginMsg
<1>2. CASE msg \in ResetMsg
  BY <1>2 DEF ResetMsg
<1>3. CASE msg \in SmsMsg
  BY <1>3 DEF SmsMsg
<1>4. QED
  BY <1>1, <1>2, <1>3 DEF PoolMsg

LEMMA SmsMsgTyped ==
    ASSUME NEW m \in Sms, NEW n \in Nat
    PROVE  /\ ReqMsg(m) \in PoolMsg /\ DispatchMsg(m, n) \in PoolMsg
           /\ DispatchMsg(m, n) \in SmsMsg
BY DEF ReqMsg, DispatchMsg, SmsMsg, PoolMsg

LEMMA HeadTyped ==
    ASSUME poolQ \in Seq(PoolMsg), poolQ # <<>>
    PROVE  Head(poolQ) \in PoolMsg /\ Tail(poolQ) \in Seq(PoolMsg)
OBVIOUS

LEMMA OutcomeTyped ==
    ASSUME RecordTyped, NEW m \in Sms, NEW k \in {"succ", "fail", "reback", "audit"},
           Outcome(m, k)
    PROVE  outcome' \in [Sms -> [succ : Nat, fail : Nat, reback : Nat, audit : Nat]]
<1> DEFINE R == [succ : Nat, fail : Nat, reback : Nat, audit : Nat]
<1>1. outcome[m] \in R /\ outcome \in [Sms -> R]
  BY DEF RecordTyped
<1>2. [outcome[m] EXCEPT ![k] = @ + 1] \in R
  BY <1>1
<1>3. outcome' = [outcome EXCEPT ![m] = [outcome[m] EXCEPT ![k] = @ + 1]]
  BY <1>1 DEF Outcome
<1> HIDE DEF R
<1>4. outcome' \in [Sms -> R]
  BY <1>1, <1>2, <1>3
<1>5. QED
  BY <1>4 DEF R

LEMMA OpenedTyped ==
    ASSUME RecordTyped, NEW m \in Sms, NEW s \in [open : BOOLEAN, recv : Nat, total : Nat],
           session' = [session EXCEPT ![m] = s]
    PROVE  session' \in [Sms -> [open : BOOLEAN, recv : Nat, total : Nat]]
BY DEF RecordTyped

\* A step that leaves the links alone, whatever becomes of the pool's queue.
LinksAlone ==
    UNCHANGED <<chan, conn_vars, flow_vars, sess_vars, cq, dq, heart, faults>>

LEMMA AloneTyped == LinkTyped /\ LinksAlone => LinkTyped'
BY DEF LinkTyped, ConnTypeOK, FlowTypeOK, SessTypeOK, QueueTypeOK, LinksAlone,
       conn_vars, flow_vars, sess_vars

LEMMA BooleanOr ==
    ASSUME NEW a \in BOOLEAN, NEW b
    PROVE  (a \/ b) \in BOOLEAN
BY Zenon

(* A link can be given one more SMS.                                       *)
LEMMA PostTyped ==
    ASSUME LinkTyped, NEW l \in Links, NEW m \in Sms, PostChannelMsg(l, m)
    PROVE  cq' \in [Links -> Seq(Sms)]
BY DEF LinkTyped, QueueTypeOK, PostChannelMsg

LEMMA MqTyped ==
    ASSUME PoolTyped, LinkTyped, MqStep
    PROVE  PoolTyped' /\ LinkTyped'
<1>1. LinksAlone /\ UNCHANGED <<audit, poolLive, poolSlider, nodeLogin, zeroed,
                                session, outcome>>
  BY DEF MqStep, LinksAlone
<1>2. LinkTyped'
  BY <1>1, AloneTyped
<1>3. /\ broker' \subseteq Sms /\ blocked' \subseteq broker'
      /\ poolQ' \in Seq(PoolMsg) /\ bSwitchOff' \in BOOLEAN
  <2>1. ASSUME NEW m \in Sms, MqConsume(m)
        PROVE  <1>3
    <3>1. blocked = {}
      BY <2>1 DEF MqConsume, Available
    <3>2. ReqMsg(m) \in PoolMsg
      BY SmsMsgTyped
    <3>3. QED
      BY <2>1, <3>1, <3>2 DEF MqConsume, PoolTyped
  <2>2. ASSUME NEW m \in Sms, MqBlock(m) \/ MqAckFails(m)
        PROVE  <1>3
    BY <2>2 DEF MqBlock, MqAckFails, Available, PoolTyped
  <2>3. ASSUME NEW m \in Sms, MqRelease(m)
        PROVE  <1>3
    <3>1. ReqMsg(m) \in PoolMsg
      BY SmsMsgTyped
    <3>2. QED
      BY <2>3, <3>1 DEF MqRelease, PoolTyped
  <2>4. CASE MqReconnect
    BY <2>4 DEF MqReconnect, PoolTyped
  <2>5. QED
    BY <2>1, <2>2, <2>3, <2>4 DEF MqStep, MqDeliver
<1>4. mqFaults' \in Nat
  BY DEF MqStep, PoolTyped
<1>5. QED
  BY <1>1, <1>2, <1>3, <1>4 DEF PoolTyped, RecordTyped

(* HandleDirectSendMsg, whatever queue it is given.                        *)
LEMMA SendTyped ==
    ASSUME PoolTyped, LinkTyped, NEW m \in Sms, NEW times \in Nat,
           NEW q \in Seq(PoolMsg), HandleDirectSendMsg(m, times, q),
           audit' \subseteq SmsMsg
    PROVE  PoolTyped' /\ LinkTyped'
<1>1. UNCHANGED <<chan, conn_vars, flow_vars, sess_vars, dq, heart, faults,
                  mq_vars, poolLive, poolSlider, nodeLogin, bSwitchOff>>
  BY DEF HandleDirectSendMsg
<1>2. LinkTyped' /\ poolQ' \in Seq(PoolMsg) /\ zeroed' \in BOOLEAN /\ RecordTyped'
  <2>1. ASSUME cq' \in [Links -> Seq(Sms)]
        PROVE  LinkTyped'
    BY <1>1, <2>1 DEF LinkTyped, ConnTypeOK, FlowTypeOK, SessTypeOK, QueueTypeOK,
                      conn_vars, flow_vars, sess_vars
  <2>2. [NoSession EXCEPT !.open = TRUE] \in [open : BOOLEAN, recv : Nat, total : Nat]
    BY DEF NoSession
  <2>3. /\ UNCHANGED cq => cq' \in [Links -> Seq(Sms)]
        /\ UNCHANGED session => session' \in [Sms -> [open : BOOLEAN, recv : Nat, total : Nat]]
        /\ UNCHANGED outcome =>
              outcome' \in [Sms -> [succ : Nat, fail : Nat, reback : Nat, audit : Nat]]
        /\ UNCHANGED zeroed => zeroed' \in BOOLEAN
    BY DEF LinkTyped, QueueTypeOK, PoolTyped, RecordTyped
  <2>4. ASSUME NEW l \in Links, SendToLink(l, m), poolQ' = q
        PROVE  <1>2
    <3>1. cq' \in [Links -> Seq(Sms)]
      BY <2>4, PostTyped DEF SendToLink
    <3>2. session' \in [Sms -> [open : BOOLEAN, recv : Nat, total : Nat]]
      <4>1. session' = [session EXCEPT ![m] = [NoSession EXCEPT !.open = TRUE]]
        BY <2>4 DEF SendToLink
      <4>2. QED
        BY <2>2, <4>1 DEF PoolTyped, RecordTyped
    <3>3. zeroed' \in BOOLEAN
      <4>1. zeroed' <=> (zeroed \/ poolWnd' <= 0)
        BY <2>4 DEF SendToLink
      <4>2. zeroed' = (zeroed \/ poolWnd' <= 0)
        BY <2>4 DEF SendToLink
      <4>3. QED
        BY <4>2, Zenon
    <3>4. UNCHANGED outcome
      BY <2>4 DEF SendToLink
    <3>5. QED
      BY <2>1, <2>3, <2>4, <3>1, <3>2, <3>3, <3>4 DEF RecordTyped
  <2>5. ASSUME SendToNone(m, times, q)
        PROVE  <1>2
    <3>1. UNCHANGED <<cq, zeroed>>
      BY <2>5 DEF SendToNone
    <3>2. CASE times + 1 >= MaxSendTimes
      <4>1. /\ session' = [session EXCEPT ![m] = [NoSession EXCEPT !.open = TRUE]]
            /\ Outcome(m, "reback") /\ poolQ' = q
        BY <2>5, <3>2 DEF SendToNone
      <4>2. session' \in [Sms -> [open : BOOLEAN, recv : Nat, total : Nat]]
        BY <2>2, <4>1 DEF PoolTyped, RecordTyped
      <4>3. outcome' \in [Sms -> [succ : Nat, fail : Nat, reback : Nat, audit : Nat]]
        BY <4>1, OutcomeTyped DEF PoolTyped
      <4>4. QED
        BY <2>1, <2>3, <3>1, <4>1, <4>2, <4>3 DEF RecordTyped
    <3>3. CASE ~(times + 1 >= MaxSendTimes)
      <4>1. /\ poolQ' = Append(q, DispatchMsg(m, times + 1))
            /\ UNCHANGED <<session, outcome>>
        BY <2>5, <3>3 DEF SendToNone
      <4>2. DispatchMsg(m, times + 1) \in PoolMsg
        BY SmsMsgTyped
      <4>3. poolQ' \in Seq(PoolMsg)
        BY <4>1, <4>2
      <4>4. QED
        BY <2>1, <2>3, <3>1, <4>1, <4>3 DEF RecordTyped
    <3>4. QED
      BY <3>2, <3>3
  <2>6. CASE ~poolLive
    <3>1. poolQ' = q /\ UNCHANGED <<cq, zeroed, session, outcome>>
      BY <2>6 DEF HandleDirectSendMsg
    <3>2. QED
      BY <2>1, <2>3, <3>1 DEF RecordTyped
  <2>7. QED
    BY <2>4, <2>5, <2>6 DEF HandleDirectSendMsg
<1>3. QED
  BY <1>1, <1>2 DEF PoolTyped, mq_vars

(* A REQ or DISPATCH at the head of the queue.                             *)
LEMMA TakenTyped ==
    ASSUME poolQ \in Seq(PoolMsg), NEW t \in {"REQ", "DISPATCH"}, PoolTakes(t)
    PROVE  /\ Head(poolQ).sms \in Sms /\ Head(poolQ).times \in Nat
           /\ Tail(poolQ) \in Seq(PoolMsg)
BY HeadTyped, PoolMsgType DEF PoolTakes

Sending ==
    \/ ProcessChannelReq \/ Redispatch
    \/ \E msg \in audit : AuditPasses(msg) \/ AuditIntercepts(msg)

(* Seen from everything but the SMS, it is a HandleDirectSendMsg or leaves *)
(* links, consumer and windows alone.                                      *)
LEMMA SendingKinds ==
    ASSUME Sending
    PROVE  \/ \E m, n, q : HandleDirectSendMsg(m, n, q)
           \/ /\ LinksAlone
              /\ UNCHANGED <<mq_vars, poolLive, poolSlider, nodeLogin, window_vars>>
<1>1. CASE ProcessChannelReq \/ Redispatch
  BY <1>1 DEF ProcessChannelReq, Redispatch, SmsTxDirectChannelReq,
              GetSendAuditInterceptRedis, LinksAlone
<1>2. ASSUME NEW msg \in audit, AuditPasses(msg) \/ AuditIntercepts(msg)
      PROVE  \/ \E m, n, q : HandleDirectSendMsg(m, n, q)
             \/ /\ LinksAlone
                /\ UNCHANGED <<mq_vars, poolLive, poolSlider, nodeLogin, window_vars>>
  BY <1>2 DEF AuditPasses, AuditIntercepts, link_vars, LinksAlone
<1>3. QED
  BY <1>1, <1>2 DEF Sending

\* What becomes of an SMS the pool takes from its queue.
Directed(m) ==
    \/ \E n \in Nat : HandleDirectSendMsg(m, n, Tail(poolQ)) /\ UNCHANGED audit
    \/ \E msg \in SmsMsg : msg.sms = m /\ GetSendAuditInterceptRedis(msg)

LEMMA TakenDirected ==
    ASSUME poolQ \in Seq(PoolMsg), ProcessChannelReq \/ Redispatch
    PROVE  \E t \in {"REQ", "DISPATCH"} : PoolTakes(t) /\ Directed(Head(poolQ).sms)
<1>1. CASE ProcessChannelReq
  <2> DEFINE m == Head(poolQ).sms
             msg == DispatchMsg(m, 0)
  <2>1. PoolTakes("REQ")
    BY <1>1 DEF ProcessChannelReq
  <2>2. m \in Sms
    BY <2>1, TakenTyped
  <2>3. msg \in SmsMsg /\ msg.sms = m /\ msg.times = 0
    BY <2>2, SmsMsgTyped DEF DispatchMsg
  <2>4. ASSUME HandleDirectSendMsg(m, 0, Tail(poolQ)), UNCHANGED audit
        PROVE  Directed(m)
    <3>1. \E n \in Nat : HandleDirectSendMsg(m, n, Tail(poolQ)) /\ UNCHANGED audit
      <4> WITNESS 0 \in Nat
      <4>1. QED
        BY <2>4
    <3>2. QED
      BY <3>1 DEF Directed
  <2>5. CASE poolLive
    <3>1. SmsTxDirectChannelReq(msg)
      BY <1>1, <2>5 DEF ProcessChannelReq
    <3>2. CASE AuditSwitch
      BY <2>1, <2>3, <3>1, <3>2 DEF SmsTxDirectChannelReq, Directed
    <3>3. CASE ~AuditSwitch
      <4>1. HandleDirectSendMsg(m, 0, Tail(poolQ)) /\ UNCHANGED audit
        BY <2>3, <3>1, <3>3 DEF SmsTxDirectChannelReq
      <4>2. QED
        BY <2>1, <2>4, <4>1
    <3>4. QED
      BY <3>2, <3>3
  <2>6. CASE ~poolLive
    <3>1. HandleDirectSendMsg(m, 0, Tail(poolQ)) /\ UNCHANGED audit
      BY <1>1, <2>6 DEF ProcessChannelReq, HandleDirectSendMsg, window_vars
    <3>2. QED
      BY <2>1, <2>4, <3>1
  <2>7. QED
    BY <2>1, <2>5, <2>6
<1>2. CASE Redispatch
  <2>1. PoolTakes("DISPATCH") /\ SmsTxDirectChannelReq(Head(poolQ))
    BY <1>2 DEF Redispatch
  <2>2. Head(poolQ) \in SmsMsg /\ Head(poolQ).times \in Nat
    BY <2>1, HeadTyped, PoolMsgType DEF PoolTakes
  <2>3. QED
    BY <2>1, <2>2 DEF SmsTxDirectChannelReq, Directed
<1>3. QED
  BY <1>1, <1>2

LEMMA SendingTyped ==
    ASSUME PoolTyped, LinkTyped, Sending
    PROVE  PoolTyped' /\ LinkTyped'
<1>0. poolQ \in Seq(PoolMsg) /\ audit \subseteq SmsMsg
  BY DEF PoolTyped
<1>1. CASE ProcessChannelReq \/ Redispatch
  <2>1. PICK t \in {"REQ", "DISPATCH"} : PoolTakes(t) /\ Directed(Head(poolQ).sms)
    BY <1>0, <1>1, TakenDirected
  <2>2. PICK m \in Sms : m = Head(poolQ).sms
    BY <1>0, <2>1, TakenTyped
  <2>3. Tail(poolQ) \in Seq(PoolMsg) /\ Directed(m)
    BY <1>0, <2>1, <2>2, TakenTyped
  <2>4. ASSUME NEW n \in Nat, HandleDirectSendMsg(m, n, Tail(poolQ)), UNCHANGED audit
        PROVE  PoolTyped' /\ LinkTyped'
    <3>1. audit' \subseteq SmsMsg
      BY <1>0, <2>4
    <3>2. QED
      BY <2>3, <2>4, <3>1, SendTyped
  <2>5. ASSUME NEW msg \in SmsMsg, GetSendAuditInterceptRedis(msg)
        PROVE  PoolTyped' /\ LinkTyped'
    <3>1. /\ audit' = audit \cup {msg} /\ poolQ' = Tail(poolQ) /\ LinksAlone
          /\ UNCHANGED <<mq_vars, poolLive, poolSlider, nodeLogin, window_vars,
                         session, outcome>>
      BY <2>5 DEF GetSendAuditInterceptRedis, LinksAlone
    <3>2. LinkTyped'
      BY <3>1, AloneTyped
    <3>3. QED
      BY <2>3, <3>1, <3>2 DEF PoolTyped, RecordTyped, mq_vars, window_vars
  <2>6. QED
    BY <2>3, <2>4, <2>5 DEF Directed
<1>2. ASSUME NEW msg \in audit, AuditPasses(msg)
      PROVE  PoolTyped' /\ LinkTyped'
  <2>1. /\ msg.sms \in Sms /\ msg.times \in Nat /\ audit' \subseteq SmsMsg
        /\ HandleDirectSendMsg(msg.sms, msg.times, poolQ)
    BY <1>0, <1>2 DEF AuditPasses, SmsMsg
  <2>2. QED
    BY <1>0, <2>1, SendTyped
<1>3. ASSUME NEW msg \in audit, AuditIntercepts(msg)
      PROVE  PoolTyped' /\ LinkTyped'
  <2>1. /\ LinksAlone /\ UNCHANGED poolQ /\ audit' \subseteq SmsMsg
        /\ msg.sms \in Sms /\ Outcome(msg.sms, "audit")
        /\ UNCHANGED <<mq_vars, poolLive, poolSlider, nodeLogin, window_vars, session>>
    BY <1>0, <1>3 DEF AuditIntercepts, link_vars, LinksAlone, SmsMsg
  <2>2. LinkTyped'
    BY <2>1, AloneTyped
  <2>3. outcome' \in [Sms -> [succ : Nat, fail : Nat, reback : Nat, audit : Nat]]
    BY <2>1, OutcomeTyped DEF PoolTyped
  <2>4. QED
    BY <2>1, <2>2, <2>3 DEF PoolTyped, RecordTyped, mq_vars, window_vars
<1>4. QED
  BY <1>1, <1>2, <1>3 DEF Sending

LEMMA ModifyTyped ==
    ASSUME PoolTyped, NEW iWnd, NEW max, PoolChannelFlowCtrModify(iWnd, max)
    PROVE  zeroed' \in BOOLEAN /\ bSwitchOff' \in BOOLEAN
<1>1. zeroed' = (zeroed \/ poolWnd + iWnd < 0) /\ UNCHANGED bSwitchOff
  BY DEF PoolChannelFlowCtrModify
<1>2. bSwitchOff' \in BOOLEAN
  BY <1>1 DEF PoolTyped
<1>3. QED
  BY <1>1, <1>2, Zenon

LEMMA NoticeTyped ==
    ASSUME PoolTyped, LinkTyped,
           HandleChannelLoginStateMsg \/ HandleTimeOutResetSlideWindowMsg
    PROVE  PoolTyped' /\ LinkTyped'
<1>0. poolQ \in Seq(PoolMsg) /\ zeroed \in BOOLEAN /\ bSwitchOff \in BOOLEAN
  BY DEF PoolTyped
<1>1. /\ poolQ' = Tail(poolQ) /\ poolQ # <<>> /\ LinksAlone
      /\ UNCHANGED <<mq_vars, audit, poolLive, poolSlider, session, outcome>>
  BY DEF HandleChannelLoginStateMsg, HandleTimeOutResetSlideWindowMsg, PoolTakes,
         LinksAlone
<1>2. LinkTyped' /\ poolQ' \in Seq(PoolMsg)
  BY <1>0, <1>1, AloneTyped, HeadTyped
<1>3. zeroed' \in BOOLEAN /\ bSwitchOff' \in BOOLEAN
  <2>1. CASE UNCHANGED window_vars
    BY <1>0, <2>1 DEF window_vars
  <2>2. CASE \E iWnd, max : PoolChannelFlowCtrModify(iWnd, max)
    BY <2>2, ModifyTyped
  <2>3. QED
    BY <2>1, <2>2 DEF HandleChannelLoginStateMsg, HandleTimeOutResetSlideWindowMsg
<1>4. nodeLogin' \in [Links -> {0, 1, 2}]
  <2>1. UNCHANGED nodeLogin => nodeLogin' \in [Links -> {0, 1, 2}]
    BY DEF PoolTyped
  <2>2. CASE HandleChannelLoginStateMsg
    <3> DEFINE msg == Head(poolQ)
    <3>1. msg \in LoginMsg
      BY <1>0, <2>2, HeadTyped, PoolMsgType DEF HandleChannelLoginStateMsg, PoolTakes
    <3>2. msg.node \in Links /\ msg.new \in {0, 1, 2}
      BY <3>1 DEF LoginMsg
    <3>3. UNCHANGED nodeLogin \/ nodeLogin' = [nodeLogin EXCEPT ![msg.node] = msg.new]
      BY <2>2 DEF HandleChannelLoginStateMsg
    <3> HIDE DEF msg
    <3>4. QED
      BY <2>1, <3>2, <3>3 DEF PoolTyped
  <2>3. CASE HandleTimeOutResetSlideWindowMsg
    BY <2>1, <2>3 DEF HandleTimeOutResetSlideWindowMsg
  <2>4. QED
    BY <2>2, <2>3
<1>5. QED
  BY <1>1, <1>2, <1>3, <1>4 DEF PoolTyped, RecordTyped, mq_vars

(* What a report the pool reads does to its records.                       *)
StatusRecords(r) ==
    LET m == SmsOf(r.seg)
        n == session[m].recv + 1
    IN  IF session[m].open
        THEN /\ session' = [session EXCEPT ![m] =
                    IF n = r.total THEN NoSession
                    ELSE [open |-> TRUE, recv |-> n, total |-> r.total]]
             /\ \E k \in {"reback", "fail", "succ"} :
                   /\ Outcome(m, k)
                   /\ k = "reback" <=> r.status = "SOCKET_ERR"
        ELSE UNCHANGED <<session, outcome>>

LEMMA StatusEffect ==
    ASSUME NEW r \in statusQ, r.status \in Status, SmsTxChannelSendStatusReport(r)
    PROVE  StatusRecords(r)
<1> DEFINE m  == SmsOf(r.seg)
           st == TxStatus(r.status)
           k  == CASE st = "REBACK" -> "reback" [] st = "FAIL" -> "fail" [] OTHER -> "succ"
<1>1. st = "REBACK" <=> r.status = "SOCKET_ERR"
  BY DEF TxStatus, Status
<1> HIDE DEF st
<1>2. k \in {"reback", "fail", "succ"} /\ (k = "reback" <=> st = "REBACK")
  OBVIOUS
<1>3. /\ session[m].open =>
            /\ session' = [session EXCEPT ![m] =
                  IF session[m].recv + 1 = r.total THEN NoSession
                  ELSE [open |-> TRUE, recv |-> session[m].recv + 1,
                        total |-> r.total]]
            /\ Outcome(m, k)
      /\ ~session[m].open => UNCHANGED <<session, outcome>>
  BY DEF SmsTxChannelSendStatusReport, st
<1> HIDE DEF k, m
<1>4. QED
  BY <1>1, <1>2, <1>3 DEF StatusRecords, m

LEMMA ReportTyped ==
    ASSUME LinkTyped, NEW r \in statusQ
    PROVE  r \in Report /\ r.seg \in Seg /\ SmsOf(r.seg) \in Sms /\ r.status \in Status
           /\ r.total \in Nat
BY SegSms DEF LinkTyped, SessTypeOK, Report

LEMMA FlowCtrTyped ==
    ASSUME PoolTyped, NEW first \in BOOLEAN, NEW st, SmsTxFlowCtrSendRsp(first, st)
    PROVE  zeroed' \in BOOLEAN /\ bSwitchOff' \in BOOLEAN
<1>1. zeroed' = (zeroed \/ poolWnd' <= 0) /\ UNCHANGED bSwitchOff
  BY DEF SmsTxFlowCtrSendRsp
<1>2. bSwitchOff' \in BOOLEAN
  BY <1>1 DEF PoolTyped
<1>3. QED
  BY <1>1, <1>2, Zenon

LEMMA StatusTyped ==
    ASSUME PoolTyped, LinkTyped, NEW r \in statusQ, SmsTxChannelSendStatusReport(r)
    PROVE  PoolTyped' /\ LinkTyped'
<1>0. SmsOf(r.seg) \in Sms /\ r.status \in Status /\ r.total \in Nat
  BY ReportTyped
<1>1. LinkTyped'
  <2>1. EnvTakeStatus(r)
    BY DEF SmsTxChannelSendStatusReport, EnvTakeStatus
  <2>2. [LinkNext]_link_vars
    BY <2>1 DEF LinkNext
  <2>3. QED
    BY <2>2, LinkTypedStep
<1>2. RecordTyped'
  <2> DEFINE m == SmsOf(r.seg)
             R == [open : BOOLEAN, recv : Nat, total : Nat]
             s == IF session[m].recv + 1 = r.total THEN NoSession
                  ELSE [open |-> TRUE, recv |-> session[m].recv + 1,
                        total |-> r.total]
  <2>1. CASE session[m].open
    <3>1. session' = [session EXCEPT ![m] = s]
          /\ \E k \in {"reback", "fail", "succ"} : Outcome(m, k)
      BY <1>0, <2>1, StatusEffect DEF StatusRecords
    <3>2. s \in R
      BY <1>0 DEF NoSession, PoolTyped, RecordTyped
    <3> HIDE DEF s, m
    <3>3. session' \in [Sms -> R]
      BY <3>1, <3>2, <1>0, OpenedTyped DEF PoolTyped, m
    <3>4. outcome' \in [Sms -> [succ : Nat, fail : Nat, reback : Nat, audit : Nat]]
      BY <3>1, <1>0, OutcomeTyped DEF PoolTyped, m
    <3>5. QED
      BY <3>3, <3>4 DEF RecordTyped
  <2>2. CASE ~session[m].open
    <3>1. UNCHANGED <<session, outcome>>
      BY <1>0, <2>2, StatusEffect DEF StatusRecords
    <3>2. QED
      BY <3>1 DEF PoolTyped, RecordTyped
  <2>3. QED
    BY <2>1, <2>2
<1>3. zeroed' \in BOOLEAN /\ bSwitchOff' \in BOOLEAN
  <2>1. \/ UNCHANGED window_vars
        \/ \E first \in BOOLEAN, st \in {TxStatus(r.status)} : SmsTxFlowCtrSendRsp(first, st)
    <3> DEFINE first == session[SmsOf(r.seg)].recv + 1 = 1
    <3>1. first \in BOOLEAN
      OBVIOUS
    <3>2. UNCHANGED window_vars \/ SmsTxFlowCtrSendRsp(first, TxStatus(r.status))
      BY DEF SmsTxChannelSendStatusReport
    <3>3. QED
      BY <3>1, <3>2
  <2>2. CASE UNCHANGED window_vars
    BY <2>2 DEF PoolTyped, window_vars
  <2>3. QED
    BY <2>1, <2>2, FlowCtrTyped
<1>4. UNCHANGED <<poolQ, mq_vars, audit, poolLive, poolSlider, nodeLogin>>
  BY DEF SmsTxChannelSendStatusReport
<1>5. QED
  BY <1>1, <1>2, <1>3, <1>4 DEF PoolTyped, mq_vars

LEMMA PostAllTyped ==
    ASSUME LinkTyped, NEW msg \in ThreadMsg, PostToAll(msg)
    PROVE  dq' \in [Links -> Seq(ThreadMsg)]
BY DEF LinkTyped, QueueTypeOK, PostToAll

(* Configuration and SysnSlideWndFromChannel.                              *)
LEMMA ConfigTyped ==
    ASSUME PoolTyped, LinkTyped,
           \/ SysnSlideWndFromChannel \/ DeleteChannel
           \/ \E n \in Sliders : UpdateSlider(n)
    PROVE  PoolTyped' /\ LinkTyped'
<1>1. CASE SysnSlideWndFromChannel
  <2>1. /\ LinksAlone /\ bSwitchOff' \in BOOLEAN
        /\ UNCHANGED <<poolQ, mq_vars, audit, poolLive, poolSlider, nodeLogin, zeroed,
                       session, outcome>>
    BY <1>1 DEF SysnSlideWndFromChannel, LinksAlone, link_vars, SetSize
  <2>2. LinkTyped'
    BY <2>1, AloneTyped
  <2>3. QED
    BY <2>1, <2>2 DEF PoolTyped, RecordTyped, mq_vars
<1>2. ASSUME DeleteChannel \/ \E n \in Sliders : UpdateSlider(n)
      PROVE  LinkTyped'
  <2>1. /\ UNCHANGED <<chan, conn_vars, flow_vars, sess_vars, cq, heart, faults>>
        /\ \E msg \in ThreadMsg : PostToAll(msg)
    BY <1>2 DEF DeleteChannel, UpdateSlider, ThreadMsg
  <2>2. dq' \in [Links -> Seq(ThreadMsg)]
    BY <2>1, PostAllTyped
  <2>3. QED
    BY <2>1, <2>2 DEF LinkTyped, ConnTypeOK, FlowTypeOK, SessTypeOK, QueueTypeOK,
                      conn_vars, flow_vars, sess_vars
<1>3. CASE DeleteChannel
  <2>1. PoolTyped'
    BY <1>3 DEF DeleteChannel, PoolTyped, RecordTyped, mq_vars
  <2>2. QED
    BY <1>2, <1>3, <2>1
<1>4. ASSUME NEW n \in Sliders, UpdateSlider(n)
      PROVE  PoolTyped' /\ LinkTyped'
  <2>1. PoolTyped'
    BY <1>4 DEF UpdateSlider, SetSize, PoolTyped, RecordTyped, mq_vars
  <2>2. QED
    BY <1>2, <1>4, <2>1
<1>5. QED
  BY <1>1, <1>3, <1>4

LEMMA LinkSideTyped ==
    ASSUME PoolTyped, LinkTyped, NEW l \in Links, LinkStep(l), UNCHANGED pool_vars
    PROVE  PoolTyped' /\ LinkTyped'
<1>1. LinkTyped'
  <2>1. [LinkNext]_link_vars
    BY DEF LinkNext
  <2>2. QED
    BY <2>1, LinkTypedStep
<1>2. \/ poolQ' = poolQ
      \/ \E msg \in LoginMsg \cup ResetMsg : poolQ' = Append(poolQ, msg)
  BY LinkStepNotifies DEF Notified
<1>3. poolQ' \in Seq(PoolMsg)
  BY <1>2 DEF PoolTyped, PoolMsg
<1>4. QED
  BY <1>1, <1>3 DEF PoolTyped, RecordTyped, pool_vars

LEMMA PoolTypedInit == PoolInit => PoolTyped /\ LinkTyped
<1> SUFFICES ASSUME PoolInit
             PROVE  PoolTyped /\ LinkTyped
  OBVIOUS
<1>1. LinkTyped /\ poolQ = <<>>
  BY LinkTypeInit DEF LinkTyped, LinkTypeOK, PoolInit, InitLink
<1>2. RecordTyped
  BY DEF PoolInit, RecordTyped, NoSession, NoOutcome
<1>3. /\ nodeLogin = [l \in Links |-> 0] /\ broker = Sms /\ blocked = {} /\ audit = {}
      /\ poolSlider = FirstSlider /\ mqFaults = 0
      /\ poolLive = TRUE /\ zeroed = FALSE /\ bSwitchOff = FALSE
  BY DEF PoolInit
<1>4. poolQ \in Seq(PoolMsg) /\ nodeLogin \in [Links -> {0, 1, 2}]
  BY <1>1, <1>3
<1>5. QED
  BY <1>1, <1>2, <1>3, <1>4, LinkAssumption DEF PoolTyped

LEMMA PoolTypedStep == PoolTyped /\ LinkTyped /\ [PoolNext]_tx_vars => PoolTyped' /\ LinkTyped'
<1> SUFFICES ASSUME PoolTyped, LinkTyped, [PoolNext]_tx_vars
             PROVE  PoolTyped' /\ LinkTyped'
  OBVIOUS
<1>1. CASE UNCHANGED tx_vars
  <2>1. LinksAlone
    BY <1>1 DEF tx_vars, link_vars, LinksAlone
  <2>2. LinkTyped'
    BY <2>1, AloneTyped
  <2>3. QED
    BY <1>1, <2>2 DEF tx_vars, link_vars, pool_vars, PoolTyped, RecordTyped
<1>2. CASE PoolNext
  BY <1>2, LinkSideTyped, MqTyped, SendingTyped, NoticeTyped, StatusTyped, ConfigTyped
     DEF PoolNext, PoolMessage, Sending
<1>3. QED
  BY <1>1, <1>2

-----------------------------------------------------------------------------
(* The pool's queue.  Holds(q, m): m waits in q to be sent.                *)
IsSms(msg) == msg.type \in {"REQ", "DISPATCH"}
Holds(q, m) == \E i \in 1 .. Len(q) : IsSms(q[i]) /\ q[i].sms = m
OnceIn(q) ==
    \A i, j \in 1 .. Len(q) :
        IsSms(q[i]) /\ IsSms(q[j]) /\ q[i].sms = q[j].sms => i = j

LEMMA QueueHolds == \A m : InPoolQueue(m) <=> Holds(poolQ, m)
BY DEF InPoolQueue, Holds, IsSms

LEMMA TailHolds ==
    ASSUME NEW q \in Seq(PoolMsg), q # <<>>, OnceIn(q)
    PROVE  /\ OnceIn(Tail(q))
           /\ \A m : Holds(Tail(q), m) <=> /\ Holds(q, m)
                                           /\ ~(IsSms(Head(q)) /\ Head(q).sms = m)
<1>1. /\ Len(Tail(q)) = Len(q) - 1 /\ Len(q) \in Nat /\ Len(q) >= 1
      /\ \A i \in 1 .. Len(q) - 1 : Tail(q)[i] = q[i + 1]
      /\ Head(q) = q[1]
  OBVIOUS
<1>2. OnceIn(Tail(q))
  BY <1>1 DEF OnceIn
<1>3. ASSUME NEW m, Holds(Tail(q), m)
      PROVE  Holds(q, m) /\ ~(IsSms(Head(q)) /\ Head(q).sms = m)
  <2>1. PICK i \in 1 .. Len(q) - 1 : IsSms(q[i + 1]) /\ q[i + 1].sms = m
    BY <1>1, <1>3 DEF Holds
  <2>2. i + 1 \in 1 .. Len(q) /\ i + 1 # 1 /\ 1 \in 1 .. Len(q)
    BY <1>1
  <2>3. Holds(q, m)
    BY <2>1, <2>2 DEF Holds
  <2>4. ~(IsSms(q[1]) /\ q[1].sms = m)
    BY <2>1, <2>2 DEF OnceIn
  <2>5. QED
    BY <1>1, <2>3, <2>4
<1>4. ASSUME NEW m, Holds(q, m), ~(IsSms(Head(q)) /\ Head(q).sms = m)
      PROVE  Holds(Tail(q), m)
  <2>1. PICK i \in 1 .. Len(q) : IsSms(q[i]) /\ q[i].sms = m
    BY <1>4 DEF Holds
  <2>2. i # 1
    BY <1>1, <1>4, <2>1
  <2>3. i - 1 \in 1 .. Len(q) - 1 /\ (i - 1) + 1 = i
    BY <1>1, <2>2
  <2>4. Tail(q)[i - 1] = q[i]
    BY <1>1, <2>3
  <2>5. QED
    BY <1>1, <2>1, <2>3, <2>4 DEF Holds
<1>5. QED
  BY <1>2, <1>3, <1>4

LEMMA AppendHolds ==
    ASSUME NEW q \in Seq(PoolMsg), NEW msg \in PoolMsg
    PROVE  /\ \A m : Holds(Append(q, msg), m) <=>
                        Holds(q, m) \/ (IsSms(msg) /\ msg.sms = m)
           /\ OnceIn(q) /\ (IsSms(msg) => ~Holds(q, msg.sms)) => OnceIn(Append(q, msg))
<1> DEFINE p == Append(q, msg)
<1>1. /\ Len(p) = Len(q) + 1 /\ Len(q) \in Nat /\ p[Len(q) + 1] = msg
      /\ \A i \in 1 .. Len(q) : p[i] = q[i]
  OBVIOUS
<1> HIDE DEF p
<1>2. \A i \in 1 .. Len(p) : i \in 1 .. Len(q) \/ i = Len(q) + 1
  BY <1>1
<1>3. \A i \in 1 .. Len(q) : i \in 1 .. Len(p)
  BY <1>1
<1>4. Len(q) + 1 \in 1 .. Len(p)
  BY <1>1
<1>5. \A m : Holds(p, m) <=> Holds(q, m) \/ (IsSms(msg) /\ msg.sms = m)
  BY <1>1, <1>2, <1>3, <1>4 DEF Holds
<1>6. ASSUME OnceIn(q), IsSms(msg) => ~Holds(q, msg.sms)
      PROVE  OnceIn(p)
  <2> SUFFICES ASSUME NEW i \in 1 .. Len(p), NEW j \in 1 .. Len(p),
                      IsSms(p[i]), IsSms(p[j]), p[i].sms = p[j].sms
               PROVE  i = j
    BY DEF OnceIn
  <2>1. CASE i \in 1 .. Len(q) /\ j \in 1 .. Len(q)
    BY <1>1, <1>6, <2>1 DEF OnceIn
  <2>2. CASE i \in 1 .. Len(q) /\ j = Len(q) + 1
    BY <1>1, <1>6, <2>2 DEF Holds
  <2>3. CASE i = Len(q) + 1 /\ j \in 1 .. Len(q)
    BY <1>1, <1>6, <2>3 DEF Holds
  <2>4. QED
    BY <1>2, <2>1, <2>2, <2>3
<1>7. QED
  BY <1>5, <1>6 DEF p

-----------------------------------------------------------------------------
(* What a step of a link does to sessions, reports and channel queue.      *)
Refusal == {"SOCKET_ERR", "NO_CHANNEL"}
ReportOn(s, st) == [seg |-> s, total |-> Total[SmsOf(s)], status |-> st]
RefusalOf(m, st) == [seg |-> <<m, 0>>, total |-> 1, status |-> st]

\* Sessions S end, those in R with a report; some are skipped only by
\* destroy(), which reports at least one.
Ended(l, S, R, st) ==
    /\ SessionsEnd(l, S)
    /\ statusQ' = statusQ \cup {ReportOn(s, st) : s \in R}
    /\ \A m \in Sms : reported'[m] = reported[m] + Cardinality(Of(R, m))
    /\ \/ R = S /\ UNCHANGED dropped
       \/ chan[l] = "closing"
    /\ st = "INTERNAL_ERROR" => chan[l] = "closing"

LinkEffect(l) ==
    \/ SessionsKept /\ UNCHANGED statusQ
    \/ \E S \in SUBSET packetDB[l] : \E R \in SUBSET S :
          \E st \in Status \ Refusal : Ended(l, S, R, st)
    \/ \E d \in 1 .. Len(cq[l]), st \in Refusal :
          /\ SmsRefused(l, d)
          /\ statusQ' = statusQ \cup {RefusalOf(cq[l][i], st) : i \in 1 .. d}
          /\ st = "NO_CHANNEL" => dq[l] # <<>> /\ Head(dq[l]).kind = "DEL"
    \/ cq[l] # <<>> /\ SmsSubmitted(l) /\ UNCHANGED statusQ

LEMMA EndedAll ==
    ASSUME LinkTyped, NEW l \in Links, NEW S \in SUBSET packetDB[l],
           NEW st \in {"SUCCESS", "FAIL", "TIMEOUT"}, channelStatusReport(S, st, Total),
           packetDB' = [packetDB EXCEPT ![l] = @ \ S],
           UNCHANGED <<written, dropped, cq>>, WireShrinks
    PROVE  LinkEffect(l)
<1>1. SessionsEnd(l, S)
  BY SessionReported
<1>2. /\ statusQ' = statusQ \cup {ReportOn(s, st) : s \in S}
      /\ \A m \in Sms : reported'[m] = reported[m] + Cardinality(Of(S, m))
  BY DEF channelStatusReport, ReportOn
<1>3. Ended(l, S, S, st)
  BY <1>1, <1>2 DEF Ended
<1>4. st \in Status \ Refusal /\ S \in SUBSET S
  BY DEF Status, Refusal
<1>5. QED
  BY <1>3, <1>4 DEF LinkEffect

LEMMA ExpireEffect ==
    ASSUME LinkTyped, NEW l \in Links, Expire(l), UNCHANGED cq, WireShrinks
    PROVE  LinkEffect(l)
<1> DEFINE late == {s \in packetDB[l] : age[s] + 1 > SessionTicks}
<1>1. /\ packetDB' = [packetDB EXCEPT ![l] = @ \ late]
      /\ channelStatusReport(late, "TIMEOUT", Total)
      /\ UNCHANGED <<written, dropped>>
  BY DEF Expire
<1>2. late \in SUBSET packetDB[l]
  OBVIOUS
<1> HIDE DEF late
<1>3. QED
  BY <1>1, <1>2, EndedAll

LEMMA GatewayEffect ==
    ASSUME LinkTyped, NEW l \in Links, LinkGateway(l)
    PROVE  LinkEffect(l)
<1>0. ConnTypeOK /\ SessTypeOK
  BY DEF LinkTyped
<1>1. CASE OnConnRespOk(l) \/ OnConnRespFail(l) \/ OnHeartbeat(l) \/ OnBadPacket(l)
  BY <1>1 DEF OnConnRespOk, OnConnRespFail, OnHeartbeat, OnBadPacket,
              sess_vars, SessionsKept, WireShrinks, LinkEffect
<1>2. ASSUME NEW st \in {"CLOSE", "EXCEPT"}, OnClosed(l, st)
      PROVE  LinkEffect(l)
  <2>1. WireShrinks
    BY <1>0, <1>2 DEF OnClosed, WireShrinks, ConnTypeOK
  <2>2. QED
    BY <1>2, <2>1 DEF OnClosed, sess_vars, SessionsKept, LinkEffect
<1>3. ASSUME NEW s \in wire[l], NEW st \in {"SUCCESS", "FAIL"},
             OnSubmitResp(l, s, st)
      PROVE  LinkEffect(l)
  <2>1. WireShrinks
    BY <1>0, <1>3 DEF OnSubmitResp, WireShrinks, ConnTypeOK
  <2>2. CASE s \notin packetDB[l]
    BY <1>3, <2>1, <2>2 DEF OnSubmitResp, SessionsKept, LinkEffect
  <2>3. CASE s \in packetDB[l]
    <3>1. /\ packetDB' = [packetDB EXCEPT ![l] = @ \ {s}]
          /\ channelStatusReport({s}, st, Total)
          /\ UNCHANGED <<written, dropped, cq>>
      BY <1>3, <2>3 DEF OnSubmitResp
    <3>2. {s} \in SUBSET packetDB[l] /\ st \in {"SUCCESS", "FAIL", "TIMEOUT"}
      BY <2>3
    <3>3. QED
      BY <2>1, <3>1, <3>2, EndedAll
  <2>4. QED
    BY <2>2, <2>3
<1>4. QED
  BY <1>1, <1>2, <1>3 DEF LinkGateway

LEMMA TimerEffect ==
    ASSUME LinkTyped, NEW l \in Links, HandleHeartTimeOut(l)
    PROVE  LinkEffect(l)
<1>0. ConnTypeOK
  BY DEF LinkTyped
<1>1. CASE chan[l] # "live"
  BY <1>1 DEF HandleHeartTimeOut, conn_vars, sess_vars, SessionsKept, WireShrinks,
              LinkEffect
<1>2. CASE chan[l] = "live"
  <2>1. Expire(l) /\ UNCHANGED cq
    BY <1>2 DEF HandleHeartTimeOut
  <2>2. wire' = wire \/ wire' = [wire EXCEPT ![l] = {}]
    <3>1. CASE TimerConn(l)
      BY <3>1 DEF TimerConn
    <3>2. CASE TimerHeartLost(l)
      BY <3>2, reConnCases DEF TimerHeartLost, conn_vars
    <3>3. CASE TimerAlive(l)
      BY <3>3 DEF TimerAlive
    <3>4. QED
      BY <1>2, <3>1, <3>2, <3>3 DEF HandleHeartTimeOut
  <2>3. WireShrinks
    BY <1>0, <2>2 DEF WireShrinks, ConnTypeOK
  <2>4. QED
    BY <2>1, <2>3, ExpireEffect
<1>3. QED
  BY <1>1, <1>2

LEMMA DispatchEffect ==
    ASSUME LinkTyped, NEW l \in Links, HandleDispatch(l)
    PROVE  LinkEffect(l)
<1> DEFINE n == cq[l][1]
<1>0. /\ cq \in [Links -> Seq(Sms)] /\ written \in [Sms -> Nat]
      /\ cq[l] # <<>> /\ cq' = [cq EXCEPT ![l] = Tail(@)]
  BY DEF LinkTyped, QueueTypeOK, SessTypeOK, HandleDispatch
<1>1. /\ QueueShortens(l, 1) /\ Head(cq[l]) = n /\ n \in Sms
      /\ 1 \in 1 .. Len(cq[l])
  BY <1>0, HeadShortens
<1> HIDE DEF n
<1>2. CASE SendSms(l, n)
  <2>1. SmsSubmitted(l) /\ UNCHANGED statusQ
    BY <1>1, <1>2 DEF SendSms, SmsSubmitted, HandleDispatch, n
  <2>2. QED
    BY <1>0, <2>1 DEF LinkEffect
<1>3. CASE SendSmsUnconnected(l, n)
  <2>1. /\ written' = [written EXCEPT ![n] = @ + 1]
        /\ channelStatusReport({<<n, 0>>}, "SOCKET_ERR", [x \in Sms |-> 1])
    BY <1>3 DEF SendSmsUnconnected
  <2>2. SmsRefused(l, 1)
    <3>1. CASE SmsSubmitted(l)
      <4>1. reported'[n] = reported[n]
        BY <3>1 DEF SmsSubmitted
      <4>2. {<<x, 0>> : x \in {n}} = {<<n, 0>>} /\ {n} \in SUBSET Sms
        BY <1>1
      <4>3. /\ {<<x, 0>> : x \in {n}} \in SUBSET Seg
            /\ Cardinality(Of({<<x, 0>> : x \in {n}}, n))
                  = IF n \in {n} THEN 1 ELSE 0
        BY <1>1, <4>2, PlaceholderCount
      <4>4. {<<n, 0>>} \in SUBSET Seg /\ Cardinality(Of({<<n, 0>>}, n)) = 1
        BY <4>2, <4>3
      <4>5. reported'[n] = reported[n] + Cardinality(Of({<<n, 0>>}, n))
            /\ reported[n] \in Nat
        BY <1>1, <2>1, <4>4, ReportCount
      <4>6. QED
        BY <4>1, <4>4, <4>5
    <3>2. QED
      BY <3>1, DispatchSessions
  <2>3. statusQ' = statusQ \cup {RefusalOf(cq[l][i], "SOCKET_ERR") : i \in 1 .. 1}
    <3>1. {[seg |-> s, total |-> [x \in Sms |-> 1][SmsOf(s)], status |-> "SOCKET_ERR"] :
              s \in {<<n, 0>>}} = {RefusalOf(n, "SOCKET_ERR")}
      BY <1>1 DEF SmsOf, RefusalOf
    <3>2. {RefusalOf(cq[l][i], "SOCKET_ERR") : i \in 1 .. 1} = {RefusalOf(n, "SOCKET_ERR")}
      <4>1. 1 .. 1 = {1}
        OBVIOUS
      <4>2. QED
        BY <4>1 DEF n
    <3>3. QED
      BY <2>1, <3>1, <3>2 DEF channelStatusReport
  <2>4. "SOCKET_ERR" \in Refusal /\ "SOCKET_ERR" # "NO_CHANNEL"
    BY DEF Refusal
  <2>5. QED
    BY <1>1, <2>2, <2>3, <2>4 DEF LinkEffect
<1>4. QED
  BY <1>1, <1>2, <1>3 DEF HandleDispatch

LEMMA DelEffect ==
    ASSUME LinkTyped, QueuedOnce, NEW l \in Links, HandleChannelDel(l)
    PROVE  LinkEffect(l)
<1>0. cq \in [Links -> Seq(Sms)] /\ Len(cq[l]) \in Nat
  BY DEF LinkTyped, QueueTypeOK
<1>1. CASE chan[l] # "live"
  BY <1>1 DEF HandleChannelDel, conn_vars, SessionsKept, WireShrinks, LinkEffect
<1>2. CASE chan[l] = "live"
  <2> DEFINE M == {cq[l][i] : i \in 1 .. Len(cq[l])}
             S == {<<x, 0>> : x \in M}
  <2>1. channelStatusReport(S, "NO_CHANNEL", [n \in Sms |-> 1])
        /\ cq' = [cq EXCEPT ![l] = <<>>]
    BY <1>2 DEF HandleChannelDel
  <2>2. statusQ' = statusQ \cup {RefusalOf(cq[l][i], "NO_CHANNEL") : i \in 1 .. Len(cq[l])}
    <3>1. \A i \in 1 .. Len(cq[l]) : cq[l][i] \in Sms
      BY <1>0
    <3>2. {[seg |-> s, total |-> [n \in Sms |-> 1][SmsOf(s)], status |-> "NO_CHANNEL"] :
              s \in S} = {RefusalOf(cq[l][i], "NO_CHANNEL") : i \in 1 .. Len(cq[l])}
      BY <3>1 DEF SmsOf, RefusalOf
    <3>3. QED
      BY <2>1, <3>2 DEF channelStatusReport
  <2>3. CASE cq[l] = <<>>
    <3>1. statusQ' = statusQ
      BY <2>2, <2>3
    <3>2. SessionsKept
      <4>1. SessionsKept \/ \E d \in 1 .. Len(cq[l]) : SmsRefused(l, d)
        BY DelSessions
      <4>2. 1 .. Len(cq[l]) = {}
        BY <2>3
      <4>3. QED
        BY <4>1, <4>2
    <3>3. QED
      BY <3>1, <3>2 DEF LinkEffect
  <2>4. CASE cq[l] # <<>>
    <3>1. PICK d \in 1 .. Len(cq[l]) : SmsRefused(l, d)
      <4>1. ~SessionsKept
        BY <1>0, <2>1, <2>4 DEF SessionsKept
      <4>2. QED
        BY <4>1, DelSessions
    <3>2. d = Len(cq[l])
      <4>1. Len(cq'[l]) = Len(cq[l]) - d
        BY <3>1 DEF SmsRefused, QueueShortens
      <4>2. cq'[l] = <<>>
        BY <1>0, <2>1
      <4>3. QED
        BY <1>0, <4>1, <4>2
    <3>3. statusQ' = statusQ \cup {RefusalOf(cq[l][i], "NO_CHANNEL") : i \in 1 .. d}
      BY <2>2, <3>2
    <3>4. dq[l] # <<>> /\ Head(dq[l]).kind = "DEL"
      BY DEF HandleChannelDel, Takes, Msg
    <3>5. "NO_CHANNEL" \in Refusal
      BY DEF Refusal
    <3>6. QED
      BY <3>1, <3>3, <3>4, <3>5 DEF LinkEffect
  <2>5. QED
    BY <2>3, <2>4
<1>3. QED
  BY <1>1, <1>2

LEMMA CloseEffect ==
    ASSUME LinkTyped, LinkTyped', NEW l \in Links, NEW n \in Sliders,
           HandleChannelCloseTimeOut(l, n)
    PROVE  LinkEffect(l)
<1>1. PICK S \in SUBSET packetDB[l] :
         channelStatusReport(S, "INTERNAL_ERROR", Total)
  BY DEF HandleChannelCloseTimeOut
<1>2. SessionsEnd(l, packetDB[l]) /\ chan[l] = "closing"
  BY CloseSessions DEF HandleChannelCloseTimeOut
<1>3. /\ statusQ' = statusQ \cup {ReportOn(s, "INTERNAL_ERROR") : s \in S}
      /\ \A m \in Sms : reported'[m] = reported[m] + Cardinality(Of(S, m))
  BY <1>1 DEF channelStatusReport, ReportOn
<1>4. Ended(l, packetDB[l], S, "INTERNAL_ERROR")
  BY <1>2, <1>3 DEF Ended
<1>5. "INTERNAL_ERROR" \in Status \ Refusal /\ packetDB[l] \in SUBSET packetDB[l]
  BY DEF Status, Refusal
<1>6. QED
  BY <1>4, <1>5 DEF LinkEffect

LEMMA LinkStepEffect ==
    ASSUME LinkTyped, LinkTyped', QueuedOnce, NEW l \in Links, LinkStep(l)
    PROVE  LinkEffect(l)
<1>1. CASE HandleReset(l)
  <2>1. reConn(l) \/ UNCHANGED conn_vars
    BY <1>1 DEF HandleReset
  <2>2. wire' = wire \/ wire' = [wire EXCEPT ![l] = {}]
    BY <2>1, reConnCases DEF conn_vars
  <2>3. WireShrinks
    BY <2>2 DEF WireShrinks, LinkTyped, ConnTypeOK
  <2>4. QED
    BY <1>1, <2>3 DEF HandleReset, sess_vars, SessionsKept, LinkEffect
<1>2. ASSUME HeartFires(l) \/ \E n \in Sliders : HandleChannelSlideWindowUpdate(l, n)
      PROVE  LinkEffect(l)
  BY <1>2 DEF HeartFires, HandleChannelSlideWindowUpdate, sess_vars, conn_vars,
              SessionsKept, WireShrinks, LinkEffect
<1>3. QED
  BY <1>1, <1>2, GatewayEffect, TimerEffect, DispatchEffect, DelEffect, CloseEffect
     DEF LinkStep, LinkMessage

-----------------------------------------------------------------------------
(* One SMS.  Where it waits before a link has it, and what the links have  *)
(* of it: its place in a channel queue, its sessions, its segments on the  *)
(* wire and the reports the pool has not read.                             *)
Waiting(m) == m \in broker \/ InPoolQueue(m) \/ InAudit(m)
WaitsOnce(m) ==
    /\ m \in broker => ~InPoolQueue(m) /\ ~InAudit(m)
    /\ InAudit(m) => ~InPoolQueue(m)
Queued(m) == \E l \in Links : InQueue(l, m)
OpenOf(m) == Pairs(packetDB, m)
WireOf(m) == Pairs(wire, m)
Reports(m) == {r \in statusQ : SmsOf(r.seg) = m}
Opened == [NoSession EXCEPT !.open = TRUE]

(* What a step leaves alone of an SMS.                                     *)
WaitSame(m) ==
    /\ m \in broker' <=> m \in broker
    /\ InPoolQueue(m)' <=> InPoolQueue(m)
    /\ InAudit(m)' <=> InAudit(m)
RecordSame(m) == session'[m] = session[m] /\ outcome'[m] = outcome[m]
SentSame(m) ==
    /\ OpenOf(m)' = OpenOf(m) /\ WireOf(m)' \subseteq WireOf(m)
    /\ written'[m] = written[m] /\ reported'[m] = reported[m]
    /\ dropped'[m] = dropped[m]
LinksSame(m) ==
    /\ Queued(m)' <=> Queued(m)
    /\ SentSame(m) /\ Reports(m)' = Reports(m)
Idle(m) == WaitSame(m) /\ RecordSame(m) /\ LinksSame(m)

(* The steps of an SMS in the consumer and the pool.                       *)
Moved(m) ==
    /\ Waiting(m) /\ Waiting(m)' /\ WaitsOnce(m)'
    /\ RecordSame(m) /\ LinksSame(m)
Leaves(m) == Waiting(m) /\ m \notin broker /\ ~Waiting(m)'
HandedOver(m) ==
    /\ Leaves(m) /\ Queued(m)' /\ SentSame(m) /\ Reports(m)' = Reports(m)
    /\ session'[m] = Opened /\ outcome'[m] = outcome[m]
SentBack(m) ==
    /\ Leaves(m) /\ LinksSame(m)
    /\ session'[m] = Opened
    /\ outcome'[m] = [outcome[m] EXCEPT !.reback = @ + 1]
Intercepted(m) ==
    /\ Leaves(m) /\ LinksSame(m)
    /\ session'[m] = session[m]
    /\ outcome'[m] = [outcome[m] EXCEPT !.audit = @ + 1]
Discarded(m) == ~poolLive /\ Leaves(m) /\ LinksSame(m) /\ RecordSame(m)
Heard(m, r) ==
    /\ r \in Reports(m) /\ Reports(m)' = Reports(m) \ {r}
    /\ WaitSame(m) /\ (Queued(m)' <=> Queued(m)) /\ SentSame(m)
    /\ IF session[m].open
       THEN /\ session'[m] = IF session[m].recv + 1 = r.total THEN NoSession
                             ELSE [open |-> TRUE, recv |-> session[m].recv + 1,
                                   total |-> r.total]
            /\ \E k \in {"reback", "fail", "succ"} :
                  /\ outcome'[m] = [outcome[m] EXCEPT ![k] = @ + 1]
                  /\ k = "reback" <=> r.status = "SOCKET_ERR"
       ELSE RecordSame(m)

(* The steps of an SMS at a link: sessions end, it is refused, or it is    *)
(* submitted.                                                              *)
Closing == \E l \in Links : chan[l] = "closing"
EndedOf(m) ==
    /\ WaitSame(m) /\ RecordSame(m) /\ (Queued(m)' <=> Queued(m))
    /\ OpenOf(m)' \subseteq OpenOf(m) /\ WireOf(m)' \subseteq WireOf(m)
    /\ written'[m] = written[m]
    /\ \E N \in SUBSET Seg, st \in Status \ Refusal :
          /\ Reports(m)' = Reports(m) \cup {ReportOn(s, st) : s \in N}
          /\ reported'[m] = reported[m] + Cardinality(N)
          /\ \A s \in N : SmsOf(s) = m /\ \E x \in OpenOf(m) \ OpenOf(m)' : x[2] = s
    /\ OpenOf(m)' # OpenOf(m) => Reports(m)' # {} \/ Closing
RefusedAt(m) ==
    /\ WaitSame(m) /\ RecordSame(m) /\ Queued(m) /\ ~Queued(m)'
    /\ OpenOf(m)' = OpenOf(m) /\ WireOf(m)' = WireOf(m)
    /\ written'[m] = written[m] + 1 /\ reported'[m] = reported[m] + 1
    /\ dropped'[m] = dropped[m]
    /\ \E st \in Refusal : Reports(m)' = Reports(m) \cup {RefusalOf(m, st)}
SubmittedAt(m) ==
    /\ WaitSame(m) /\ RecordSame(m) /\ Queued(m) /\ ~Queued(m)'
    /\ Reports(m)' = Reports(m)
    /\ written'[m] = written[m] + Segs[m]
    /\ reported'[m] = reported[m] /\ dropped'[m] = dropped[m]
    /\ \E l \in Links :
          /\ OpenOf(m)' = OpenOf(m) \cup ({l} \X SegsOf(m))
          /\ WireOf(m)' = WireOf(m) \cup ({l} \X SegsOf(m))

PoolSide(m) ==
    \/ Moved(m) \/ HandedOver(m) \/ SentBack(m) \/ Intercepted(m) \/ Discarded(m)
    \/ \E r \in statusQ : Heard(m, r)
LinkSide(m) == Idle(m) \/ EndedOf(m) \/ RefusedAt(m)

(* In one step the pool or a submission touches one SMS; the reports and   *)
(* refusals of a link can concern several.                                 *)
SmsStep ==
    \/ \A m \in Sms : LinkSide(m)
    \/ \E m \in Sms : /\ PoolSide(m) \/ SubmittedAt(m)
                      /\ \A n \in Sms \ {m} : Idle(n)

(* What holds of every SMS.                                                *)
Untouched(m) == OpenOf(m) = {} /\ WireOf(m) = {}
WaitingInv(m) ==
    Waiting(m) => /\ WaitsOnce(m) /\ ~Queued(m) /\ written[m] = 0
                  /\ session[m] = NoSession /\ outcome[m] = NoOutcome
QueuedInv(m) ==
    Queued(m) => /\ written[m] = 0
                 /\ session[m] = Opened /\ outcome[m] = NoOutcome
UnsentInv(m) == written[m] = 0 => Untouched(m) /\ Reports(m) = {}
HeardInv(m) == written[m] > 0 /\ ~Answered(m) => session[m].open
RefusalInv(m) ==
    \A r \in Reports(m) :
        r.status \in Refusal =>
            /\ Reports(m) = {r} /\ Untouched(m)
            /\ session[m] = Opened /\ outcome[m] = NoOutcome
BackInv(m) ==
    outcome[m].reback > 0 =>
        /\ outcome[m] = [NoOutcome EXCEPT !.reback = 1]
        /\ Untouched(m) /\ Reports(m) = {}
LocatedInv(m) ==
    poolLive => Waiting(m) \/ Queued(m) \/ OpenOf(m) # {} \/ Reports(m) # {} \/ Answered(m)
SmsInv(m) ==
    /\ WaitingInv(m) /\ QueuedInv(m) /\ UnsentInv(m) /\ HeardInv(m)
    /\ RefusalInv(m) /\ BackInv(m) /\ LocatedInv(m)

Quiet(q) == \A i \in 1 .. Len(q) : q[i].type = "LOGIN" => ~q[i].bDelAll

(* While the channel exists every link is live, and nothing on the way to  *)
(* or from a link says otherwise.                                          *)
LiveInv ==
    poolLive =>
        /\ \A l \in Links : chan[l] = "live"
        /\ \A l \in Links : \A i \in 1 .. Len(dq[l]) : dq[l][i].kind # "DEL"
        /\ \A r \in statusQ : r.status \notin {"NO_CHANNEL", "INTERNAL_ERROR"}
        /\ Quiet(poolQ)

\* The pool has each SMS at most once in its queue and once in the audit.
OneCopy(A) == \A a, b \in A : a.sms = b.sms => a = b
PoolOnce == OnceIn(poolQ) /\ OneCopy(audit)

-----------------------------------------------------------------------------
LEMMA OutcomeKeys ==
    ASSUME RecordTyped, NEW m \in Sms
    PROVE  /\ Answered(m) <=> \/ outcome[m].succ > 0 \/ outcome[m].fail > 0
                              \/ outcome[m].reback > 0 \/ outcome[m].audit > 0
           /\ outcome[m].succ \in Nat /\ outcome[m].fail \in Nat
           /\ outcome[m].reback \in Nat /\ outcome[m].audit \in Nat
           /\ outcome[m] = NoOutcome <=> ~Answered(m)
<1>1. outcome[m] \in [succ : Nat, fail : Nat, reback : Nat, audit : Nat]
  BY DEF RecordTyped
<1>2. DOMAIN outcome[m] = {"succ", "fail", "reback", "audit"}
  BY <1>1
<1>3. Answered(m) <=> \/ outcome[m].succ > 0 \/ outcome[m].fail > 0
                      \/ outcome[m].reback > 0 \/ outcome[m].audit > 0
  BY <1>2 DEF Answered
<1>4. outcome[m] = NoOutcome <=> /\ outcome[m].succ = 0 /\ outcome[m].fail = 0
                                 /\ outcome[m].reback = 0 /\ outcome[m].audit = 0
  BY <1>1 DEF NoOutcome
<1>5. QED
  BY <1>1, <1>3, <1>4

LEMMA AnsweredNext == \A m : outcome'[m] = outcome[m] => (Answered(m)' <=> Answered(m))
BY DEF Answered

-----------------------------------------------------------------------------
(* Each kind of step keeps SmsInv.                                         *)
LEMMA WaitSameNext ==
    \A m : WaitSame(m) => /\ Waiting(m)' <=> Waiting(m)
                          /\ WaitsOnce(m)' <=> WaitsOnce(m)
BY DEF WaitSame, Waiting, WaitsOnce

LEMMA SentSameNext ==
    \A m : SentSame(m) => /\ Untouched(m) => Untouched(m)'
                          /\ OpenOf(m)' = OpenOf(m) /\ written'[m] = written[m]
BY DEF SentSame, Untouched

LEMMA IdleInv ==
    ASSUME NEW m \in Sms, SmsInv(m), Idle(m), poolLive' => poolLive
    PROVE  SmsInv(m)'
<1>1. /\ Waiting(m)' <=> Waiting(m)
      /\ WaitsOnce(m)' <=> WaitsOnce(m)
      /\ Queued(m)' <=> Queued(m)
      /\ Untouched(m) => Untouched(m)'
      /\ OpenOf(m)' = OpenOf(m) /\ Reports(m)' = Reports(m)
      /\ written'[m] = written[m] /\ session'[m] = session[m]
      /\ outcome'[m] = outcome[m] /\ (Answered(m)' <=> Answered(m))
  BY WaitSameNext, SentSameNext, AnsweredNext DEF Idle, LinksSame, RecordSame
<1>2. WaitingInv(m)' /\ QueuedInv(m)' /\ UnsentInv(m)' /\ HeardInv(m)'
  BY <1>1 DEF SmsInv, WaitingInv, QueuedInv, UnsentInv, HeardInv
<1>3. RefusalInv(m)' /\ BackInv(m)' /\ LocatedInv(m)'
  BY <1>1 DEF SmsInv, RefusalInv, BackInv, LocatedInv
<1>4. QED
  BY <1>2, <1>3 DEF SmsInv

LEMMA MovedInv ==
    ASSUME NEW m \in Sms, SmsInv(m), Moved(m)
    PROVE  SmsInv(m)'
<1>1. /\ Waiting(m) /\ Waiting(m)' /\ WaitsOnce(m)'
      /\ Queued(m)' <=> Queued(m)
      /\ Untouched(m) => Untouched(m)'
      /\ Reports(m)' = Reports(m)
      /\ written'[m] = written[m] /\ session'[m] = session[m]
      /\ outcome'[m] = outcome[m]
  BY SentSameNext DEF Moved, LinksSame, RecordSame
<1>2. /\ ~Queued(m) /\ written[m] = 0 /\ session[m] = NoSession
      /\ outcome[m] = NoOutcome /\ Untouched(m) /\ Reports(m) = {}
  BY <1>1 DEF SmsInv, WaitingInv, UnsentInv
<1>3. NoOutcome.reback = 0
  BY DEF NoOutcome
<1>4. QED
  BY <1>1, <1>2, <1>3 DEF SmsInv, WaitingInv, QueuedInv, UnsentInv, HeardInv,
                          RefusalInv, BackInv, LocatedInv

(* An SMS that the pool lets go has nothing at the links.                  *)
LEMMA LeavesFresh ==
    ASSUME NEW m \in Sms, SmsInv(m), Leaves(m)
    PROVE  /\ ~Waiting(m)' /\ ~Queued(m) /\ written[m] = 0 /\ Untouched(m)
           /\ session[m] = NoSession /\ outcome[m] = NoOutcome /\ Reports(m) = {}
BY DEF Leaves, SmsInv, WaitingInv, UnsentInv

LEMMA HandedOverInv ==
    ASSUME NEW m \in Sms, SmsInv(m), HandedOver(m)
    PROVE  SmsInv(m)'
<1>1. /\ ~Waiting(m)' /\ written[m] = 0 /\ Untouched(m)
      /\ outcome[m] = NoOutcome /\ Reports(m) = {}
  BY LeavesFresh DEF HandedOver
<1>2. /\ Queued(m)' /\ Untouched(m)' /\ Reports(m)' = {}
      /\ written'[m] = 0 /\ session'[m] = Opened /\ outcome'[m] = NoOutcome
  BY <1>1, SentSameNext DEF HandedOver
<1>3. NoOutcome.reback = 0
  BY DEF NoOutcome
<1>4. QED
  BY <1>1, <1>2, <1>3 DEF SmsInv, WaitingInv, QueuedInv, UnsentInv, HeardInv,
                          RefusalInv, BackInv, LocatedInv

LEMMA SentBackInv ==
    ASSUME RecordTyped, RecordTyped', NEW m \in Sms, SmsInv(m), SentBack(m)
    PROVE  SmsInv(m)'
<1>1. /\ ~Waiting(m)' /\ ~Queued(m) /\ written[m] = 0 /\ Untouched(m)
      /\ outcome[m] = NoOutcome /\ Reports(m) = {}
  BY LeavesFresh DEF SentBack
<1>2. /\ ~Queued(m)' /\ Untouched(m)' /\ Reports(m)' = {} /\ written'[m] = 0
      /\ outcome'[m] = [NoOutcome EXCEPT !.reback = 1]
  <2>1. outcome'[m] = [NoOutcome EXCEPT !.reback = @ + 1]
    BY <1>1 DEF SentBack
  <2>2. QED
    BY <1>1, <2>1, SentSameNext DEF SentBack, LinksSame, NoOutcome
<1>3. Answered(m)'
  <2>1. outcome'[m].reback > 0 /\ "reback" \in DOMAIN outcome'[m]
    BY <1>2 DEF NoOutcome
  <2>2. QED
    BY <2>1 DEF Answered
<1>4. QED
  BY <1>1, <1>2, <1>3 DEF SmsInv, WaitingInv, QueuedInv, UnsentInv, HeardInv,
                          RefusalInv, BackInv, LocatedInv

LEMMA InterceptedInv ==
    ASSUME NEW m \in Sms, SmsInv(m), Intercepted(m)
    PROVE  SmsInv(m)'
<1>1. /\ ~Waiting(m)' /\ ~Queued(m) /\ written[m] = 0 /\ Untouched(m)
      /\ outcome[m] = NoOutcome /\ Reports(m) = {}
  BY LeavesFresh DEF Intercepted
<1>2. /\ ~Queued(m)' /\ Untouched(m)' /\ Reports(m)' = {} /\ written'[m] = 0
      /\ outcome'[m] = [NoOutcome EXCEPT !.audit = 1]
  <2>1. outcome'[m] = [NoOutcome EXCEPT !.audit = @ + 1]
    BY <1>1 DEF Intercepted
  <2>2. QED
    BY <1>1, <2>1, SentSameNext DEF Intercepted, LinksSame, NoOutcome
<1>3. Answered(m)' /\ outcome'[m].reback = 0
  <2>1. /\ outcome'[m].audit > 0 /\ "audit" \in DOMAIN outcome'[m]
        /\ outcome'[m].reback = 0
    BY <1>2 DEF NoOutcome
  <2>2. QED
    BY <2>1 DEF Answered
<1>4. QED
  BY <1>1, <1>2, <1>3 DEF SmsInv, WaitingInv, QueuedInv, UnsentInv, HeardInv,
                          RefusalInv, BackInv, LocatedInv

LEMMA DiscardedInv ==
    ASSUME NEW m \in Sms, SmsInv(m), Discarded(m), poolLive' => poolLive
    PROVE  SmsInv(m)'
<1>1. /\ ~Waiting(m)' /\ ~Queued(m) /\ written[m] = 0 /\ Untouched(m)
      /\ outcome[m] = NoOutcome /\ Reports(m) = {} /\ ~poolLive'
  BY LeavesFresh DEF Discarded
<1>2. /\ ~Queued(m)' /\ Untouched(m)' /\ Reports(m)' = {} /\ written'[m] = 0
      /\ outcome'[m] = NoOutcome
  BY <1>1, SentSameNext DEF Discarded, LinksSame, RecordSame
<1>3. NoOutcome.reback = 0
  BY DEF NoOutcome
<1>4. QED
  BY <1>1, <1>2, <1>3 DEF SmsInv, WaitingInv, QueuedInv, UnsentInv, HeardInv,
                          RefusalInv, BackInv, LocatedInv

(* The pool reads a report: the SMS had been sent or refused, and has been *)
(* answered afterwards.                                                    *)
LEMMA HeardSmsInv ==
    ASSUME RecordTyped, RecordTyped', LinkTyped, NEW m \in Sms, SmsInv(m),
           NEW r \in statusQ, Heard(m, r)
    PROVE  SmsInv(m)'
<1>0. /\ r \in Reports(m) /\ Reports(m)' = Reports(m) \ {r}
      /\ Waiting(m)' <=> Waiting(m)
      /\ Queued(m)' <=> Queued(m)
      /\ Untouched(m) => Untouched(m)'
      /\ written'[m] = written[m]
  BY WaitSameNext, SentSameNext DEF Heard
<1>1. written[m] # 0 /\ ~Waiting(m) /\ ~Queued(m) /\ written[m] > 0
  <2>1. written[m] # 0 /\ ~Waiting(m) /\ ~Queued(m)
    BY <1>0 DEF SmsInv, UnsentInv, WaitingInv, QueuedInv
  <2>2. QED
    BY <2>1 DEF LinkTyped, SessTypeOK
<1>2. Answered(m)'
  <2>1. CASE session[m].open
    <3>1. PICK k \in {"reback", "fail", "succ"} :
             outcome'[m] = [outcome[m] EXCEPT ![k] = @ + 1]
      BY <2>1 DEF Heard
    <3>2. outcome[m] \in [succ : Nat, fail : Nat, reback : Nat, audit : Nat]
      BY DEF RecordTyped
    <3>3. outcome'[m][k] > 0 /\ k \in DOMAIN outcome'[m]
      BY <3>1, <3>2
    <3>4. QED
      BY <3>3 DEF Answered
  <2>2. CASE ~session[m].open
    <3>1. Answered(m) /\ outcome'[m] = outcome[m]
      BY <1>1, <2>2 DEF SmsInv, HeardInv, Heard, RecordSame
    <3>2. QED
      BY <3>1, AnsweredNext
  <2>3. QED
    BY <2>1, <2>2
<1>3. RefusalInv(m)'
  <2>1. ASSUME NEW q \in Reports(m)', q.status \in Refusal
        PROVE  FALSE
    <3>1. q \in Reports(m) /\ q # r
      BY <1>0
    <3>2. Reports(m) = {q}
      BY <2>1, <3>1 DEF SmsInv, RefusalInv
    <3>3. QED
      BY <1>0, <3>1, <3>2
  <2>2. QED
    BY <2>1 DEF RefusalInv
<1>4. BackInv(m)'
  <2>0. outcome[m].reback = 0 /\ outcome[m] \in [succ : Nat, fail : Nat, reback : Nat, audit : Nat]
    <3>1. outcome[m] \in [succ : Nat, fail : Nat, reback : Nat, audit : Nat]
      BY DEF RecordTyped
    <3>2. ~(outcome[m].reback > 0)
      BY <1>0 DEF SmsInv, BackInv
    <3>3. QED
      BY <3>1, <3>2
  <2>1. CASE session[m].open
    <3>1. PICK k \in {"reback", "fail", "succ"} :
             /\ outcome'[m] = [outcome[m] EXCEPT ![k] = @ + 1]
             /\ k = "reback" <=> r.status = "SOCKET_ERR"
      BY <2>1 DEF Heard
    <3>2. CASE k = "reback"
      <4>1. r.status \in Refusal
        BY <3>1, <3>2 DEF Refusal
      <4>2. Reports(m) = {r} /\ Untouched(m) /\ outcome[m] = NoOutcome
        BY <1>0, <4>1 DEF SmsInv, RefusalInv
      <4>3. Reports(m)' = {} /\ Untouched(m)'
        BY <1>0, <4>2
      <4>4. outcome'[m] = [NoOutcome EXCEPT !.reback = 1]
        BY <3>1, <3>2, <4>2 DEF NoOutcome
      <4>5. QED
        BY <4>3, <4>4 DEF BackInv
    <3>3. CASE k # "reback"
      <4>1. outcome'[m].reback = 0
        BY <2>0, <3>1, <3>3
      <4>2. QED
        BY <4>1 DEF BackInv
    <3>4. QED
      BY <3>2, <3>3
  <2>2. CASE ~session[m].open
    <3>1. outcome'[m].reback = 0
      BY <2>0, <2>2 DEF Heard, RecordSame
    <3>2. QED
      BY <3>1 DEF BackInv
  <2>3. QED
    BY <2>1, <2>2
<1>5. QED
  BY <1>0, <1>1, <1>2, <1>3, <1>4
     DEF SmsInv, WaitingInv, QueuedInv, UnsentInv, HeardInv, LocatedInv

(* Sessions of an SMS end.                                                 *)
LEMMA EndedReports ==
    ASSUME NEW m, EndedOf(m)
    PROVE  /\ Reports(m) \subseteq Reports(m)'
           /\ \A r \in Reports(m)' \ Reports(m) :
                 r.status \notin Refusal /\ \E x \in OpenOf(m) : x[2] = r.seg
<1>1. PICK N \in SUBSET Seg, st \in Status \ Refusal :
         /\ Reports(m)' = Reports(m) \cup {ReportOn(s, st) : s \in N}
         /\ \A s \in N : SmsOf(s) = m /\ \E x \in OpenOf(m) \ OpenOf(m)' : x[2] = s
  BY DEF EndedOf
<1>2. \A s \in N : ReportOn(s, st).status = st /\ ReportOn(s, st).seg = s
  BY DEF ReportOn
<1>3. QED
  BY <1>1, <1>2

LEMMA EndedOfInv ==
    ASSUME NEW m \in Sms, SmsInv(m), LiveInv, EndedOf(m), poolLive' => poolLive
    PROVE  SmsInv(m)'
<1>0. /\ Waiting(m)' <=> Waiting(m)
      /\ WaitsOnce(m)' <=> WaitsOnce(m)
      /\ Queued(m)' <=> Queued(m)
      /\ Untouched(m) => Untouched(m)'
      /\ written'[m] = written[m] /\ session'[m] = session[m]
      /\ outcome'[m] = outcome[m] /\ (Answered(m)' <=> Answered(m))
  BY WaitSameNext, AnsweredNext DEF EndedOf, RecordSame, Untouched
<1>1. Untouched(m) => Reports(m)' = Reports(m)
  BY EndedReports DEF Untouched
<1>2. WaitingInv(m)' /\ QueuedInv(m)' /\ UnsentInv(m)' /\ HeardInv(m)'
  BY <1>0, <1>1 DEF SmsInv, WaitingInv, QueuedInv, UnsentInv, HeardInv
<1>3. RefusalInv(m)'
  <2> SUFFICES ASSUME NEW r \in Reports(m)', r.status \in Refusal
               PROVE  /\ Reports(m)' = {r} /\ Untouched(m)'
                      /\ session'[m] = Opened /\ outcome'[m] = NoOutcome
    BY DEF RefusalInv
  <2>1. r \in Reports(m)
    BY EndedReports
  <2>2. QED
    BY <1>0, <1>1, <2>1 DEF SmsInv, RefusalInv
<1>4. BackInv(m)'
  BY <1>0, <1>1 DEF SmsInv, BackInv
<1>5. LocatedInv(m)'
  <2> SUFFICES ASSUME poolLive'
               PROVE  \/ Waiting(m)' \/ Queued(m)' \/ OpenOf(m)' # {}
                      \/ Reports(m)' # {} \/ Answered(m)'
    BY DEF LocatedInv
  <2>1. ~Closing
    BY DEF LiveInv, Closing
  <2>2. CASE OpenOf(m)' # OpenOf(m)
    BY <2>1, <2>2 DEF EndedOf
  <2>3. CASE OpenOf(m)' = OpenOf(m)
    <3>1. Reports(m) # {} => Reports(m)' # {}
      BY EndedReports
    <3>2. QED
      BY <1>0, <2>3, <3>1 DEF SmsInv, LocatedInv
  <2>4. QED
    BY <2>2, <2>3
<1>6. QED
  BY <1>2, <1>3, <1>4, <1>5 DEF SmsInv

LEMMA RefusedAtInv ==
    ASSUME NEW m \in Sms, SmsInv(m), RefusedAt(m)
    PROVE  SmsInv(m)'
<1>1. /\ Queued(m) /\ written[m] = 0 /\ session[m] = Opened /\ outcome[m] = NoOutcome
      /\ ~Waiting(m) /\ Untouched(m) /\ Reports(m) = {}
  BY DEF RefusedAt, SmsInv, WaitingInv, QueuedInv, UnsentInv
<1>2. /\ ~Waiting(m)' /\ ~Queued(m)' /\ written'[m] = 1
      /\ session'[m] = Opened /\ outcome'[m] = NoOutcome /\ Untouched(m)'
  BY <1>1, WaitSameNext DEF RefusedAt, RecordSame, Untouched
<1>3. PICK r : Reports(m)' = {r}
  <2>1. PICK st \in Refusal : Reports(m)' = Reports(m) \cup {RefusalOf(m, st)}
    BY DEF RefusedAt
  <2>2. Reports(m)' = {RefusalOf(m, st)}
    BY <1>1, <2>1
  <2>3. QED
    BY <2>2
<1>4. Opened.open /\ NoOutcome.reback = 0
  BY DEF Opened, NoSession, NoOutcome
<1>5. QED
  BY <1>2, <1>3, <1>4 DEF SmsInv, WaitingInv, QueuedInv, UnsentInv, HeardInv,
                          RefusalInv, BackInv, LocatedInv

LEMMA SubmittedAtInv ==
    ASSUME NEW m \in Sms, SmsInv(m), SubmittedAt(m)
    PROVE  SmsInv(m)'
<1>1. /\ Queued(m) /\ written[m] = 0 /\ session[m] = Opened /\ outcome[m] = NoOutcome
      /\ ~Waiting(m) /\ Reports(m) = {}
  BY DEF SubmittedAt, SmsInv, WaitingInv, QueuedInv, UnsentInv
<1>2. Segs[m] \in Nat \ {0}
  BY LinkAssumption
<1>3. /\ ~Waiting(m)' /\ ~Queued(m)' /\ written'[m] > 0 /\ Reports(m)' = {}
      /\ session'[m] = Opened /\ outcome'[m] = NoOutcome
  BY <1>1, <1>2, WaitSameNext DEF SubmittedAt, RecordSame
<1>4. OpenOf(m)' # {}
  <2>1. PICK l \in Links : OpenOf(m)' = OpenOf(m) \cup ({l} \X SegsOf(m))
    BY DEF SubmittedAt
  <2>2. <<m, 1>> \in SegsOf(m)
    BY <1>2 DEF SegsOf
  <2>3. <<l, <<m, 1>>>> \in {l} \X SegsOf(m)
    BY <2>2
  <2>4. QED
    BY <2>1, <2>3
<1>5. Opened.open /\ NoOutcome.reback = 0
  BY DEF Opened, NoSession, NoOutcome
<1>6. QED
  BY <1>3, <1>4, <1>5 DEF SmsInv, WaitingInv, QueuedInv, UnsentInv, HeardInv,
                          RefusalInv, BackInv, LocatedInv

LEMMA SmsStepInv ==
    ASSUME PoolTyped, PoolTyped', LinkTyped, LiveInv, \A m \in Sms : SmsInv(m), SmsStep,
           poolLive' => poolLive
    PROVE  \A m \in Sms : SmsInv(m)'
<1>1. RecordTyped /\ RecordTyped'
  BY DEF PoolTyped
<1> TAKE m \in Sms
<1>2. CASE LinkSide(m)
  BY <1>2, IdleInv, EndedOfInv, RefusedAtInv DEF LinkSide
<1>3. CASE PoolSide(m) \/ SubmittedAt(m)
  BY <1>1, <1>3, MovedInv, HandedOverInv, SentBackInv, InterceptedInv, DiscardedInv,
     HeardSmsInv, SubmittedAtInv DEF PoolSide
<1>4. QED
  BY <1>2, <1>3 DEF SmsStep, LinkSide

-----------------------------------------------------------------------------
(* Each action as steps of the SMS.                                        *)
SessionsAlone ==
    UNCHANGED <<packetDB, wire, written, reported, dropped, cq>>

LEMMA SessionsAloneSame ==
    SessionsAlone => /\ \A m : (Queued(m)' <=> Queued(m)) /\ SentSame(m)
                     /\ UNCHANGED statusQ => \A m : Reports(m)' = Reports(m)
BY DEF SessionsAlone, Queued, InQueue, SentSame, OpenOf, WireOf, Pairs, Reports

LEMMA SessionsAloneInv == SessInv /\ SessionsAlone => SessInv'
<1>1. SessionsAlone => SessionsKept
  BY DEF SessionsAlone, SessionsKept, WireShrinks
<1>2. QED
  BY <1>1, KeptInv

LEMMA LinksAloneSessions == LinksAlone => SessionsAlone /\ UNCHANGED statusQ
BY DEF LinksAlone, SessionsAlone, conn_vars, sess_vars

LEMMA AuditAlone == UNCHANGED audit => \A m : InAudit(m)' <=> InAudit(m)
BY DEF InAudit

Progress == SmsStep /\ PoolOnce' /\ SessInv'

(* Nothing happens to any SMS.                                             *)
LEMMA NoProgress ==
    ASSUME SessInv, PoolOnce, SessionsAlone,
           UNCHANGED <<broker, audit, poolQ, session, outcome, statusQ>>
    PROVE  Progress
<1>1. \A m \in Sms : Idle(m)
  BY SessionsAloneSame, AuditAlone DEF Idle, WaitSame, InPoolQueue, RecordSame, LinksSame
<1>2. SmsStep
  BY <1>1 DEF SmsStep, LinkSide
<1>3. PoolOnce'
  BY DEF PoolOnce
<1>4. QED
  BY <1>2, <1>3, SessionsAloneInv DEF Progress

(* The consumer hands an SMS over.                                         *)
LEMMA ConsumedProgress ==
    ASSUME PoolTyped, SessInv, PoolOnce, SessionsAlone, NEW m \in broker, SmsInv(m),
           broker' = broker \ {m}, poolQ' = Append(poolQ, ReqMsg(m)),
           UNCHANGED <<audit, session, outcome, statusQ>>
    PROVE  Progress
<1>0. m \in Sms /\ poolQ \in Seq(PoolMsg) /\ ReqMsg(m) \in PoolMsg
  BY SmsMsgTyped DEF PoolTyped
<1>1. IsSms(ReqMsg(m)) /\ ReqMsg(m).sms = m
  BY DEF IsSms, ReqMsg
<1>2. Waiting(m) /\ ~InPoolQueue(m) /\ ~InAudit(m)
  BY DEF Waiting, SmsInv, WaitingInv, WaitsOnce
<1>3. \A n : InPoolQueue(n)' <=> InPoolQueue(n) \/ n = m
  <2>1. \A n : Holds(poolQ', n) <=> Holds(poolQ, n) \/ n = m
    BY <1>0, <1>1, AppendHolds
  <2>2. \A n : InPoolQueue(n)' <=> Holds(poolQ', n)
    BY DEF InPoolQueue, Holds, IsSms
  <2>3. QED
    BY <2>1, <2>2, QueueHolds
<1>4. PoolOnce'
  <2>1. ~Holds(poolQ, m)
    BY <1>2, QueueHolds
  <2>2. OnceIn(Append(poolQ, ReqMsg(m)))
    BY <1>0, <1>1, <2>1, AppendHolds DEF PoolOnce
  <2>3. QED
    BY <2>2 DEF PoolOnce
<1>5. \A n \in Sms : LinksSame(n) /\ RecordSame(n)
  BY SessionsAloneSame DEF RecordSame, LinksSame
<1>6. Moved(m)
  <2>1. Waiting(m)' /\ WaitsOnce(m)'
    BY <1>2, <1>3, AuditAlone DEF Waiting, WaitsOnce
  <2>2. QED
    BY <1>0, <1>2, <1>5, <2>1 DEF Moved
<1>7. \A n \in Sms \ {m} : Idle(n)
  BY <1>3, <1>5, AuditAlone DEF Idle, WaitSame
<1>8. SmsStep
  BY <1>0, <1>6, <1>7 DEF SmsStep, PoolSide
<1>9. QED
  BY <1>4, <1>8, SessionsAloneInv DEF Progress

LEMMA MqProgress ==
    ASSUME PoolTyped, SessInv, PoolOnce, \A m \in Sms : SmsInv(m), MqStep
    PROVE  Progress
<1>1. SessionsAlone /\ UNCHANGED <<audit, session, outcome, statusQ>>
  BY DEF MqStep, SessionsAlone, conn_vars, sess_vars
<1>2. \/ UNCHANGED <<broker, poolQ>>
      \/ \E m \in broker : broker' = broker \ {m} /\ poolQ' = Append(poolQ, ReqMsg(m))
  <2>1. ASSUME NEW m \in Sms, MqConsume(m)
        PROVE  <1>2
    <3>1. m \in broker
      BY <2>1 DEF MqConsume, Available
    <3>2. QED
      BY <2>1, <3>1 DEF MqConsume
  <2>2. ASSUME NEW m \in Sms, MqRelease(m)
        PROVE  <1>2
    <3>1. m \in broker
      BY <2>2 DEF MqRelease, PoolTyped
    <3>2. QED
      BY <2>2, <3>1 DEF MqRelease
  <2>3. ASSUME MqReconnect \/ \E m \in Sms : MqBlock(m) \/ MqAckFails(m)
        PROVE  <1>2
    BY <2>3 DEF MqReconnect, MqBlock, MqAckFails
  <2>4. QED
    BY <2>1, <2>2, <2>3 DEF MqStep, MqDeliver
<1>3. CASE UNCHANGED <<broker, poolQ>>
  BY <1>1, <1>3, NoProgress
<1>4. ASSUME NEW m \in broker, broker' = broker \ {m},
             poolQ' = Append(poolQ, ReqMsg(m))
      PROVE  Progress
  <2>1. SmsInv(m)
    BY DEF PoolTyped
  <2>2. QED
    BY <1>1, <1>4, <2>1, ConsumedProgress
<1>5. QED
  BY <1>2, <1>3, <1>4

(* The pool has m in hand, and q is what is left of its queue.             *)
InHand(m, q) ==
    /\ Waiting(m) /\ m \notin broker
    /\ q \in Seq(PoolMsg) /\ OnceIn(q) /\ ~Holds(q, m)
    /\ \A n \in Sms \ {m} : Holds(q, n) <=> InPoolQueue(n)
    /\ ~InAudit(m)'
    /\ \A n \in Sms \ {m} : InAudit(n)' <=> InAudit(n)
    /\ OneCopy(audit')

LEMMA HoldsNext == \A n : InPoolQueue(n)' <=> Holds(poolQ', n)
BY DEF InPoolQueue, Holds, IsSms

LEMMA SendProgress ==
    ASSUME PoolTyped, LinkTyped, SessInv, NEW m \in Sms, SmsInv(m), NEW times \in Nat,
           NEW q, InHand(m, q), HandleDirectSendMsg(m, times, q)
    PROVE  Progress
<1>0. /\ Waiting(m) /\ m \notin broker /\ ~InAudit(m)'
      /\ q \in Seq(PoolMsg) /\ OnceIn(q) /\ ~Holds(q, m)
      /\ \A n \in Sms \ {m} : (Holds(q, n) <=> InPoolQueue(n))
                              /\ (InAudit(n)' <=> InAudit(n))
      /\ OneCopy(audit')
  BY DEF InHand
<1>1. /\ UNCHANGED <<packetDB, wire, written, reported, dropped, statusQ, broker>>
  BY DEF HandleDirectSendMsg, conn_vars, sess_vars, mq_vars
<1>2. \A n : SentSame(n) /\ Reports(n)' = Reports(n)
  BY <1>1 DEF SentSame, OpenOf, WireOf, Pairs, Reports
<1>3. ASSUME poolQ' = q
      PROVE  /\ Leaves(m) /\ PoolOnce'
             /\ \A n \in Sms \ {m} : WaitSame(n)
  <2>1. \A n : InPoolQueue(n)' <=> Holds(q, n)
    BY <1>3, HoldsNext
  <2>2. Leaves(m)
    BY <1>0, <1>1, <2>1 DEF Leaves, Waiting
  <2>3. PoolOnce'
    BY <1>0, <1>3 DEF PoolOnce
  <2>4. \A n \in Sms \ {m} : WaitSame(n)
    BY <1>0, <1>1, <2>1 DEF WaitSame
  <2>5. QED
    BY <2>2, <2>3, <2>4
<1>4. ASSUME UNCHANGED cq
      PROVE  /\ SessInv' /\ \A n : LinksSame(n)
  <2>1. SessionsAlone
    BY <1>1, <1>4 DEF SessionsAlone
  <2>2. QED
    BY <1>1, <2>1, SessionsAloneInv, SessionsAloneSame DEF LinksSame
<1>5. ASSUME NEW l \in Links, SendToLink(l, m), poolQ' = q
      PROVE  Progress
  <2>1. /\ chan[l] = "live" /\ PostChannelMsg(l, m) /\ UNCHANGED outcome
        /\ session' = [session EXCEPT ![m] = Opened]
    BY <1>5 DEF SendToLink, FlowNormal, Opened
  <2>2. cq \in [Links -> Seq(Sms)]
    BY DEF LinkTyped, QueueTypeOK
  <2>3. written[m] = 0 /\ \A k \in Links : ~InQueue(k, m)
    BY <1>0 DEF SmsInv, WaitingInv, Queued
  <2>4. SessInv'
    BY <1>1, <2>1, <2>2, <2>3, PostedInv
  <2>5. /\ \A k \in Links : k # l => cq'[k] = cq[k]
        /\ cq'[l] = Append(cq[l], m)
    BY <2>1, <2>2 DEF PostChannelMsg
  <2>6. \A n : InQueue(l, n)' <=> InQueue(l, n) \/ n = m
    <3> DEFINE c == cq[l]
    <3>1. c \in Seq(Sms) /\ cq'[l] = Append(c, m)
      BY <2>2, <2>5
    <3>2. \A n : InQueue(l, n) <=> \E i \in 1 .. Len(c) : c[i] = n
      BY DEF InQueue
    <3> HIDE DEF c
    <3>3. /\ Len(cq'[l]) = Len(c) + 1 /\ cq'[l][Len(c) + 1] = m /\ Len(c) \in Nat
          /\ \A i \in 1 .. Len(c) : cq'[l][i] = c[i]
      BY <3>1
    <3>4. \A n : (\E i \in 1 .. Len(cq'[l]) : cq'[l][i] = n)
                    <=> (\E i \in 1 .. Len(c) : c[i] = n) \/ n = m
      BY <3>3
    <3>5. QED
      BY <3>2, <3>4 DEF InQueue
  <2>7. \A k \in Links : k # l => \A n : InQueue(k, n)' <=> InQueue(k, n)
    BY <2>5 DEF InQueue
  <2>8. Queued(m)' /\ \A n : n # m => (Queued(n)' <=> Queued(n))
    BY <2>6, <2>7 DEF Queued
  <2>9. session'[m] = Opened /\ \A n \in Sms \ {m} : session'[n] = session[n]
    BY <2>1 DEF PoolTyped, RecordTyped
  <2>10. HandedOver(m)
    BY <1>2, <1>3, <1>5, <2>1, <2>8, <2>9 DEF HandedOver
  <2>11. \A n \in Sms \ {m} : Idle(n)
    BY <1>2, <1>3, <1>5, <2>1, <2>8, <2>9 DEF Idle, RecordSame, LinksSame
  <2>12. QED
    BY <1>3, <1>5, <2>4, <2>10, <2>11 DEF Progress, SmsStep, PoolSide
<1>6. ASSUME SendToNone(m, times, q)
      PROVE  Progress
  <2>0. UNCHANGED cq
    BY <1>6 DEF SendToNone
  <2>1. CASE times + 1 >= MaxSendTimes
    <3>1. /\ session' = [session EXCEPT ![m] = Opened] /\ poolQ' = q
          /\ outcome' = [outcome EXCEPT ![m]["reback"] = @ + 1]
      BY <1>6, <2>1 DEF SendToNone, Outcome, Opened
    <3>2. /\ session'[m] = Opened
          /\ outcome'[m] = [outcome[m] EXCEPT !.reback = @ + 1]
          /\ \A n \in Sms \ {m} : RecordSame(n)
      BY <3>1 DEF PoolTyped, RecordTyped, RecordSame
    <3>3. SentBack(m) /\ \A n \in Sms \ {m} : Idle(n)
      BY <1>3, <1>4, <2>0, <3>1, <3>2 DEF SentBack, Idle
    <3>4. QED
      BY <1>3, <1>4, <2>0, <3>1, <3>3 DEF Progress, SmsStep, PoolSide
  <2>2. CASE ~(times + 1 >= MaxSendTimes)
    <3> DEFINE msg == DispatchMsg(m, times + 1)
    <3>1. poolQ' = Append(q, msg) /\ UNCHANGED <<session, outcome>>
      BY <1>6, <2>2 DEF SendToNone
    <3>2. msg \in PoolMsg /\ IsSms(msg) /\ msg.sms = m
      BY SmsMsgTyped DEF IsSms, DispatchMsg
    <3> HIDE DEF msg
    <3>3. /\ \A n : Holds(poolQ', n) <=> Holds(q, n) \/ n = m
          /\ OnceIn(poolQ')
      BY <1>0, <3>1, <3>2, AppendHolds
    <3>4. \A n : InPoolQueue(n)' <=> Holds(q, n) \/ n = m
      BY <3>3, HoldsNext
    <3>5. PoolOnce'
      BY <1>0, <3>3 DEF PoolOnce
    <3>6. Waiting(m)' /\ WaitsOnce(m)'
      BY <1>0, <1>1, <3>4 DEF Waiting, WaitsOnce
    <3>7. \A n : RecordSame(n)
      BY <3>1 DEF RecordSame
    <3>8. Moved(m)
      BY <1>0, <1>4, <2>0, <3>6, <3>7 DEF Moved
    <3>9. \A n \in Sms \ {m} : Idle(n)
      BY <1>0, <1>1, <1>4, <2>0, <3>4, <3>7 DEF Idle, WaitSame
    <3>10. QED
      BY <1>4, <2>0, <3>5, <3>8, <3>9 DEF Progress, SmsStep, PoolSide
  <2>3. QED
    BY <2>1, <2>2
<1>7. CASE ~poolLive
  <2>1. poolQ' = q /\ UNCHANGED <<cq, session, outcome>>
    BY <1>7 DEF HandleDirectSendMsg
  <2>2. \A n : RecordSame(n)
    BY <2>1 DEF RecordSame
  <2>3. Discarded(m) /\ \A n \in Sms \ {m} : Idle(n)
    BY <1>3, <1>4, <1>7, <2>1, <2>2 DEF Discarded, Idle
  <2>4. QED
    BY <1>3, <1>4, <2>1, <2>3 DEF Progress, SmsStep, PoolSide
<1>8. QED
  BY <1>5, <1>6, <1>7 DEF HandleDirectSendMsg

(* A REQ or DISPATCH taken from the queue.                                 *)
LEMMA TakenInHand ==
    ASSUME PoolTyped, PoolOnce, NEW t \in {"REQ", "DISPATCH"}, PoolTakes(t),
           \A m \in Sms : SmsInv(m)
    PROVE  LET m == Head(poolQ).sms
           IN  /\ m \in Sms /\ Head(poolQ).times \in Nat
               /\ Waiting(m) /\ m \notin broker /\ ~InAudit(m)
               /\ Tail(poolQ) \in Seq(PoolMsg) /\ OnceIn(Tail(poolQ))
               /\ ~Holds(Tail(poolQ), m)
               /\ \A n \in Sms \ {m} : Holds(Tail(poolQ), n) <=> InPoolQueue(n)
<1> DEFINE msg == Head(poolQ)
           m == msg.sms
<1>1. /\ m \in Sms /\ msg.times \in Nat /\ Tail(poolQ) \in Seq(PoolMsg)
  BY TakenTyped DEF PoolTyped
<1>2. IsSms(msg) /\ poolQ # <<>> /\ poolQ \in Seq(PoolMsg)
  BY DEF PoolTakes, IsSms, PoolTyped
<1>3. /\ OnceIn(Tail(poolQ))
      /\ \A n : Holds(Tail(poolQ), n) <=> Holds(poolQ, n) /\ n # m
  BY <1>2, TailHolds DEF PoolOnce
<1>4. Holds(poolQ, m)
  <2>1. 1 \in 1 .. Len(poolQ) /\ Head(poolQ) = poolQ[1]
    BY <1>2
  <2>2. QED
    BY <1>2, <2>1 DEF Holds
<1>5. InPoolQueue(m)
  BY <1>4, QueueHolds
<1>6. Waiting(m) /\ m \notin broker /\ ~InAudit(m)
  BY <1>1, <1>5 DEF Waiting, SmsInv, WaitingInv, WaitsOnce
<1> HIDE DEF m
<1>7. \A n \in Sms \ {m} : Holds(Tail(poolQ), n) <=> InPoolQueue(n)
  BY <1>3, QueueHolds
<1>8. QED
  BY <1>1, <1>3, <1>6, <1>7 DEF m

(* The pool has m alone in hand; it waits for redis.                       *)
LEMMA AuditedProgress ==
    ASSUME PoolTyped, SessInv, PoolOnce, NEW m \in Sms, NEW q, Waiting(m),
           m \notin broker, ~InAudit(m), OnceIn(q), ~Holds(q, m),
           \A n \in Sms \ {m} : Holds(q, n) <=> InPoolQueue(n),
           NEW msg \in SmsMsg, msg.sms = m, audit' = audit \cup {msg}, poolQ' = q,
           SessionsAlone, UNCHANGED <<broker, session, outcome, statusQ>>
    PROVE  Progress
<1>1. \A n : InPoolQueue(n)' <=> Holds(q, n)
  BY HoldsNext
<1>2. \A n : InAudit(n)' <=> InAudit(n) \/ n = m
  BY DEF InAudit
<1>3. PoolOnce'
  BY DEF PoolOnce, OneCopy, InAudit
<1>4. \A n : RecordSame(n) /\ LinksSame(n)
  BY SessionsAloneSame DEF RecordSame, LinksSame
<1>5. Moved(m)
  BY <1>1, <1>2, <1>4 DEF Moved, Waiting, WaitsOnce
<1>6. \A n \in Sms \ {m} : Idle(n)
  BY <1>1, <1>2, <1>4 DEF Idle, WaitSame
<1>7. QED
  BY <1>3, <1>5, <1>6, SessionsAloneInv DEF Progress, SmsStep, PoolSide

(* The answer of redis: the copy goes, and with it the SMS from the audit. *)
LEMMA CopyGone ==
    ASSUME PoolTyped, PoolOnce, \A m \in Sms : SmsInv(m), NEW msg \in audit,
           audit' = audit \ {msg}
    PROVE  LET m == msg.sms
           IN  /\ m \in Sms /\ msg.times \in Nat
               /\ Waiting(m) /\ m \notin broker /\ ~InPoolQueue(m)
               /\ ~InAudit(m)' /\ OneCopy(audit')
               /\ \A n \in Sms \ {m} : InAudit(n)' <=> InAudit(n)
<1>1. msg.sms \in Sms /\ msg.times \in Nat /\ InAudit(msg.sms)
  BY DEF PoolTyped, SmsMsg, InAudit
<1>2. /\ ~InAudit(msg.sms)' /\ OneCopy(audit')
      /\ \A n \in Sms \ {msg.sms} : InAudit(n)' <=> InAudit(n)
  BY DEF PoolOnce, OneCopy, InAudit
<1>3. Waiting(msg.sms) /\ msg.sms \notin broker /\ ~InPoolQueue(msg.sms)
  BY <1>1 DEF Waiting, SmsInv, WaitingInv, WaitsOnce
<1>4. QED
  BY <1>1, <1>2, <1>3

LEMMA SendingProgress ==
    ASSUME PoolTyped, LinkTyped, SessInv, PoolOnce, \A m \in Sms : SmsInv(m), Sending
    PROVE  Progress
<1>1. CASE ProcessChannelReq \/ Redispatch
  <2> DEFINE q == Tail(poolQ)
  <2>1. PICK t \in {"REQ", "DISPATCH"} : PoolTakes(t) /\ Directed(Head(poolQ).sms)
    BY <1>1, TakenDirected DEF PoolTyped
  <2>2. PICK m \in Sms : m = Head(poolQ).sms
    BY <2>1, TakenInHand
  <2>3. /\ Waiting(m) /\ m \notin broker /\ ~InAudit(m)
        /\ q \in Seq(PoolMsg) /\ OnceIn(q) /\ ~Holds(q, m)
        /\ \A n \in Sms \ {m} : Holds(q, n) <=> InPoolQueue(n)
    BY <2>1, <2>2, TakenInHand
  <2>4. ASSUME NEW n \in Nat, HandleDirectSendMsg(m, n, q), UNCHANGED audit
        PROVE  Progress
    <3> HIDE DEF q
    <3>1. OneCopy(audit')
      BY <2>4 DEF PoolOnce
    <3>2. InHand(m, q)
      BY <2>3, <2>4, <3>1, AuditAlone DEF InHand
    <3>3. QED
      BY <2>4, <3>2, SendProgress
  <2>5. ASSUME NEW msg \in SmsMsg, msg.sms = m, GetSendAuditInterceptRedis(msg)
        PROVE  Progress
    <3>1. /\ audit' = audit \cup {msg} /\ poolQ' = q
          /\ SessionsAlone /\ UNCHANGED <<broker, session, outcome, statusQ>>
      BY <2>5 DEF GetSendAuditInterceptRedis, mq_vars, SessionsAlone, conn_vars, sess_vars
    <3> HIDE DEF q
    <3>2. QED
      BY <2>3, <2>5, <3>1, AuditedProgress
  <2>6. Directed(m)
    BY <2>1, <2>2
  <2>7. QED
    BY <2>4, <2>5, <2>6 DEF Directed
<1>2. ASSUME NEW msg \in audit, AuditPasses(msg)
      PROVE  Progress
  <2>1. audit' = audit \ {msg} /\ HandleDirectSendMsg(msg.sms, msg.times, poolQ)
    BY <1>2 DEF AuditPasses
  <2>2. PICK m \in Sms, times \in Nat : m = msg.sms /\ times = msg.times
    BY <2>1, CopyGone
  <2>3. /\ Waiting(m) /\ m \notin broker /\ ~InPoolQueue(m)
        /\ ~InAudit(m)' /\ OneCopy(audit')
        /\ \A n \in Sms \ {m} : InAudit(n)' <=> InAudit(n)
    BY <2>1, <2>2, CopyGone
  <2>4. InHand(m, poolQ)
    BY <2>3, QueueHolds DEF InHand, PoolOnce, PoolTyped
  <2>5. QED
    BY <2>1, <2>2, <2>4, SendProgress
<1>3. ASSUME NEW msg \in audit, AuditIntercepts(msg)
      PROVE  Progress
  <2>1. /\ audit' = audit \ {msg} /\ Outcome(msg.sms, "audit")
        /\ SessionsAlone /\ UNCHANGED <<broker, poolQ, session, statusQ>>
    BY <1>3 DEF AuditIntercepts, link_vars, mq_vars, SessionsAlone, conn_vars, sess_vars
  <2>2. PICK m \in Sms : m = msg.sms
    BY <2>1, CopyGone
  <2>3. /\ Waiting(m) /\ m \notin broker /\ ~InPoolQueue(m)
        /\ ~InAudit(m)' /\ OneCopy(audit')
        /\ \A n \in Sms \ {m} : InAudit(n)' <=> InAudit(n)
    BY <2>1, <2>2, CopyGone
  <2>4. \A n : InPoolQueue(n)' <=> InPoolQueue(n)
    BY <2>1 DEF InPoolQueue
  <2>5. \A n : LinksSame(n)
    BY <2>1, SessionsAloneSame DEF LinksSame
  <2>6. /\ outcome'[m] = [outcome[m] EXCEPT !.audit = @ + 1]
        /\ \A n \in Sms \ {m} : outcome'[n] = outcome[n]
    BY <2>1, <2>2 DEF Outcome, PoolTyped, RecordTyped
  <2>7. Intercepted(m)
    BY <2>1, <2>3, <2>4, <2>5, <2>6 DEF Intercepted, Leaves, Waiting
  <2>8. \A n \in Sms \ {m} : Idle(n)
    BY <2>1, <2>3, <2>4, <2>5, <2>6 DEF Idle, WaitSame, RecordSame
  <2>9. PoolOnce'
    BY <2>1, <2>3 DEF PoolOnce
  <2>10. QED
    BY <2>1, <2>7, <2>8, <2>9, SessionsAloneInv DEF Progress, SmsStep, PoolSide
<1>4. QED
  BY <1>1, <1>2, <1>3 DEF Sending

LEMMA NoticeProgress ==
    ASSUME PoolTyped, SessInv, PoolOnce,
           HandleChannelLoginStateMsg \/ HandleTimeOutResetSlideWindowMsg
    PROVE  Progress
<1>1. /\ poolQ' = Tail(poolQ) /\ poolQ # <<>> /\ ~IsSms(Head(poolQ))
      /\ SessionsAlone /\ UNCHANGED <<broker, audit, session, outcome, statusQ>>
  BY DEF HandleChannelLoginStateMsg, HandleTimeOutResetSlideWindowMsg, PoolTakes, IsSms,
         SessionsAlone, mq_vars, conn_vars, sess_vars
<1>2. /\ OnceIn(poolQ')
      /\ \A m : Holds(poolQ', m) <=> Holds(poolQ, m)
  BY <1>1, TailHolds DEF PoolTyped, PoolOnce
<1>3. \A m : Idle(m)
  BY <1>1, <1>2, HoldsNext, QueueHolds, SessionsAloneSame, AuditAlone
     DEF Idle, WaitSame, RecordSame, LinksSame
<1>4. PoolOnce'
  BY <1>1, <1>2 DEF PoolOnce
<1>5. QED
  BY <1>1, <1>3, <1>4, SessionsAloneInv DEF Progress, SmsStep, LinkSide

LEMMA StatusProgress ==
    ASSUME PoolTyped, LinkTyped, SessInv, PoolOnce, NEW r \in statusQ,
           SmsTxChannelSendStatusReport(r)
    PROVE  Progress
<1>0. SmsOf(r.seg) \in Sms /\ r.status \in Status
  BY ReportTyped
<1>1. PICK m \in Sms : m = SmsOf(r.seg)
  BY <1>0
<1>2. /\ SessionsAlone /\ UNCHANGED <<broker, audit, poolQ>>
      /\ statusQ' = statusQ \ {r}
  BY DEF SmsTxChannelSendStatusReport, mq_vars, SessionsAlone, conn_vars
<1>3. \A n : /\ WaitSame(n) /\ (Queued(n)' <=> Queued(n)) /\ SentSame(n)
             /\ Reports(n)' = Reports(n) \ {r}
  BY <1>2, SessionsAloneSame, AuditAlone DEF WaitSame, InPoolQueue, Reports
<1>4. r \in Reports(m) /\ \A n \in Sms \ {m} : Reports(n)' = Reports(n)
  BY <1>1, <1>3 DEF Reports
<1>5. StatusRecords(r)
  BY <1>0, StatusEffect
<1>6. /\ Heard(m, r) /\ \A n \in Sms \ {m} : RecordSame(n)
  <2>1. CASE session[m].open
    <3>1. PICK k \in {"reback", "fail", "succ"} :
             /\ Outcome(m, k)
             /\ k = "reback" <=> r.status = "SOCKET_ERR"
      BY <1>1, <1>5, <2>1 DEF StatusRecords
    <3>2. session' = [session EXCEPT ![m] =
              IF session[m].recv + 1 = r.total THEN NoSession
              ELSE [open |-> TRUE, recv |-> session[m].recv + 1, total |-> r.total]]
      BY <1>1, <1>5, <2>1 DEF StatusRecords
    <3>3. /\ outcome'[m] = [outcome[m] EXCEPT ![k] = @ + 1]
          /\ \A n \in Sms \ {m} : outcome'[n] = outcome[n]
      BY <3>1 DEF Outcome, PoolTyped, RecordTyped
    <3>4. /\ session'[m] = IF session[m].recv + 1 = r.total THEN NoSession
                           ELSE [open |-> TRUE, recv |-> session[m].recv + 1,
                                 total |-> r.total]
          /\ \A n \in Sms \ {m} : session'[n] = session[n]
      BY <3>2 DEF PoolTyped, RecordTyped
    <3>5. Heard(m, r)
      BY <1>3, <1>4, <2>1, <3>1, <3>3, <3>4 DEF Heard
    <3>6. QED
      BY <3>3, <3>4, <3>5 DEF RecordSame
  <2>2. CASE ~session[m].open
    <3>1. UNCHANGED <<session, outcome>>
      BY <1>1, <1>5, <2>2 DEF StatusRecords
    <3>2. QED
      BY <1>3, <1>4, <2>2, <3>1 DEF Heard, RecordSame
  <2>3. QED
    BY <2>1, <2>2
<1>7. \A n \in Sms \ {m} : Idle(n)
  BY <1>3, <1>4, <1>6 DEF Idle, LinksSame
<1>8. PoolOnce'
  BY <1>2 DEF PoolOnce
<1>9. QED
  BY <1>2, <1>6, <1>7, <1>8, SessionsAloneInv DEF Progress, SmsStep, PoolSide

LEMMA ConfigProgress ==
    ASSUME SessInv, PoolOnce,
           \/ SysnSlideWndFromChannel \/ DeleteChannel \/ UNCHANGED tx_vars
           \/ \E n \in Sliders : UpdateSlider(n)
    PROVE  Progress
<1>1. SessionsAlone /\ UNCHANGED <<broker, audit, poolQ, session, outcome, statusQ>>
  BY DEF SysnSlideWndFromChannel, DeleteChannel, UpdateSlider, tx_vars, pool_vars,
         link_vars, mq_vars, SessionsAlone, conn_vars, sess_vars
<1>2. QED
  BY <1>1, NoProgress

-----------------------------------------------------------------------------
(* The links.                                                              *)
LEMMA LinkWaits ==
    ASSUME PoolTyped, LinkTyped, PoolOnce, NEW l \in Links, LinkStep(l),
           UNCHANGED pool_vars
    PROVE  PoolOnce' /\ \A m : WaitSame(m) /\ RecordSame(m)
<1>1. \/ poolQ' = poolQ
      \/ \E msg \in LoginMsg \cup ResetMsg : poolQ' = Append(poolQ, msg)
  BY LinkStepNotifies DEF Notified
<1>2. OnceIn(poolQ') /\ \A m : Holds(poolQ', m) <=> Holds(poolQ, m)
  <2>1. CASE poolQ' = poolQ
    BY <2>1 DEF PoolOnce
  <2>2. ASSUME NEW msg \in LoginMsg \cup ResetMsg, poolQ' = Append(poolQ, msg)
        PROVE  <1>2
    <3>1. msg \in PoolMsg /\ ~IsSms(msg)
      BY DEF PoolMsg, LoginMsg, ResetMsg, IsSms
    <3>2. QED
      BY <2>2, <3>1, AppendHolds DEF PoolTyped, PoolOnce
  <2>3. QED
    BY <1>1, <2>1, <2>2
<1>3. \A m : InPoolQueue(m)' <=> InPoolQueue(m)
  BY <1>2, HoldsNext, QueueHolds
<1>4. QED
  BY <1>2, <1>3, AuditAlone DEF PoolOnce, WaitSame, RecordSame, pool_vars

LEMMA EndedProgress ==
    ASSUME LinkTyped, NEW l \in Links, NEW S \in SUBSET packetDB[l],
           NEW R \in SUBSET S, NEW st \in Status \ Refusal, Ended(l, S, R, st),
           \A m : WaitSame(m) /\ RecordSame(m)
    PROVE  \A m \in Sms : EndedOf(m)
<1> TAKE m \in Sms
<1>1. /\ packetDB' = [packetDB EXCEPT ![l] = @ \ S] /\ UNCHANGED <<written, cq>>
      /\ \A k \in Links : wire'[k] \subseteq wire[k]
      /\ statusQ' = statusQ \cup {ReportOn(s, st) : s \in R}
      /\ R = S \/ chan[l] = "closing"
  BY DEF Ended, SessionsEnd, WireShrinks
<1>2. packetDB \in [Links -> SUBSET Seg]
  BY DEF LinkTyped, SessTypeOK
<1>3. /\ packetDB'[l] = packetDB[l] \ S
      /\ \A k \in Links \ {l} : packetDB'[k] = packetDB[k]
  BY <1>1, <1>2
<1>4. Queued(m)' <=> Queued(m)
  BY <1>1 DEF Queued, InQueue
<1>5. /\ OpenOf(m)' \subseteq OpenOf(m) /\ WireOf(m)' \subseteq WireOf(m)
      /\ \A x \in OpenOf(m) : x \notin OpenOf(m)' => x[1] = l /\ x[2] \in S
  <2>1. \A k \in Links : packetDB'[k] \subseteq packetDB[k]
    BY <1>3
  <2>2. OpenOf(m)' \subseteq OpenOf(m) /\ WireOf(m)' \subseteq WireOf(m)
    BY <1>1, <2>1 DEF OpenOf, WireOf, Pairs, Of
  <2>3. ASSUME NEW x \in OpenOf(m), x \notin OpenOf(m)'
        PROVE  x[1] = l /\ x[2] \in S
    <3>1. /\ x \in Links \X Seg /\ x[2] \in packetDB[x[1]] /\ SmsOf(x[2]) = m
          /\ x[1] \in Links /\ x[2] \in Seg
      BY <2>3 DEF OpenOf, Pairs, Of
    <3>2. ~(x[2] \in packetDB'[x[1]])
      BY <2>3, <3>1 DEF OpenOf, Pairs, Of
    <3>3. QED
      BY <1>3, <3>1, <3>2
  <2>4. QED
    BY <2>2, <2>3
<1>6. DEFINE N == Of(R, m)
<1>7. /\ N \in SUBSET Seg
      /\ Reports(m)' = Reports(m) \cup {ReportOn(s, st) : s \in N}
      /\ reported'[m] = reported[m] + Cardinality(N)
      /\ \A s \in N : SmsOf(s) = m /\ \E x \in OpenOf(m) \ OpenOf(m)' : x[2] = s
  <2>1. N \in SUBSET Seg /\ reported'[m] = reported[m] + Cardinality(N)
    BY <1>2 DEF Of, Ended
  <2>2. \A s \in R : SmsOf(ReportOn(s, st).seg) = m <=> s \in N
    BY DEF ReportOn, Of
  <2>3. Reports(m)' = Reports(m) \cup {ReportOn(s, st) : s \in N}
    <3>1. N \subseteq R
      BY DEF Of
    <3> HIDE DEF N
    <3>2. QED
      BY <1>1, <2>2, <3>1 DEF Reports
  <2>4. ASSUME NEW s \in N
        PROVE  SmsOf(s) = m /\ \E x \in OpenOf(m) \ OpenOf(m)' : x[2] = s
    <3>1. s \in R /\ s \in Seg /\ SmsOf(s) = m /\ s \in packetDB[l] /\ s \notin packetDB'[l]
      BY <1>2, <1>3 DEF Of
    <3>2. <<l, s>> \in OpenOf(m) /\ <<l, s>> \notin OpenOf(m)'
      BY <3>1 DEF OpenOf, Pairs, Of
    <3>3. QED
      BY <3>1, <3>2
  <2>5. QED
    BY <2>1, <2>3, <2>4
<1>8. ASSUME OpenOf(m)' # OpenOf(m)
      PROVE  Reports(m)' # {} \/ Closing
  <2>1. CASE chan[l] = "closing"
    BY <2>1 DEF Closing
  <2>2. CASE R = S
    <3>1. PICK x \in OpenOf(m) : x \notin OpenOf(m)'
      BY <1>5, <1>8
    <3>2. x[2] \in R /\ SmsOf(x[2]) = m
      BY <1>5, <2>2, <3>1 DEF OpenOf, Pairs, Of
    <3>3. ReportOn(x[2], st) \in Reports(m)'
      BY <1>1, <3>2 DEF Reports, ReportOn
    <3>4. QED
      BY <3>3
  <2>3. QED
    BY <1>1, <2>1, <2>2
<1>9. QED
  BY <1>1, <1>4, <1>5, <1>7, <1>8 DEF EndedOf

LEMMA ShorterQueued ==
    ASSUME cq \in [Links -> Seq(Sms)], QueuedOnce, NEW l \in Links,
           NEW d \in 1 .. Len(cq[l]), QueueShortens(l, d)
    PROVE  \A m : Queued(m)' <=> Queued(m) /\ ~\E i \in 1 .. d : cq[l][i] = m
<1>1. \A k \in Links : \A i \in 1 .. Len(cq'[k]) :
         /\ \E j \in 1 .. Len(cq[k]) : cq'[k][i] = cq[k][j]
         /\ \A j \in 1 .. d : cq'[k][i] # cq[l][j]
  BY ShorterQueue
<1>2. ASSUME NEW m, Queued(m)'
      PROVE  Queued(m) /\ ~\E i \in 1 .. d : cq[l][i] = m
  BY <1>1, <1>2 DEF Queued, InQueue
<1>3. ASSUME NEW m, Queued(m), ~\E i \in 1 .. d : cq[l][i] = m
      PROVE  Queued(m)'
  <2>1. PICK k \in Links : \E i \in 1 .. Len(cq[k]) : cq[k][i] = m
    BY <1>3 DEF Queued, InQueue
  <2>a. PICK i \in 1 .. Len(cq[k]) : cq[k][i] = m
    BY <2>1
  <2>2. Len(cq[k]) \in Nat /\ Len(cq[l]) \in Nat
    OBVIOUS
  <2>3. CASE k # l
    BY <2>1, <2>3 DEF QueueShortens, Queued, InQueue
  <2>4. CASE k = l
    <3>1. i \notin 1 .. d
      BY <1>3, <2>a, <2>4
    <3>2. i - d \in 1 .. Len(cq[l]) - d /\ (i - d) + d = i
      BY <2>a, <2>2, <2>4, <3>1
    <3>3. /\ cq'[l][i - d] = cq[l][i] /\ Len(cq'[l]) = Len(cq[l]) - d
      <4>1. /\ Len(cq'[l]) = Len(cq[l]) - d
            /\ \A j \in 1 .. Len(cq[l]) - d : cq'[l][j] = cq[l][j + d]
        BY DEF QueueShortens
      <4>2. cq'[l][i - d] = cq[l][(i - d) + d]
        BY <3>2, <4>1
      <4>3. QED
        BY <3>2, <4>1, <4>2
    <3>4. InQueue(l, m)'
      BY <2>a, <2>4, <3>2, <3>3 DEF InQueue
    <3>5. QED
      BY <3>4 DEF Queued
  <2>5. QED
    BY <2>3, <2>4
<1>4. QED
  BY <1>2, <1>3

LEMMA RefusedProgress ==
    ASSUME LinkTyped, QueuedOnce, NEW l \in Links, NEW d \in 1 .. Len(cq[l]),
           NEW st \in Refusal, SmsRefused(l, d),
           statusQ' = statusQ \cup {RefusalOf(cq[l][i], st) : i \in 1 .. d},
           \A m : WaitSame(m) /\ RecordSame(m)
    PROVE  \A m \in Sms : Idle(m) \/ RefusedAt(m)
<1> TAKE m \in Sms
<1>0. cq \in [Links -> Seq(Sms)] /\ Len(cq[l]) \in Nat
      /\ written[m] \in Nat /\ reported[m] \in Nat
  BY DEF LinkTyped, QueueTypeOK, SessTypeOK
<1>1. /\ QueueShortens(l, d) /\ UNCHANGED <<packetDB, dropped, wire>>
      /\ written'[m] = written[m] + Refused1(l, d, m)
      /\ reported'[m] = reported[m] + Refused1(l, d, m)
  BY DEF SmsRefused
<1>2. Queued(m)' <=> Queued(m) /\ ~\E i \in 1 .. d : cq[l][i] = m
  BY <1>0, <1>1, ShorterQueued
<1>3. OpenOf(m)' = OpenOf(m) /\ WireOf(m)' = WireOf(m)
  BY <1>1 DEF OpenOf, WireOf, Pairs
<1>4. \A i \in 1 .. d : SmsOf(RefusalOf(cq[l][i], st).seg) = cq[l][i]
  BY DEF RefusalOf, SmsOf
<1>5. CASE \E i \in 1 .. d : cq[l][i] = m
  <2>1. Queued(m)
    BY <1>0, <1>5 DEF Queued, InQueue
  <2>2. Refused1(l, d, m) = 1
    BY <1>5 DEF Refused1
  <2>3. Reports(m)' = Reports(m) \cup {RefusalOf(m, st)}
    BY <1>4, <1>5 DEF Reports
  <2>4. QED
    BY <1>1, <1>2, <1>3, <1>5, <2>1, <2>2, <2>3 DEF RefusedAt
<1>6. CASE ~\E i \in 1 .. d : cq[l][i] = m
  <2>1. Refused1(l, d, m) = 0
    BY <1>6 DEF Refused1
  <2>2. Reports(m)' = Reports(m)
    BY <1>4, <1>6 DEF Reports
  <2>3. written'[m] = written[m] /\ reported'[m] = reported[m]
    BY <1>0, <1>1, <2>1
  <2>4. QED
    BY <1>1, <1>2, <1>3, <1>6, <2>2, <2>3 DEF Idle, LinksSame, SentSame
<1>7. QED
  BY <1>5, <1>6

LEMMA SubmittedProgress ==
    ASSUME LinkTyped, QueuedOnce, NEW l \in Links, cq[l] # <<>>, SmsSubmitted(l),
           UNCHANGED statusQ, \A m : WaitSame(m) /\ RecordSame(m)
    PROVE  \E m \in Sms : SubmittedAt(m) /\ \A n \in Sms \ {m} : Idle(n)
<1>0. /\ cq \in [Links -> Seq(Sms)] /\ Len(cq[l]) \in Nat /\ 1 \in 1 .. Len(cq[l])
      /\ packetDB \in [Links -> SUBSET Seg] /\ wire \in [Links -> SUBSET Seg]
      /\ written \in [Sms -> Nat]
  BY DEF LinkTyped, QueueTypeOK, SessTypeOK, ConnTypeOK
<1>1. PICK m \in Sms : m = cq[l][1]
  BY <1>0
<1>2. /\ QueueShortens(l, 1) /\ UNCHANGED <<reported, dropped>>
      /\ packetDB' = [packetDB EXCEPT ![l] = @ \cup SegsOf(m)]
      /\ wire' = [wire EXCEPT ![l] = @ \cup SegsOf(m)]
      /\ written' = [written EXCEPT ![m] = @ + Segs[m]]
  BY <1>1 DEF SmsSubmitted
<1>3. \A n : Queued(n)' <=> Queued(n) /\ n # m
  <2>1. \A n : Queued(n)' <=> Queued(n) /\ ~\E i \in 1 .. 1 : cq[l][i] = n
    BY <1>0, <1>2, ShorterQueued
  <2>2. \A n : (\E i \in 1 .. 1 : cq[l][i] = n) <=> n = m
    BY <1>1
  <2>3. QED
    BY <2>1, <2>2
<1>4. Queued(m)
  BY <1>0, <1>1 DEF Queued, InQueue
<1>5. \A s \in SegsOf(m) : s \in Seg /\ SmsOf(s) = m
  <2>1. \A s \in SegsOf(m) : s \in Seg
    BY SegsOfType
  <2>2. \A s \in SegsOf(m) : SmsOf(s) = m
    BY DEF SegsOf, SmsOf
  <2>3. QED
    BY <2>1, <2>2
<1>6. ASSUME NEW db \in [Links -> SUBSET Seg], NEW dc,
             dc = [db EXCEPT ![l] = @ \cup SegsOf(m)]
      PROVE  /\ Pairs(dc, m) = Pairs(db, m) \cup ({l} \X SegsOf(m))
             /\ \A n \in Sms \ {m} : Pairs(dc, n) = Pairs(db, n)
  <2>1. /\ dc[l] = db[l] \cup SegsOf(m)
        /\ \A k \in Links \ {l} : dc[k] = db[k]
    BY <1>6
  <2>2. \A x \in Links \X Seg : x = <<x[1], x[2]>> /\ x[1] \in Links /\ x[2] \in Seg
    OBVIOUS
  <2>3. \A x \in Links \X Seg :
           x[2] \in dc[x[1]] <=> x[2] \in db[x[1]] \/ (x[1] = l /\ x[2] \in SegsOf(m))
    BY <2>1, <2>2
  <2>4. ASSUME NEW n, NEW x \in Links \X Seg
        PROVE  x[2] \in Of(dc[x[1]], n) <=>
                  x[2] \in Of(db[x[1]], n) \/ (n = m /\ x[1] = l /\ x[2] \in SegsOf(m))
    BY <1>5, <2>3 DEF Of
  <2>5. \A x : x \in {l} \X SegsOf(m) <=>
                  x \in Links \X Seg /\ x[1] = l /\ x[2] \in SegsOf(m)
    BY <1>5
  <2>6. QED
    BY <2>4, <2>5 DEF Pairs
<1>7. /\ OpenOf(m)' = OpenOf(m) \cup ({l} \X SegsOf(m))
      /\ WireOf(m)' = WireOf(m) \cup ({l} \X SegsOf(m))
      /\ \A n \in Sms \ {m} : OpenOf(n)' = OpenOf(n) /\ WireOf(n)' = WireOf(n)
  <2>1. /\ Pairs(packetDB', m) = Pairs(packetDB, m) \cup ({l} \X SegsOf(m))
        /\ \A n \in Sms \ {m} : Pairs(packetDB', n) = Pairs(packetDB, n)
    <3>1. PICK db \in [Links -> SUBSET Seg] : db = packetDB
      BY <1>0
    <3>2. PICK dc : dc = packetDB'
      OBVIOUS
    <3>3. dc = [db EXCEPT ![l] = @ \cup SegsOf(m)]
      BY <1>2, <3>1, <3>2
    <3>4. /\ Pairs(dc, m) = Pairs(db, m) \cup ({l} \X SegsOf(m))
          /\ \A n \in Sms \ {m} : Pairs(dc, n) = Pairs(db, n)
      BY <1>6, <3>3
    <3>5. QED
      BY <3>1, <3>2, <3>4
  <2>2. /\ Pairs(wire', m) = Pairs(wire, m) \cup ({l} \X SegsOf(m))
        /\ \A n \in Sms \ {m} : Pairs(wire', n) = Pairs(wire, n)
    <3>1. PICK db \in [Links -> SUBSET Seg] : db = wire
      BY <1>0
    <3>2. PICK dc : dc = wire'
      OBVIOUS
    <3>3. dc = [db EXCEPT ![l] = @ \cup SegsOf(m)]
      BY <1>2, <3>1, <3>2
    <3>4. /\ Pairs(dc, m) = Pairs(db, m) \cup ({l} \X SegsOf(m))
          /\ \A n \in Sms \ {m} : Pairs(dc, n) = Pairs(db, n)
      BY <1>6, <3>3
    <3>5. QED
      BY <3>1, <3>2, <3>4
  <2>3. QED
    BY <2>1, <2>2 DEF OpenOf, WireOf, Pairs
<1>8. \A n : Reports(n)' = Reports(n)
  BY DEF Reports
<1>9. SubmittedAt(m)
  BY <1>0, <1>2, <1>3, <1>4, <1>7, <1>8 DEF SubmittedAt
<1>10. \A n \in Sms \ {m} : Idle(n)
  BY <1>0, <1>2, <1>3, <1>7, <1>8 DEF Idle, LinksSame, SentSame
<1>11. QED
  BY <1>9, <1>10

LEMMA LinkProgress ==
    ASSUME PoolTyped, LinkTyped, LinkTyped', SessInv, PoolOnce, NEW l \in Links,
           LinkStep(l), UNCHANGED pool_vars
    PROVE  Progress
<1>1. PoolOnce' /\ \A m : WaitSame(m) /\ RecordSame(m)
  BY LinkWaits
<1>2. QueuedOnce /\ SessInv'
  BY LinkStepSessions DEF SessInv
<1>3. LinkEffect(l)
  BY <1>2, LinkStepEffect
<1>4. SmsStep
  <2>1. CASE SessionsKept /\ UNCHANGED statusQ
    <3>1. \A m \in Sms : LinksSame(m)
      BY <2>1 DEF SessionsKept, WireShrinks, LinksSame, SentSame, Queued, InQueue,
                  OpenOf, WireOf, Pairs, Of, Reports
    <3>2. QED
      BY <1>1, <3>1 DEF SmsStep, LinkSide, Idle
  <2>2. ASSUME NEW S \in SUBSET packetDB[l], NEW R \in SUBSET S,
               NEW st \in Status \ Refusal, Ended(l, S, R, st)
        PROVE  SmsStep
    BY <1>1, <2>2, EndedProgress DEF SmsStep, LinkSide
  <2>3. ASSUME NEW d \in 1 .. Len(cq[l]), NEW st \in Refusal, SmsRefused(l, d),
               statusQ' = statusQ \cup {RefusalOf(cq[l][i], st) : i \in 1 .. d}
        PROVE  SmsStep
    <3>1. \A m \in Sms : Idle(m) \/ RefusedAt(m)
      BY <1>1, <1>2, <2>3, RefusedProgress
    <3>2. QED
      BY <3>1 DEF SmsStep, LinkSide
  <2>4. CASE cq[l] # <<>> /\ SmsSubmitted(l) /\ UNCHANGED statusQ
    <3>1. \E m \in Sms : SubmittedAt(m) /\ \A n \in Sms \ {m} : Idle(n)
      BY <1>1, <1>2, <2>4, SubmittedProgress
    <3>2. QED
      BY <3>1 DEF SmsStep
  <2>5. QED
    BY <1>3, <2>1, <2>2, <2>3, <2>4 DEF LinkEffect
<1>5. QED
  BY <1>1, <1>2, <1>4 DEF Progress

LEMMA PoolProgress ==
    ASSUME PoolTyped, LinkTyped, LinkTyped', SessInv, PoolOnce,
           \A m \in Sms : SmsInv(m), [PoolNext]_tx_vars
    PROVE  Progress
<1>1. ASSUME NEW l \in Links, LinkStep(l), UNCHANGED pool_vars
      PROVE  Progress
  BY <1>1, LinkProgress
<1>2. QED
  BY <1>1, MqProgress, SendingProgress, NoticeProgress, StatusProgress, ConfigProgress
     DEF PoolNext, PoolMessage, Sending
=============================================================================
