--------------------- MODULE ChannelTxPoolProofs ---------------------
(***************************************************************************)
(* Theorems of ChannelTxPool, for any number of links, SMS and segments:   *)
(* where an SMS is, what sending back means, what the pool knows of the    *)
(* logins, and how its sessions match the work of the links.               *)
(***************************************************************************)
EXTENDS ChannelTxPoolSteps

-----------------------------------------------------------------------------
(* The pool's queue between the notifications of the links.                *)
IsLogin(msg, l) == msg.type = "LOGIN" /\ msg.node = l
Logins(q, l) == {i \in 1 .. Len(q) : IsLogin(q[i], l)}

\* A record cur that reads q to its end arrives at v.
Arrives(q, l, cur, v) ==
    /\ Logins(q, l) = {} => cur = v
    /\ \A i \in Logins(q, l) : (\A j \in Logins(q, l) : j <= i) => q[i].new = v

LEMMA TailArrives ==
    ASSUME NEW q \in Seq(PoolMsg), q # <<>>, NEW l, NEW cur, NEW v, Arrives(q, l, cur, v)
    PROVE  Arrives(Tail(q), l, IF IsLogin(Head(q), l) THEN Head(q).new ELSE cur, v)
<1> DEFINE t == Tail(q)
           c == IF IsLogin(Head(q), l) THEN Head(q).new ELSE cur
<1>1. /\ Len(t) = Len(q) - 1 /\ Len(q) \in Nat /\ Len(q) >= 1
      /\ \A i \in 1 .. Len(q) - 1 : t[i] = q[i + 1]
      /\ Head(q) = q[1]
  OBVIOUS
<1> HIDE DEF t
<1>2. \A i \in Logins(t, l) : i + 1 \in Logins(q, l) /\ t[i] = q[i + 1] /\ i \in Nat
  BY <1>1 DEF Logins
<1>3. \A j \in Logins(q, l) : j = 1 \/ j - 1 \in Logins(t, l)
  <2> TAKE j \in Logins(q, l)
  <2>1. CASE j # 1
    <3>1. j - 1 \in 1 .. Len(t) /\ t[j - 1] = q[(j - 1) + 1] /\ (j - 1) + 1 = j
      BY <1>1, <2>1 DEF Logins
    <3>2. QED
      BY <3>1 DEF Logins
  <2>2. QED
    BY <2>1
<1>4. 1 \in Logins(q, l) <=> IsLogin(Head(q), l)
  BY <1>1 DEF Logins
<1>5. ASSUME Logins(t, l) = {}
      PROVE  c = v
  <2>1. \A j \in Logins(q, l) : j = 1
    BY <1>3, <1>5
  <2>2. CASE IsLogin(Head(q), l)
    <3>1. 1 \in Logins(q, l) /\ \A j \in Logins(q, l) : j <= 1
      BY <1>4, <2>1, <2>2
    <3>2. QED
      BY <1>1, <2>2, <3>1 DEF Arrives
  <2>3. CASE ~IsLogin(Head(q), l)
    <3>1. Logins(q, l) = {}
      BY <1>4, <2>1, <2>3
    <3>2. QED
      BY <2>3, <3>1 DEF Arrives
  <2>4. QED
    BY <2>2, <2>3
<1>6. ASSUME NEW i \in Logins(t, l), \A j \in Logins(t, l) : j <= i
      PROVE  t[i] .new = v
  <2>1. i + 1 \in Logins(q, l) /\ t[i] = q[i + 1] /\ i \in Nat
    BY <1>2
  <2>2. \A j \in Logins(q, l) : j <= i + 1
    <3> TAKE j \in Logins(q, l)
    <3>1. j \in Int
      BY <1>1 DEF Logins
    <3>2. j = 1 \/ j - 1 <= i
      BY <1>3, <1>6
    <3>3. QED
      BY <2>1, <3>1, <3>2
  <2>3. q[i + 1].new = v
    BY <2>1, <2>2 DEF Arrives
  <2>4. QED
    BY <2>1, <2>3
<1>7. QED
  BY <1>5, <1>6 DEF Arrives, t

LEMMA AppendArrives ==
    ASSUME NEW q \in Seq(PoolMsg), NEW msg \in PoolMsg, NEW l, NEW cur, NEW v,
           Arrives(q, l, cur, v)
    PROVE  Arrives(Append(q, msg), l, cur, IF IsLogin(msg, l) THEN msg.new ELSE v)
<1> DEFINE p == Append(q, msg)
<1>1. /\ Len(p) = Len(q) + 1 /\ Len(q) \in Nat /\ p[Len(q) + 1] = msg
      /\ \A i \in 1 .. Len(q) : p[i] = q[i]
  OBVIOUS
<1> HIDE DEF p
<1>2. Logins(p, l) = Logins(q, l) \cup (IF IsLogin(msg, l) THEN {Len(q) + 1} ELSE {})
  <2>1. \A i : i \in 1 .. Len(p) <=> i \in 1 .. Len(q) \/ i = Len(q) + 1
    BY <1>1
  <2>2. \A i : i \in Logins(p, l) <=> i \in Logins(q, l) \/ (i = Len(q) + 1 /\ IsLogin(msg, l))
    BY <1>1, <2>1 DEF Logins
  <2>3. QED
    BY <2>2
<1>3. \A i \in Logins(q, l) : p[i] = q[i] /\ i \in Int /\ i <= Len(q)
  BY <1>1 DEF Logins
<1>4. CASE IsLogin(msg, l)
  <2>1. Len(q) + 1 \in Logins(p, l)
    BY <1>2, <1>4
  <2>2. ASSUME NEW i \in Logins(p, l), \A j \in Logins(p, l) : j <= i
        PROVE  p[i].new = msg.new
    <3>1. Len(q) + 1 <= i
      BY <2>1, <2>2
    <3>2. i = Len(q) + 1
      BY <1>1, <1>2, <1>3, <1>4, <3>1
    <3>3. QED
      BY <1>1, <3>2
  <2>3. QED
    BY <1>4, <2>1, <2>2 DEF Arrives, p
<1>5. CASE ~IsLogin(msg, l)
  <2>1. Logins(p, l) = Logins(q, l)
    BY <1>2, <1>5
  <2>2. QED
    BY <1>3, <1>5, <2>1 DEF Arrives, p
<1>6. QED
  BY <1>4, <1>5

LEMMA TailQuiet ==
    ASSUME NEW q \in Seq(PoolMsg), q # <<>>, Quiet(q)
    PROVE  Quiet(Tail(q))
<1>1. /\ Len(Tail(q)) = Len(q) - 1 /\ Len(q) \in Nat
      /\ \A i \in 1 .. Len(q) - 1 : Tail(q)[i] = q[i + 1]
  OBVIOUS
<1>2. QED
  BY <1>1 DEF Quiet

LEMMA AppendQuiet ==
    ASSUME NEW q \in Seq(PoolMsg), NEW msg \in PoolMsg, Quiet(q),
           msg.type = "LOGIN" => ~msg.bDelAll
    PROVE  Quiet(Append(q, msg))
<1> DEFINE p == Append(q, msg)
<1>1. /\ Len(p) = Len(q) + 1 /\ Len(q) \in Nat /\ p[Len(q) + 1] = msg
      /\ \A i \in 1 .. Len(q) : p[i] = q[i]
  OBVIOUS
<1> HIDE DEF p
<1>2. \A i \in 1 .. Len(p) : i \in 1 .. Len(q) \/ i = Len(q) + 1
  BY <1>1
<1>3. Quiet(p)
  BY <1>1, <1>2 DEF Quiet
<1>4. QED
  BY <1>3 DEF p

(* The consumer and the sending part of the pool put SMS into the queue    *)
(* and take them off.                                                      *)
SmsQueued ==
    \E q \in {poolQ, Tail(poolQ)} :
        /\ q = poolQ \/ (poolQ # <<>> /\ IsSms(Head(poolQ)) /\ q = Tail(poolQ))
        /\ poolQ' = q \/ \E msg \in SmsMsg : poolQ' = Append(q, msg)

LEMMA SendQueues ==
    ASSUME NEW m \in Sms, NEW times \in Nat, NEW q, HandleDirectSendMsg(m, times, q)
    PROVE  poolQ' = q \/ \E msg \in SmsMsg : poolQ' = Append(q, msg)
<1>1. DispatchMsg(m, times + 1) \in SmsMsg
  BY DEF DispatchMsg, SmsMsg
<1>2. QED
  BY <1>1 DEF HandleDirectSendMsg, SendToNone

LEMMA SendingQueues ==
    ASSUME PoolTyped, MqStep \/ Sending
    PROVE  SmsQueued
<1>1. CASE MqStep
  <2>1. \A m \in Sms : ReqMsg(m) \in SmsMsg
    BY DEF ReqMsg, SmsMsg
  <2>2. poolQ' = poolQ \/ \E m \in Sms : poolQ' = Append(poolQ, ReqMsg(m))
    BY <1>1 DEF MqStep, MqDeliver, MqConsume, MqBlock, MqRelease, MqReconnect, MqAckFails
  <2>3. QED
    BY <2>1, <2>2 DEF SmsQueued
<1>2. CASE ProcessChannelReq \/ Redispatch
  <2>1. PICK t \in {"REQ", "DISPATCH"} : PoolTakes(t) /\ Directed(Head(poolQ).sms)
    BY <1>2, TakenDirected DEF PoolTyped
  <2>2. poolQ # <<>> /\ IsSms(Head(poolQ)) /\ Head(poolQ).sms \in Sms
    BY <2>1, TakenTyped DEF PoolTakes, IsSms, PoolTyped
  <2>3. \/ poolQ' = Tail(poolQ)
        \/ \E n \in Nat : HandleDirectSendMsg(Head(poolQ).sms, n, Tail(poolQ))
    BY <2>1 DEF Directed, GetSendAuditInterceptRedis
  <2>4. poolQ' = Tail(poolQ) \/ \E msg \in SmsMsg : poolQ' = Append(Tail(poolQ), msg)
    BY <2>2, <2>3, SendQueues
  <2>5. QED
    BY <2>2, <2>4 DEF SmsQueued
<1>3. ASSUME NEW msg \in audit, AuditPasses(msg) \/ AuditIntercepts(msg)
      PROVE  SmsQueued
  <2>1. poolQ' = poolQ \/ HandleDirectSendMsg(msg.sms, msg.times, poolQ)
    BY <1>3 DEF AuditPasses, AuditIntercepts, link_vars
  <2>2. msg.sms \in Sms /\ msg.times \in Nat
    BY DEF PoolTyped, SmsMsg
  <2>3. poolQ' = poolQ \/ \E n \in SmsMsg : poolQ' = Append(poolQ, n)
    BY <2>1, <2>2, SendQueues
  <2>4. QED
    BY <2>3 DEF SmsQueued
<1>4. QED
  BY <1>1, <1>2, <1>3 DEF Sending

LEMMA SmsQueuedKeeps ==
    ASSUME PoolTyped, SmsQueued
    PROVE  /\ Quiet(poolQ) => Quiet(poolQ')
           /\ \A l, cur, v : Arrives(poolQ, l, cur, v) => Arrives(poolQ', l, cur, v)
<1>0. poolQ \in Seq(PoolMsg)
  BY DEF PoolTyped
<1>1. PICK q \in {poolQ, Tail(poolQ)} :
         /\ q = poolQ \/ (poolQ # <<>> /\ IsSms(Head(poolQ)) /\ q = Tail(poolQ))
         /\ poolQ' = q \/ \E msg \in SmsMsg : poolQ' = Append(q, msg)
  BY DEF SmsQueued
<1>2. /\ q \in Seq(PoolMsg) /\ (Quiet(poolQ) => Quiet(q))
      /\ \A l, cur, v : Arrives(poolQ, l, cur, v) => Arrives(q, l, cur, v)
  <2>1. CASE q = poolQ
    BY <1>0, <2>1
  <2>2. CASE poolQ # <<>> /\ IsSms(Head(poolQ)) /\ q = Tail(poolQ)
    <3>1. q \in Seq(PoolMsg) /\ (Quiet(poolQ) => Quiet(q))
      BY <1>0, <2>2, TailQuiet
    <3>2. ASSUME NEW l, NEW cur, NEW v, Arrives(poolQ, l, cur, v)
          PROVE  Arrives(q, l, cur, v)
      <4>1. ~IsLogin(Head(poolQ), l)
        BY <2>2 DEF IsSms, IsLogin
      <4>2. Arrives(Tail(poolQ), l,
                    IF IsLogin(Head(poolQ), l) THEN Head(poolQ).new ELSE cur, v)
        BY <1>0, <2>2, <3>2, TailArrives
      <4>3. QED
        BY <2>2, <4>1, <4>2
    <3>3. QED
      BY <3>1, <3>2
  <2>3. QED
    BY <1>1, <2>1, <2>2
<1>3. CASE poolQ' = q
  BY <1>2, <1>3
<1>4. ASSUME NEW msg \in SmsMsg, poolQ' = Append(q, msg)
      PROVE  /\ Quiet(poolQ) => Quiet(poolQ')
             /\ \A l, cur, v : Arrives(poolQ, l, cur, v) => Arrives(poolQ', l, cur, v)
  <2>1. msg \in PoolMsg /\ msg.type # "LOGIN"
    BY DEF PoolMsg, SmsMsg
  <2>2. Quiet(poolQ) => Quiet(poolQ')
    BY <1>2, <1>4, <2>1, AppendQuiet
  <2>3. ASSUME NEW l, NEW cur, NEW v, Arrives(poolQ, l, cur, v)
        PROVE  Arrives(poolQ', l, cur, v)
    <3>1. Arrives(q, l, cur, v) /\ ~IsLogin(msg, l)
      BY <1>2, <2>1, <2>3 DEF IsLogin
    <3>2. Arrives(Append(q, msg), l, cur, IF IsLogin(msg, l) THEN msg.new ELSE v)
      BY <1>2, <2>1, <3>1, AppendArrives
    <3>3. QED
      BY <1>4, <3>1, <3>2
  <2>4. QED
    BY <2>2, <2>3
<1>5. QED
  BY <1>1, <1>3, <1>4

-----------------------------------------------------------------------------
(* As long as the channel exists.                                          *)
NoDel(l) == \A i \in 1 .. Len(dq[l]) : dq[l][i].kind # "DEL"

LEMMA DequeueNoDel ==
    ASSUME LinkTyped, NEW l \in Links, NoDel(l), dq[l] # <<>>,
           dq' = [dq EXCEPT ![l] = Tail(@)]
    PROVE  NoDel(l)' /\ Head(dq[l]).kind # "DEL" /\ \A k \in Links \ {l} : dq'[k] = dq[k]
<1> DEFINE q == dq[l]
<1>1. q \in Seq(ThreadMsg) /\ q # <<>> /\ dq'[l] = Tail(q)
      /\ \A k \in Links \ {l} : dq'[k] = dq[k]
  BY DEF LinkTyped, QueueTypeOK
<1>2. \A i \in 1 .. Len(q) : q[i].kind # "DEL"
  BY DEF NoDel
<1> HIDE DEF q
<1>3. /\ Len(Tail(q)) = Len(q) - 1 /\ Len(q) \in Nat /\ Len(q) >= 1 /\ Head(q) = q[1]
      /\ \A i \in 1 .. Len(q) - 1 : Tail(q)[i] = q[i + 1]
  BY <1>1
<1>4. \A i \in 1 .. Len(Tail(q)) : Tail(q)[i].kind # "DEL"
  BY <1>2, <1>3
<1>5. Head(q).kind # "DEL"
  BY <1>2, <1>3
<1>6. QED
  BY <1>1, <1>4, <1>5 DEF NoDel, q

LEMMA EnqueueNoDel ==
    ASSUME LinkTyped, NEW l \in Links, NoDel(l), NEW msg \in ThreadMsg,
           msg.kind # "DEL", dq'[l] = Append(dq[l], msg)
    PROVE  NoDel(l)'
<1> DEFINE q == dq[l]
<1>1. q \in Seq(ThreadMsg) /\ dq'[l] = Append(q, msg)
  BY DEF LinkTyped, QueueTypeOK
<1>2. \A i \in 1 .. Len(q) : q[i].kind # "DEL"
  BY DEF NoDel
<1> HIDE DEF q
<1>3. /\ Len(Append(q, msg)) = Len(q) + 1 /\ Len(q) \in Nat
      /\ Append(q, msg)[Len(q) + 1] = msg
      /\ \A i \in 1 .. Len(q) : Append(q, msg)[i] = q[i]
  BY <1>1
<1>4. \A i \in 1 .. Len(Append(q, msg)) : i \in 1 .. Len(q) \/ i = Len(q) + 1
  BY <1>3
<1>5. \A i \in 1 .. Len(Append(q, msg)) : Append(q, msg)[i].kind # "DEL"
  BY <1>2, <1>3, <1>4
<1>6. QED
  BY <1>1, <1>5 DEF NoDel

(* A live link that is not told to end stays live.                         *)
LEMMA LinkStepLive ==
    ASSUME LinkTyped, NEW l \in Links, chan[l] = "live", NoDel(l), LinkStep(l)
    PROVE  /\ UNCHANGED chan /\ NoDel(l)'
           /\ \A k \in Links \ {l} : dq'[k] = dq[k]
<1> DEFINE D == NoDel(l)' /\ \A k \in Links \ {l} : dq'[k] = dq[k]
<1>0. dq \in [Links -> Seq(ThreadMsg)]
  BY DEF LinkTyped, QueueTypeOK
<1>a. UNCHANGED dq => D
  BY DEF NoDel
<1>b. ASSUME dq[l] # <<>>, dq' = [dq EXCEPT ![l] = Tail(@)]
      PROVE  D
  BY <1>b, DequeueNoDel
<1>c. ASSUME NEW msg \in ThreadMsg, msg.kind # "DEL",
             dq' = [dq EXCEPT ![l] = Append(@, msg)]
      PROVE  D
  <2>1. dq'[l] = Append(dq[l], msg) /\ \A k \in Links \ {l} : dq'[k] = dq[k]
    BY <1>0, <1>c
  <2>2. QED
    BY <1>c, <2>1, EnqueueNoDel
<1>d. \A k \in {"HEART", "RESET"} : Msg(k, 0) \in ThreadMsg /\ Msg(k, 0).kind # "DEL"
  BY DEF Msg, ThreadMsg
<1> HIDE DEF D
<1>1. CASE LinkGateway(l)
  <2>1. UNCHANGED dq \/ dq' = [dq EXCEPT ![l] = Append(@, Msg("RESET", 0))]
    BY <1>1 DEF LinkGateway, OnConnRespOk, OnConnRespFail, OnSubmitResp, OnHeartbeat,
                OnBadPacket, OnClosed
  <2>2. UNCHANGED chan
    BY <1>1 DEF LinkGateway, OnConnRespOk, OnConnRespFail, OnSubmitResp, OnHeartbeat,
                OnBadPacket, OnClosed
  <2>3. QED
    BY <1>a, <1>c, <1>d, <2>1, <2>2 DEF D
<1>2. CASE HandleHeartTimeOut(l) \/ HandleReset(l)
           \/ \E n \in Sliders : HandleChannelSlideWindowUpdate(l, n)
  <2>1. /\ dq[l] # <<>> /\ dq' = [dq EXCEPT ![l] = Tail(@)] /\ UNCHANGED chan
    BY <1>2 DEF HandleHeartTimeOut, HandleReset, HandleChannelSlideWindowUpdate, Takes
  <2>2. QED
    BY <1>b, <2>1 DEF D
<1>3. ~HandleChannelDel(l)
  <2> SUFFICES ASSUME HandleChannelDel(l)
               PROVE  FALSE
    OBVIOUS
  <2>1. /\ dq[l] # <<>> /\ dq' = [dq EXCEPT ![l] = Tail(@)] /\ Head(dq[l]).kind = "DEL"
    BY DEF HandleChannelDel, Takes, Msg
  <2>2. QED
    BY <2>1, DequeueNoDel
<1>4. CASE HandleDispatch(l)
  BY <1>4, <1>a DEF HandleDispatch, D
<1>5. CASE HeartFires(l)
  BY <1>5, <1>c, <1>d DEF HeartFires, D
<1>6. ASSUME NEW n \in Sliders, HandleChannelCloseTimeOut(l, n)
      PROVE  FALSE
  BY <1>6 DEF HandleChannelCloseTimeOut
<1>7. QED
  BY <1>1, <1>2, <1>3, <1>4, <1>5, <1>6 DEF LinkStep, LinkMessage

LEMMA LiveLink ==
    ASSUME PoolTyped, LinkTyped, LinkTyped', QueuedOnce, LiveInv, NEW l \in Links,
           LinkStep(l), UNCHANGED pool_vars
    PROVE  LiveInv'
<1> SUFFICES ASSUME poolLive'
             PROVE  /\ \A k \in Links : chan'[k] = "live"
                    /\ \A k \in Links : NoDel(k)'
                    /\ \A r \in statusQ' : r.status \notin {"NO_CHANNEL", "INTERNAL_ERROR"}
                    /\ Quiet(poolQ')
  BY DEF LiveInv, NoDel
<1>0. poolLive
  BY DEF pool_vars
<1>1. /\ \A k \in Links : chan[k] = "live"
      /\ \A k \in Links : NoDel(k)
      /\ \A r \in statusQ : r.status \notin {"NO_CHANNEL", "INTERNAL_ERROR"}
      /\ Quiet(poolQ)
  BY <1>0 DEF LiveInv, NoDel
<1>2. /\ UNCHANGED chan /\ NoDel(l)'
      /\ \A k \in Links \ {l} : dq'[k] = dq[k]
  BY <1>1, LinkStepLive
<1>3. \A k \in Links : chan'[k] = "live" /\ NoDel(k)'
  BY <1>1, <1>2 DEF NoDel
<1>4. Quiet(poolQ')
  <2>1. \/ poolQ' = poolQ
        \/ \E msg \in LoginMsg \cup ResetMsg :
              /\ poolQ' = Append(poolQ, msg)
              /\ msg.type = "LOGIN" => ~msg.bDelAll
    <3>1. \A msg \in ResetMsg : msg.type # "LOGIN"
      BY DEF ResetMsg
    <3>2. chan[l] # "closing"
      BY <1>1
    <3>3. QED
      BY <3>1, <3>2, LinkStepNotifies DEF Notified
  <2>2. \A msg \in LoginMsg \cup ResetMsg : msg \in PoolMsg
    BY DEF PoolMsg
  <2>3. QED
    BY <1>1, <2>1, <2>2, AppendQuiet DEF PoolTyped
<1>5. \A r \in statusQ' : r.status \notin {"NO_CHANNEL", "INTERNAL_ERROR"}
  <2>1. CASE UNCHANGED statusQ
    BY <1>1, <2>1
  <2>2. ASSUME NEW S \in SUBSET packetDB[l], NEW R \in SUBSET S,
               NEW st \in Status \ Refusal, Ended(l, S, R, st)
        PROVE  <1>5
    <3>1. st \notin {"NO_CHANNEL", "INTERNAL_ERROR"}
      BY <1>1, <2>2 DEF Ended, Refusal
    <3>2. \A s \in R : ReportOn(s, st).status = st
      BY DEF ReportOn
    <3>3. statusQ' = statusQ \cup {ReportOn(s, st) : s \in R}
      BY <2>2 DEF Ended
    <3>4. QED
      BY <1>1, <3>1, <3>2, <3>3
  <2>3. ASSUME NEW d \in 1 .. Len(cq[l]), NEW st \in Refusal,
               statusQ' = statusQ \cup {RefusalOf(cq[l][i], st) : i \in 1 .. d},
               st = "NO_CHANNEL" => dq[l] # <<>> /\ Head(dq[l]).kind = "DEL"
        PROVE  <1>5
    <3>1. dq[l] # <<>> => Head(dq[l]).kind # "DEL"
      <4>1. NoDel(l) /\ dq[l] \in Seq(ThreadMsg)
        BY <1>1 DEF LinkTyped, QueueTypeOK
      <4>2. dq[l] # <<>> => Head(dq[l]) = dq[l][1] /\ 1 \in 1 .. Len(dq[l])
        BY <4>1
      <4>3. QED
        BY <4>1, <4>2 DEF NoDel
    <3>2. st \notin {"NO_CHANNEL", "INTERNAL_ERROR"}
      BY <2>3, <3>1 DEF Refusal
    <3>3. \A i \in 1 .. d : RefusalOf(cq[l][i], st).status = st
      BY DEF RefusalOf
    <3>4. QED
      BY <1>1, <2>3, <3>2, <3>3
  <2>4. QED
    BY <2>1, <2>2, <2>3, LinkStepEffect DEF LinkEffect
<1>6. QED
  BY <1>3, <1>4, <1>5

LEMMA LivePool ==
    ASSUME PoolTyped, LinkTyped, LiveInv,
           \/ MqStep \/ PoolMessage \/ SysnSlideWndFromChannel
           \/ \E r \in statusQ : SmsTxChannelSendStatusReport(r)
           \/ \E msg \in audit : AuditPasses(msg) \/ AuditIntercepts(msg)
    PROVE  LiveInv'
<1>1. UNCHANGED <<chan, dq, poolLive>> /\ statusQ' \subseteq statusQ
  <2>1. CASE MqStep
    BY <2>1 DEF MqStep, sess_vars
  <2>2. ASSUME NEW m, NEW times, NEW q, HandleDirectSendMsg(m, times, q)
        PROVE  <1>1
    BY <2>2 DEF HandleDirectSendMsg, sess_vars
  <2>3. CASE Sending
    BY <2>2, <2>3, SendingKinds DEF LinksAlone, sess_vars
  <2>4. CASE HandleChannelLoginStateMsg \/ HandleTimeOutResetSlideWindowMsg
             \/ SysnSlideWndFromChannel
    BY <2>4 DEF HandleChannelLoginStateMsg, HandleTimeOutResetSlideWindowMsg,
                SysnSlideWndFromChannel, link_vars, sess_vars
  <2>5. ASSUME NEW r \in statusQ, SmsTxChannelSendStatusReport(r)
        PROVE  <1>1
    BY <2>5 DEF SmsTxChannelSendStatusReport
  <2>6. QED
    BY <2>1, <2>3, <2>4, <2>5 DEF PoolMessage, Sending
<1>2. Quiet(poolQ) => Quiet(poolQ')
  <2>1. CASE MqStep \/ Sending
    BY <2>1, SendingQueues, SmsQueuedKeeps
  <2>2. CASE HandleChannelLoginStateMsg \/ HandleTimeOutResetSlideWindowMsg
    BY <2>2, TailQuiet DEF HandleChannelLoginStateMsg, HandleTimeOutResetSlideWindowMsg,
                           PoolTakes, PoolTyped
  <2>3. CASE SysnSlideWndFromChannel \/ \E r \in statusQ : SmsTxChannelSendStatusReport(r)
    BY <2>3 DEF SysnSlideWndFromChannel, SmsTxChannelSendStatusReport, link_vars
  <2>4. QED
    BY <2>1, <2>2, <2>3 DEF PoolMessage, Sending
<1>3. QED
  BY <1>1, <1>2 DEF LiveInv

LEMMA LiveConfig ==
    ASSUME PoolTyped, LinkTyped, LiveInv,
           \/ DeleteChannel \/ UNCHANGED tx_vars \/ \E n \in Sliders : UpdateSlider(n)
    PROVE  LiveInv'
<1>1. CASE DeleteChannel
  BY <1>1 DEF DeleteChannel, LiveInv
<1>2. CASE UNCHANGED tx_vars
  BY <1>2 DEF tx_vars, link_vars, pool_vars, sess_vars, LiveInv
<1>3. ASSUME NEW n \in Sliders, UpdateSlider(n)
      PROVE  LiveInv'
  <2>1. /\ UNCHANGED <<chan, poolQ, poolLive, statusQ>>
        /\ dq' = [l \in Links |-> Append(dq[l], Msg("UPDATE", n))]
    BY <1>3 DEF UpdateSlider, PostToAll, sess_vars
  <2>2. Msg("UPDATE", n) \in ThreadMsg /\ Msg("UPDATE", n).kind # "DEL"
    BY DEF Msg, ThreadMsg
  <2>3. \A l \in Links : dq'[l] = Append(dq[l], Msg("UPDATE", n))
    BY <2>1
  <2>4. \A l \in Links : NoDel(l) => NoDel(l)'
    BY <2>2, <2>3, EnqueueNoDel
  <2>5. Quiet(poolQ') <=> Quiet(poolQ)
    BY <2>1
  <2>6. SUFFICES ASSUME poolLive'
                 PROVE  /\ \A k \in Links : chan'[k] = "live"
                        /\ \A k \in Links : NoDel(k)'
                        /\ \A r \in statusQ' : r.status \notin {"NO_CHANNEL", "INTERNAL_ERROR"}
                        /\ Quiet(poolQ')
    BY DEF LiveInv, NoDel
  <2>7. /\ \A k \in Links : chan[k] = "live"
        /\ \A k \in Links : NoDel(k)
        /\ \A r \in statusQ : r.status \notin {"NO_CHANNEL", "INTERNAL_ERROR"}
        /\ Quiet(poolQ)
    BY <2>1, <2>6 DEF LiveInv, NoDel
  <2>8. QED
    BY <2>1, <2>4, <2>5, <2>7
<1>4. QED
  BY <1>1, <1>2, <1>3

LEMMA LiveStep ==
    ASSUME PoolTyped, LinkTyped, LinkTyped', QueuedOnce, LiveInv, [PoolNext]_tx_vars
    PROVE  LiveInv'
<1>1. ASSUME NEW l \in Links, LinkStep(l), UNCHANGED pool_vars
      PROVE  LiveInv'
  BY <1>1, LiveLink
<1>2. QED
  BY <1>1, LivePool, LiveConfig DEF PoolNext

LEMMA LiveInit == PoolInit => LiveInv
<1> SUFFICES ASSUME PoolInit
             PROVE  LiveInv
  OBVIOUS
<1>1. /\ chan = [l \in Links |-> "live"] /\ dq = [l \in Links |-> <<>>]
      /\ statusQ = {} /\ poolQ = <<>>
  BY DEF PoolInit, InitLink
<1>2. Len(<<>>) = 0 /\ \A i : i \notin 1 .. 0
  OBVIOUS
<1>3. QED
  BY <1>1, <1>2 DEF LiveInv, Quiet

(* A deleted channel does not come back.                                   *)
LEMMA StaysDeleted ==
    ASSUME PoolTyped, [PoolNext]_tx_vars
    PROVE  poolLive' => poolLive
<1>1. CASE MqStep \/ SysnSlideWndFromChannel \/ \E l \in Links : LinkStep(l) /\ UNCHANGED pool_vars
  BY <1>1 DEF MqStep, SysnSlideWndFromChannel, pool_vars
<1>2. CASE HandleChannelLoginStateMsg \/ HandleTimeOutResetSlideWindowMsg
  BY <1>2 DEF HandleChannelLoginStateMsg, HandleTimeOutResetSlideWindowMsg
<1>3. CASE Sending
  BY <1>3, SendingKinds DEF HandleDirectSendMsg
<1>4. ASSUME NEW r \in statusQ, SmsTxChannelSendStatusReport(r)
      PROVE  poolLive' => poolLive
  BY <1>4 DEF SmsTxChannelSendStatusReport
<1>5. ASSUME NEW n \in Sliders, UpdateSlider(n)
      PROVE  poolLive' => poolLive
  BY <1>5 DEF UpdateSlider
<1>6. CASE DeleteChannel
  BY <1>6 DEF DeleteChannel
<1>7. CASE UNCHANGED tx_vars
  BY <1>7 DEF tx_vars, pool_vars
<1>8. QED
  BY <1>1, <1>2, <1>3, <1>4, <1>5, <1>6, <1>7 DEF PoolNext, PoolMessage, Sending

LEMMA SmsInvInit == PoolInit => PoolOnce /\ \A m \in Sms : SmsInv(m)
<1> SUFFICES ASSUME PoolInit
             PROVE  PoolOnce /\ \A m \in Sms : SmsInv(m)
  OBVIOUS
<1>1. Len(<<>>) = 0 /\ \A i : i \notin 1 .. 0
  OBVIOUS
<1>2. poolQ = <<>>
  BY DEF PoolInit, InitLink
<1>3. PoolOnce /\ \A m : ~InPoolQueue(m)
  <2>1. audit = {}
    BY DEF PoolInit
  <2>2. QED
    BY <1>1, <1>2, <2>1 DEF PoolOnce, OnceIn, OneCopy, InPoolQueue
<1> SUFFICES ASSUME NEW m \in Sms
             PROVE  SmsInv(m)
  BY <1>3
<1>4. /\ written[m] = 0 /\ ~Queued(m) /\ OpenOf(m) = {} /\ WireOf(m) = {}
      /\ Reports(m) = {}
  <2>1. /\ written = [n \in Sms |-> 0] /\ cq = [l \in Links |-> <<>>]
        /\ packetDB = [l \in Links |-> {}] /\ wire = [l \in Links |-> {}]
        /\ statusQ = {}
    BY DEF PoolInit, InitLink
  <2>2. ~Queued(m)
    BY <1>1, <2>1 DEF Queued, InQueue
  <2>3. OpenOf(m) = {} /\ WireOf(m) = {}
    BY <2>1 DEF OpenOf, WireOf, Pairs, Of
  <2>4. QED
    BY <2>1, <2>2, <2>3 DEF Reports
<1>5. /\ m \in broker /\ ~InAudit(m) /\ session[m] = NoSession /\ outcome[m] = NoOutcome
  BY DEF PoolInit, InAudit
<1>6. NoOutcome.reback = 0
  BY DEF NoOutcome
<1>7. QED
  BY <1>3, <1>4, <1>5, <1>6 DEF SmsInv, WaitingInv, WaitsOnce, Waiting, QueuedInv,
     UnsentInv, Untouched, HeardInv, RefusalInv, BackInv, LocatedInv

(* The inductive invariant.                                                *)
PoolInv ==
    /\ PoolTyped /\ LinkTyped
    /\ SessInv /\ PoolOnce /\ LiveInv
    /\ \A m \in Sms : SmsInv(m)

LEMMA PoolInvInit == PoolInit => PoolInv
BY PoolTypedInit, SessionsInit, LiveInit, SmsInvInit DEF PoolInit, PoolInv

LEMMA PoolInvStep == PoolInv /\ [PoolNext]_tx_vars => PoolInv'
<1> SUFFICES ASSUME PoolInv, [PoolNext]_tx_vars
             PROVE  PoolInv'
  OBVIOUS
<1>1. PoolTyped' /\ LinkTyped'
  BY PoolTypedStep DEF PoolInv
<1>2. SmsStep /\ PoolOnce' /\ SessInv'
  BY <1>1, PoolProgress DEF PoolInv, Progress
<1>3. LiveInv'
  BY <1>1, LiveStep DEF PoolInv, SessInv
<1>4. \A m \in Sms : SmsInv(m)'
  BY <1>1, <1>2, StaysDeleted, SmsStepInv DEF PoolInv
<1>5. QED
  BY <1>1, <1>2, <1>3, <1>4 DEF PoolInv

(* The invariant is inductive: consumer, pool and links keep it together.  *)
THEOREM PoolInductive == PoolSpec => []PoolInv
<1>1. QED
  BY PoolInvInit, PoolInvStep, PTL DEF PoolSpec

LEMMA AtLinkParts ==
    ASSUME LinkTyped, NEW m \in Sms
    PROVE  AtLink(m) <=> Queued(m) \/ OpenOf(m) # {} \/ Reports(m) # {}
<1>1. packetDB \in [Links -> SUBSET Seg]
  BY DEF LinkTyped, SessTypeOK
<1>2. OpenOf(m) # {} <=> \E l \in Links : Of(packetDB[l], m) # {}
  <2>1. ASSUME NEW x \in OpenOf(m)
        PROVE  \E l \in Links : Of(packetDB[l], m) # {}
    BY DEF OpenOf, Pairs
  <2>2. ASSUME NEW l \in Links, NEW s \in Of(packetDB[l], m)
        PROVE  <<l, s>> \in OpenOf(m)
    BY <1>1 DEF OpenOf, Pairs, Of
  <2>3. QED
    BY <2>1, <2>2
<1>3. QED
  BY <1>2 DEF AtLink, Queued, Reports

LEMMA OneOfFive ==
    ASSUME NEW t,
           t[1] \/ t[2] \/ t[3] \/ t[4] \/ t[5],
           ~(t[1] /\ t[2]), ~(t[1] /\ t[3]), ~(t[1] /\ t[4]), ~(t[1] /\ t[5]),
           ~(t[2] /\ t[3]), ~(t[2] /\ t[4]), ~(t[2] /\ t[5]),
           ~(t[3] /\ t[4]), ~(t[3] /\ t[5]), ~(t[4] /\ t[5])
    PROVE  Cardinality({i \in 1 .. 5 : t[i]}) = 1
<1>1. PICK k \in 1 .. 5 : t[k]
  OBVIOUS
<1>2. \A i \in 1 .. 5 : t[i] => i = k
  BY <1>1
<1>3. {i \in 1 .. 5 : t[i]} = {k}
  BY <1>1, <1>2
<1>4. QED
  BY <1>3, FS_Singleton

LEMMA PlaceFromInv == PoolInv => SmsInOnePlace
<1> SUFFICES ASSUME PoolInv, poolLive, NEW m \in Sms
             PROVE  Cardinality({i \in 1 .. 5 :
                        <<m \in broker, InPoolQueue(m), InAudit(m), AtLink(m),
                          Answered(m) /\ ~AtLink(m)>>[i]}) = 1
  BY DEF SmsInOnePlace
<1>1. SmsInv(m) /\ RecordTyped /\ LinkTyped
  BY DEF PoolInv, PoolTyped
<1>2. AtLink(m) <=> Queued(m) \/ OpenOf(m) # {} \/ Reports(m) # {}
  BY <1>1, AtLinkParts
<1>3. Waiting(m) => WaitsOnce(m) /\ ~AtLink(m) /\ ~Answered(m)
  <2>1. outcome[m] = NoOutcome => ~Answered(m)
    BY <1>1, OutcomeKeys
  <2>2. QED
    BY <1>1, <1>2, <2>1 DEF SmsInv, WaitingInv, UnsentInv, Untouched
<1>4. Waiting(m) \/ AtLink(m) \/ Answered(m)
  BY <1>1, <1>2 DEF SmsInv, LocatedInv
<1>5. PICK t : t = <<m \in broker, InPoolQueue(m), InAudit(m), AtLink(m),
                     Answered(m) /\ ~AtLink(m)>>
  OBVIOUS
<1>6. /\ t[1] <=> m \in broker
      /\ t[2] <=> InPoolQueue(m)
      /\ t[3] <=> InAudit(m)
      /\ t[4] <=> AtLink(m)
      /\ t[5] <=> Answered(m) /\ ~AtLink(m)
  BY <1>5
<1>7. Cardinality({i \in 1 .. 5 : t[i]}) = 1
  BY <1>3, <1>4, <1>6, OneOfFive DEF Waiting, WaitsOnce
<1>8. QED
  BY <1>5, <1>7

LEMMA RebackFromInv == PoolInv => RebackedNotSent
<1> SUFFICES ASSUME PoolInv, NEW m \in Sms, outcome[m].reback > 0
             PROVE  /\ outcome[m] = [NoOutcome EXCEPT !.reback = 1]
                    /\ ~AtLink(m)
                    /\ \A l \in Links : Of(wire[l], m) = {}
  BY DEF RebackedNotSent
<1>1. SmsInv(m) /\ LinkTyped
  BY DEF PoolInv
<1>2. /\ outcome[m] = [NoOutcome EXCEPT !.reback = 1]
      /\ OpenOf(m) = {} /\ WireOf(m) = {} /\ Reports(m) = {}
  BY <1>1 DEF SmsInv, BackInv, Untouched
<1>3. ~Queued(m)
  <2>1. outcome[m] # NoOutcome
    BY DEF NoOutcome
  <2>2. QED
    BY <1>1, <2>1 DEF SmsInv, QueuedInv
<1>4. ~AtLink(m)
  BY <1>1, <1>2, <1>3, AtLinkParts
<1>5. wire \in [Links -> SUBSET Seg]
  BY <1>1 DEF LinkTyped, ConnTypeOK
<1>6. ASSUME NEW l \in Links, NEW s \in Of(wire[l], m)
      PROVE  <<l, s>> \in WireOf(m)
  BY <1>5 DEF WireOf, Pairs, Of
<1>7. QED
  BY <1>2, <1>4, <1>6

(* No SMS is lost or handled twice while the channel exists, however many  *)
(* links, SMS and segments there are.                                      *)
THEOREM SmsInExactlyOnePlace == PoolSpec => []SmsInOnePlace
BY PoolInductive, PlaceFromInv, PTL

(* An SMS that was sent back was never submitted, and is never submitted   *)
(* later.                                                                  *)
THEOREM RebackedNeverSent == PoolSpec => []RebackedNotSent
BY PoolInductive, RebackFromInv, PTL

-----------------------------------------------------------------------------
(* The pool's record of a link, read to the end of its queue, is the       *)
(* link's login state.                                                     *)
LoginInv ==
    poolLive => \A l \in Links : Arrives(poolQ, l, nodeLogin[l], loginState[l])

LEMMA LoginLink ==
    ASSUME PoolTyped, LinkTyped, LiveInv, LoginInv, NEW l \in Links, LinkStep(l),
           UNCHANGED pool_vars
    PROVE  LoginInv'
<1> SUFFICES ASSUME poolLive, NEW k \in Links
             PROVE  Arrives(poolQ', k, nodeLogin[k], loginState'[k])
  BY DEF LoginInv, pool_vars
<1>1. /\ chan[l] # "closing" /\ Arrives(poolQ, k, nodeLogin[k], loginState[k])
      /\ loginState \in [Links -> {0, 1, 2}] /\ poolQ \in Seq(PoolMsg)
  BY DEF LiveInv, LoginInv, LinkTyped, ConnTypeOK, PoolTyped
<1>2. CASE UNCHANGED <<poolQ, loginState>>
  BY <1>1, <1>2
<1>3. ASSUME NEW msg \in ResetMsg, poolQ' = Append(poolQ, msg), UNCHANGED loginState
      PROVE  Arrives(poolQ', k, nodeLogin[k], loginState'[k])
  <2>1. msg \in PoolMsg /\ ~IsLogin(msg, k)
    BY DEF PoolMsg, ResetMsg, IsLogin
  <2>2. Arrives(Append(poolQ, msg), k, nodeLogin[k],
                IF IsLogin(msg, k) THEN msg.new ELSE loginState[k])
    BY <1>1, <2>1, AppendArrives
  <2>3. QED
    BY <1>3, <2>1, <2>2
<1>4. ASSUME NEW msg \in LoginMsg, msg.node = l, poolQ' = Append(poolQ, msg),
             loginState' = [loginState EXCEPT ![l] = msg.new]
      PROVE  Arrives(poolQ', k, nodeLogin[k], loginState'[k])
  <2>1. msg \in PoolMsg /\ (IsLogin(msg, k) <=> k = l)
    BY <1>4 DEF PoolMsg, LoginMsg, IsLogin
  <2>2. Arrives(Append(poolQ, msg), k, nodeLogin[k],
                IF IsLogin(msg, k) THEN msg.new ELSE loginState[k])
    BY <1>1, <2>1, AppendArrives
  <2>3. loginState'[k] = IF IsLogin(msg, k) THEN msg.new ELSE loginState[k]
    BY <1>1, <1>4, <2>1
  <2>4. QED
    BY <1>4, <2>2, <2>3
<1>5. QED
  BY <1>1, <1>2, <1>3, <1>4, LinkStepNotifies DEF Notified

LEMMA LoginHandled ==
    ASSUME PoolTyped, LiveInv, LoginInv,
           HandleChannelLoginStateMsg \/ HandleTimeOutResetSlideWindowMsg
    PROVE  LoginInv'
<1>0. UNCHANGED <<poolLive, loginState>> /\ poolQ' = Tail(poolQ) /\ poolQ # <<>>
  BY DEF HandleChannelLoginStateMsg, HandleTimeOutResetSlideWindowMsg, PoolTakes, conn_vars
<1> SUFFICES ASSUME poolLive, NEW k \in Links
             PROVE  Arrives(Tail(poolQ), k, nodeLogin'[k], loginState[k])
  BY <1>0 DEF LoginInv
<1>1. /\ Arrives(poolQ, k, nodeLogin[k], loginState[k]) /\ Quiet(poolQ)
      /\ poolQ \in Seq(PoolMsg) /\ nodeLogin \in [Links -> {0, 1, 2}]
  BY DEF LiveInv, LoginInv, PoolTyped
<1>2. Arrives(Tail(poolQ), k,
              IF IsLogin(Head(poolQ), k) THEN Head(poolQ).new ELSE nodeLogin[k], loginState[k])
  BY <1>0, <1>1, TailArrives
<1>3. nodeLogin'[k] = IF IsLogin(Head(poolQ), k) THEN Head(poolQ).new ELSE nodeLogin[k]
  <2>1. CASE HandleChannelLoginStateMsg
    <3>1. 1 \in 1 .. Len(poolQ) /\ Head(poolQ) = poolQ[1]
      BY <1>0, <1>1
    <3>2. Head(poolQ).type = "LOGIN" /\ ~Head(poolQ).bDelAll
      BY <1>1, <2>1, <3>1 DEF HandleChannelLoginStateMsg, PoolTakes, Quiet
    <3>3. nodeLogin' = [nodeLogin EXCEPT ![Head(poolQ).node] = Head(poolQ).new]
      BY <2>1, <3>2 DEF HandleChannelLoginStateMsg
    <3>4. QED
      BY <1>1, <3>2, <3>3 DEF IsLogin
  <2>2. CASE HandleTimeOutResetSlideWindowMsg
    BY <2>2 DEF HandleTimeOutResetSlideWindowMsg, PoolTakes, IsLogin
  <2>3. QED
    BY <2>1, <2>2
<1>4. QED
  BY <1>2, <1>3

LEMMA LoginSending ==
    ASSUME PoolTyped, LoginInv,
           MqStep \/ Sending
    PROVE  LoginInv'
<1>1. UNCHANGED <<poolLive, loginState, nodeLogin>>
  <2>1. CASE MqStep
    BY <2>1 DEF MqStep, conn_vars
  <2>2. ASSUME NEW m, NEW times, NEW q, HandleDirectSendMsg(m, times, q)
        PROVE  <1>1
    BY <2>2 DEF HandleDirectSendMsg, conn_vars
  <2>3. CASE Sending
    BY <2>2, <2>3, SendingKinds DEF LinksAlone, conn_vars
  <2>4. QED
    BY <2>1, <2>3
<1>2. \A l, cur, v : Arrives(poolQ, l, cur, v) => Arrives(poolQ', l, cur, v)
  BY SendingQueues, SmsQueuedKeeps
<1>3. QED
  BY <1>1, <1>2 DEF LoginInv

LEMMA LoginStep ==
    ASSUME PoolTyped, LinkTyped, LiveInv, LoginInv, [PoolNext]_tx_vars
    PROVE  LoginInv'
<1>1. ASSUME NEW l \in Links, LinkStep(l), UNCHANGED pool_vars
      PROVE  LoginInv'
  BY <1>1, LoginLink
<1>2. CASE UNCHANGED <<poolQ, poolLive, nodeLogin, loginState>>
  BY <1>2 DEF LoginInv
<1>3. CASE SysnSlideWndFromChannel \/ UNCHANGED tx_vars
  BY <1>2, <1>3 DEF SysnSlideWndFromChannel, tx_vars, link_vars, pool_vars, conn_vars
<1>4. ASSUME NEW r \in statusQ, SmsTxChannelSendStatusReport(r)
      PROVE  LoginInv'
  BY <1>2, <1>4 DEF SmsTxChannelSendStatusReport, conn_vars
<1>5. ASSUME NEW n \in Sliders, UpdateSlider(n)
      PROVE  LoginInv'
  BY <1>2, <1>5 DEF UpdateSlider, conn_vars
<1>6. CASE DeleteChannel
  BY <1>6 DEF DeleteChannel, LoginInv
<1>7. QED
  BY <1>1, <1>3, <1>4, <1>5, <1>6, LoginHandled, LoginSending
     DEF PoolNext, PoolMessage, Sending

LEMMA LoginInit == PoolInit => LoginInv
<1> SUFFICES ASSUME PoolInit
             PROVE  LoginInv
  OBVIOUS
<1>1. /\ poolQ = <<>> /\ nodeLogin = [l \in Links |-> 0]
      /\ loginState = [l \in Links |-> 0]
  BY DEF PoolInit, InitLink
<1>2. Len(<<>>) = 0 /\ \A i : i \notin 1 .. 0
  OBVIOUS
<1>3. QED
  BY <1>1, <1>2 DEF LoginInv, Arrives, Logins

(* What the pool knows of a link's login is what the link reported last,   *)
(* as long as the channel exists, for any number of links.                 *)
THEOREM PoolLearnsLogin == PoolSpec => []PoolSeesLogin
<1>1. PoolInit => LoginInv
  BY LoginInit
<1>2. PoolInv /\ LoginInv /\ [PoolNext]_tx_vars => LoginInv'
  BY LoginStep DEF PoolInv
<1>3. LoginInv => PoolSeesLogin
  BY DEF LoginInv, PoolSeesLogin, LoginAt, Arrives, Logins, IsLogin
<1>4. QED
  BY <1>1, <1>2, <1>3, PoolInductive, PTL DEF PoolSpec

-----------------------------------------------------------------------------
(* The segments of one SMS.  Each has one session or one report that the   *)
(* pool has not read, never both, and segment 0 stands for a refusal.      *)
FreshInv(m) ==
    /\ \A x, y \in OpenOf(m) : x[2] = y[2] => x = y
    /\ \A x \in OpenOf(m) : x[2] # <<m, 0>>
    /\ \A x \in OpenOf(m) : \A r \in Reports(m) : r.seg # x[2]
    /\ \A r \in Reports(m) : r.seg = <<m, 0>> <=> r.status \in Refusal
    /\ IsFiniteSet(Reports(m))

(* The pool counts reports up to the number of segments.                   *)
TotalInv(m) ==
    /\ OpenOf(m) # {} => written[m] = Segs[m]
    /\ \A r \in Reports(m) : r.total = written[m]
CountInv(m) ==
    written[m] > 0 =>
        IF session[m].open
        THEN /\ reported[m] = session[m].recv + Cardinality(Reports(m))
             /\ session[m].recv < written[m]
        ELSE OpenOf(m) = {} /\ Reports(m) = {}
(* A session without segments is that of an SMS that was sent back.        *)
BackOpenInv(m) ==
    session[m].open /\ written[m] = 0 /\ ~Queued(m) =>
        outcome[m].reback = 1 /\ session[m].recv = 0
SegInv(m) == TotalInv(m) /\ CountInv(m) /\ BackOpenInv(m)

(* Before a link has an SMS there is nothing to count.                     *)
Unsent(m) == Moved(m) \/ HandedOver(m) \/ SentBack(m) \/ Intercepted(m) \/ Discarded(m)

LEMMA UnsentStays ==
    ASSUME NEW m \in Sms, SmsInv(m), Unsent(m)
    PROVE  /\ OpenOf(m)' = {} /\ Reports(m)' = {} /\ written'[m] = 0
           /\ Waiting(m) /\ outcome[m] = NoOutcome /\ session[m] = NoSession
<1>1. Waiting(m)
  BY DEF Unsent, Moved, HandedOver, SentBack, Intercepted, Discarded, Leaves
<1>2. /\ outcome[m] = NoOutcome /\ session[m] = NoSession /\ written[m] = 0
      /\ OpenOf(m) = {} /\ Reports(m) = {}
  BY <1>1 DEF SmsInv, WaitingInv, UnsentInv, Untouched
<1>3. SentSame(m) /\ Reports(m)' = Reports(m)
  BY DEF Unsent, Moved, HandedOver, SentBack, Intercepted, Discarded, LinksSame
<1>4. QED
  BY <1>1, <1>2, <1>3 DEF SentSame

LEMMA NoneFresh ==
    ASSUME NEW m, OpenOf(m)' = {}, Reports(m)' = {}
    PROVE  FreshInv(m)'
<1>1. IsFiniteSet(Reports(m)')
  BY FS_EmptySet
<1>2. QED
  BY <1>1 DEF FreshInv

(* An SMS that a link takes is in its queue and has no segments yet.       *)
LEMMA QueuedFreshly ==
    ASSUME NEW m \in Sms, SmsInv(m), Queued(m)
    PROVE  /\ written[m] = 0 /\ OpenOf(m) = {} /\ WireOf(m) = {} /\ Reports(m) = {}
           /\ session[m] = Opened /\ outcome[m] = NoOutcome
BY DEF SmsInv, QueuedInv, UnsentInv, Untouched

LEMMA RefusedFresh ==
    ASSUME NEW m \in Sms, SmsInv(m), RefusedAt(m)
    PROVE  /\ OpenOf(m)' = {} /\ written'[m] = 1 /\ session'[m] = Opened
           /\ \E st \in Refusal : Reports(m)' = {RefusalOf(m, st)}
           /\ FreshInv(m)'
<1>1. /\ OpenOf(m)' = {} /\ written'[m] = 1 /\ session'[m] = Opened
      /\ Reports(m) = {}
  BY QueuedFreshly DEF RefusedAt, RecordSame
<1>2. PICK st \in Refusal : Reports(m)' = {RefusalOf(m, st)}
  BY <1>1 DEF RefusedAt
<1>3. RefusalOf(m, st).seg = <<m, 0>> /\ RefusalOf(m, st).status = st
  BY DEF RefusalOf
<1>4. IsFiniteSet(Reports(m)')
  BY <1>2, FS_Singleton
<1>5. QED
  BY <1>1, <1>2, <1>3, <1>4 DEF FreshInv

LEMMA SubmittedFresh ==
    ASSUME NEW m \in Sms, SmsInv(m), SubmittedAt(m)
    PROVE  /\ Reports(m)' = {} /\ written'[m] = Segs[m] /\ written[m] = 0
           /\ session'[m] = Opened /\ reported'[m] = reported[m]
           /\ FreshInv(m)'
<1>0. Segs[m] \in Nat
  BY LinkAssumption
<1>1. /\ Reports(m)' = {} /\ written'[m] = Segs[m] /\ session'[m] = Opened
      /\ OpenOf(m) = {} /\ written[m] = 0 /\ reported'[m] = reported[m]
  BY <1>0, QueuedFreshly DEF SubmittedAt, RecordSame
<1>2. PICK l \in Links : OpenOf(m)' = {l} \X SegsOf(m)
  BY <1>1 DEF SubmittedAt
<1>3. \A x \in {l} \X SegsOf(m) : x = <<l, x[2]>> /\ x[2] # <<m, 0>>
  BY DEF SegsOf
<1>4. IsFiniteSet(Reports(m)')
  BY <1>1, FS_EmptySet
<1>5. QED
  BY <1>1, <1>2, <1>3, <1>4 DEF FreshInv

LEMMA HeardFresh ==
    ASSUME NEW m, FreshInv(m), NEW r, Heard(m, r)
    PROVE  /\ FreshInv(m)' /\ OpenOf(m)' = OpenOf(m)
           /\ Cardinality(Reports(m)') = Cardinality(Reports(m)) - 1
<1>1. /\ OpenOf(m)' = OpenOf(m) /\ Reports(m)' = Reports(m) \ {r} /\ r \in Reports(m)
  BY DEF Heard, SentSame
<1>2. IsFiniteSet(Reports(m))
  BY DEF FreshInv
<1>3. /\ IsFiniteSet(Reports(m) \ {r})
      /\ Cardinality(Reports(m) \ {r}) = Cardinality(Reports(m)) - 1
  BY <1>1, <1>2, FS_RemoveElement
<1>4. QED
  BY <1>1, <1>3 DEF FreshInv

LEMMA EndedFresh ==
    ASSUME NEW m, FreshInv(m), EndedOf(m)
    PROVE  /\ FreshInv(m)'
           /\ \E n \in Nat : /\ reported'[m] = reported[m] + n
                             /\ Cardinality(Reports(m)') = Cardinality(Reports(m)) + n
<1>1. PICK N \in SUBSET Seg, st \in Status \ Refusal :
         /\ Reports(m)' = Reports(m) \cup {ReportOn(s, st) : s \in N}
         /\ reported'[m] = reported[m] + Cardinality(N)
         /\ \A s \in N : SmsOf(s) = m /\ \E x \in OpenOf(m) \ OpenOf(m)' : x[2] = s
  BY DEF EndedOf
<1>2. OpenOf(m)' \subseteq OpenOf(m)
  BY DEF EndedOf
<1> DEFINE New == {ReportOn(s, st) : s \in N}
<1>3. \A s \in N : ReportOn(s, st).seg = s /\ ReportOn(s, st).status = st
  BY DEF ReportOn
<1>4. IsFiniteSet(N) /\ Cardinality(N) \in Nat
  BY SegFinite, FS_Subset, FS_CardinalityType
<1>5. IsFiniteSet(New) /\ Cardinality(New) = Cardinality(N)
  <2> DEFINE f == [s \in N |-> ReportOn(s, st)]
  <2>0. /\ f \in [N -> New]
        /\ \A a, b \in N : f[a] = f[b] => a = b
        /\ \A t \in New : \E s \in N : f[s] = t
    BY <1>3
  <2>1. f \in Bijection(N, New)
    BY <2>0 DEF Bijection, Injection, Surjection, IsInjective
  <2>2. ExistsBijection(N, New)
    BY <2>1 DEF ExistsBijection
  <2>3. QED
    BY <1>4, <2>2, FS_Bijection
<1>6. Reports(m) \cap New = {}
  BY <1>1, <1>3 DEF FreshInv
<1> DEFINE Q == Reports(m)
<1>7. IsFiniteSet(Q) /\ IsFiniteSet(New) /\ Q \cap New = {}
  BY <1>5, <1>6 DEF FreshInv
<1>8. \A x \in OpenOf(m)' : \A r \in New : r.seg # x[2]
  <2> TAKE x \in OpenOf(m)'
  <2> SUFFICES ASSUME NEW s \in N, s = x[2]
               PROVE  FALSE
    BY <1>3
  <2>1. PICK y \in OpenOf(m) \ OpenOf(m)' : y[2] = s
    BY <1>1
  <2>2. QED
    BY <1>2, <2>1 DEF FreshInv
<1>9. \A r \in New : r.seg # <<m, 0>> /\ r.status \notin Refusal
  BY <1>1, <1>3 DEF FreshInv
<1> HIDE DEF New
<1>10. Reports(m)' = Q \cup New
  BY <1>1 DEF New
<1> HIDE DEF Q
<1>11. /\ IsFiniteSet(Q \cup New)
       /\ Cardinality(Q \cup New) = Cardinality(Q) + Cardinality(New) - Cardinality(Q \cap New)
  BY <1>7, FS_Union, Zenon
<1>12. Cardinality(Q \cap New) = 0
  BY <1>7, FS_EmptySet
<1>13. Cardinality(Q) \in Nat /\ Cardinality(New) \in Nat
  BY <1>7, FS_CardinalityType
<1>14. Cardinality(Reports(m)') = Cardinality(Reports(m)) + Cardinality(N)
  BY <1>4, <1>5, <1>10, <1>11, <1>12, <1>13 DEF Q
<1>15. FreshInv(m)'
  BY <1>2, <1>8, <1>9, <1>10, <1>11 DEF FreshInv, Q
<1>16. QED
  BY <1>1, <1>4, <1>14, <1>15

LEMMA IdleFresh ==
    ASSUME NEW m, FreshInv(m), Idle(m)
    PROVE  FreshInv(m)'
<1>1. OpenOf(m)' = OpenOf(m) /\ Reports(m)' = Reports(m)
  BY DEF Idle, LinksSame, SentSame
<1>2. QED
  BY <1>1 DEF FreshInv

LEMMA FreshStep ==
    ASSUME \A m \in Sms : SmsInv(m) /\ FreshInv(m), SmsStep
    PROVE  \A m \in Sms : FreshInv(m)'
<1> TAKE m \in Sms
<1>1. CASE LinkSide(m)
  BY <1>1, IdleFresh, EndedFresh, RefusedFresh DEF LinkSide
<1>2. CASE PoolSide(m) \/ SubmittedAt(m)
  <2>1. CASE Unsent(m)
    BY <2>1, UnsentStays, NoneFresh
  <2>2. QED
    BY <1>2, <2>1, HeardFresh, SubmittedFresh DEF PoolSide, Unsent
<1>3. QED
  BY <1>1, <1>2 DEF SmsStep, LinkSide

FreshSegs == \A m \in Sms : FreshInv(m)

LEMMA FreshInit == PoolInit => FreshSegs
<1> SUFFICES ASSUME PoolInit, NEW m \in Sms
             PROVE  FreshInv(m)
  BY DEF FreshSegs
<1>1. statusQ = {} /\ packetDB = [l \in Links |-> {}]
  BY DEF PoolInit, InitLink
<1>2. OpenOf(m) = {} /\ Reports(m) = {}
  BY <1>1 DEF OpenOf, Pairs, Of, Reports
<1>3. QED
  BY <1>2, FS_EmptySet DEF FreshInv

LEMMA PoolSmsStep == PoolInv /\ [PoolNext]_tx_vars => SmsStep
BY PoolTypedStep, PoolProgress DEF PoolInv, Progress

(* No segment is open on two links, or open and reported.                  *)
THEOREM SegmentsFresh == PoolSpec => []FreshSegs
<1>1. PoolInv /\ FreshSegs /\ [PoolNext]_tx_vars => FreshSegs'
  <2> SUFFICES ASSUME PoolInv, FreshSegs, [PoolNext]_tx_vars
               PROVE  FreshSegs'
    OBVIOUS
  <2>1. \A m \in Sms : SmsInv(m) /\ FreshInv(m)
    BY DEF PoolInv, FreshSegs
  <2>2. \A m \in Sms : FreshInv(m)'
    BY <2>1, PoolSmsStep, FreshStep
  <2>3. QED
    BY <2>2 DEF FreshSegs
<1>2. QED
  BY <1>1, FreshInit, PoolInductive, PTL DEF PoolSpec

-----------------------------------------------------------------------------
(* The counts of one SMS when its reports carry the number of its segments.*)
LEMMA CountTypes ==
    ASSUME LinkTyped, PoolTyped, SessInv, NEW m \in Sms
    PROVE  /\ written[m] \in Nat /\ reported[m] \in Nat /\ dropped[m] \in Nat
           /\ session[m].recv \in Nat
           /\ IsFiniteSet(OpenOf(m)) /\ Cardinality(OpenOf(m)) \in Nat
           /\ written[m] = reported[m] + dropped[m] + Cardinality(OpenOf(m))
<1>1. /\ written[m] \in Nat /\ reported[m] \in Nat /\ dropped[m] \in Nat
      /\ session[m].recv \in Nat
  BY DEF LinkTyped, SessTypeOK, PoolTyped, RecordTyped
<1>2. /\ IsFiniteSet(OpenOf(m))
      /\ written[m] = reported[m] + dropped[m] + Cardinality(OpenOf(m))
  BY DEF SessInv, SessionsCounted, OpenOf
<1>3. Cardinality(OpenOf(m)) \in Nat
  BY <1>2, FS_CardinalityType
<1>4. QED
  BY <1>1, <1>2, <1>3

LEMMA IdleCounts ==
    ASSUME NEW m \in Sms, SegInv(m), Idle(m)
    PROVE  SegInv(m)'
<1>1. /\ OpenOf(m)' = OpenOf(m) /\ Reports(m)' = Reports(m)
      /\ written'[m] = written[m] /\ reported'[m] = reported[m]
      /\ session'[m] = session[m] /\ outcome'[m] = outcome[m]
      /\ Queued(m)' <=> Queued(m)
  BY DEF Idle, LinksSame, SentSame, RecordSame
<1>2. TotalInv(m)' /\ CountInv(m)'
  BY <1>1 DEF SegInv, TotalInv, CountInv
<1>3. BackOpenInv(m)'
  BY <1>1 DEF SegInv, BackOpenInv
<1>4. QED
  BY <1>2, <1>3 DEF SegInv

LEMMA UnsentCounts ==
    ASSUME NEW m \in Sms, SmsInv(m), Unsent(m)
    PROVE  SegInv(m)'
<1>1. /\ OpenOf(m)' = {} /\ Reports(m)' = {} /\ written'[m] = 0
      /\ outcome[m] = NoOutcome /\ session[m] = NoSession
  BY UnsentStays
<1>2. TotalInv(m)' /\ CountInv(m)'
  BY <1>1 DEF TotalInv, CountInv
<1>3. BackOpenInv(m)'
  <2>1. CASE HandedOver(m)
    BY <2>1 DEF HandedOver, BackOpenInv
  <2>2. CASE SentBack(m)
    <3>1. outcome'[m].reback = 1 /\ session'[m].recv = 0
      BY <1>1, <2>2 DEF SentBack, NoOutcome, Opened, NoSession
    <3>2. QED
      BY <3>1 DEF BackOpenInv
  <2>3. CASE Moved(m) \/ Intercepted(m) \/ Discarded(m)
    <3>1. ~session'[m].open
      BY <1>1, <2>3 DEF Moved, Intercepted, Discarded, RecordSame, NoSession
    <3>2. QED
      BY <3>1 DEF BackOpenInv
  <2>4. QED
    BY <2>1, <2>2, <2>3 DEF Unsent
<1>4. QED
  BY <1>2, <1>3 DEF SegInv

LEMMA HeardCounts ==
    ASSUME LinkTyped, PoolTyped, SessInv, NEW m \in Sms, SmsInv(m), FreshInv(m),
           SegInv(m), NEW r \in statusQ, Heard(m, r)
    PROVE  SegInv(m)'
<1>1. /\ OpenOf(m)' = OpenOf(m) /\ Reports(m)' = Reports(m) \ {r} /\ r \in Reports(m)
      /\ written'[m] = written[m] /\ reported'[m] = reported[m]
      /\ Cardinality(Reports(m)') = Cardinality(Reports(m)) - 1
  BY HeardFresh DEF Heard, SentSame
<1> DEFINE n == session[m].recv
           R == Cardinality(Reports(m))
           O == Cardinality(OpenOf(m))
<1>2. /\ written[m] \in Nat /\ reported[m] \in Nat /\ dropped[m] \in Nat /\ n \in Nat
      /\ O \in Nat /\ written[m] = reported[m] + dropped[m] + O
  BY CountTypes
<1>3. IsFiniteSet(OpenOf(m)) /\ IsFiniteSet(Reports(m)) /\ R \in Nat /\ R # 0
  BY <1>1, CountTypes, FS_CardinalityType, FS_EmptySet DEF FreshInv
<1>4. written[m] > 0
  BY <1>1, <1>2 DEF SmsInv, UnsentInv
<1>5. /\ session[m].open /\ reported[m] = n + R /\ n < written[m]
      /\ r.total = written[m]
  BY <1>1, <1>4 DEF SegInv, CountInv, TotalInv
<1>6. TotalInv(m)'
  BY <1>1 DEF SegInv, TotalInv
<1>7. session'[m] = IF n + 1 = r.total THEN NoSession
                    ELSE [open |-> TRUE, recv |-> n + 1, total |-> r.total]
  BY <1>5 DEF Heard
<1>8. CountInv(m)'
  <2>1. CASE n + 1 = written[m]
    <3>1. R = 1 /\ O = 0
      BY <1>2, <1>3, <1>5, <2>1
    <3>2. OpenOf(m)' = {}
      BY <1>1, <1>3, <3>1, FS_EmptySet
    <3>3. IsFiniteSet(Reports(m)')
      BY <1>1, <1>3, FS_RemoveElement
    <3>4. Reports(m)' = {}
      BY <1>1, <3>1, <3>3, FS_EmptySet
    <3>5. ~session'[m].open
      BY <1>5, <1>7, <2>1 DEF NoSession
    <3>6. QED
      BY <3>2, <3>4, <3>5 DEF CountInv
  <2>2. CASE n + 1 # written[m]
    <3>1. session'[m].open /\ session'[m].recv = n + 1
      BY <1>5, <1>7, <2>2
    <3>2. n + 1 < written'[m] /\ reported'[m] = (n + 1) + Cardinality(Reports(m)')
      BY <1>1, <1>2, <1>3, <1>5, <2>2
    <3>3. QED
      BY <3>1, <3>2 DEF CountInv
  <2>3. QED
    BY <2>1, <2>2
<1>9. BackOpenInv(m)'
  BY <1>1, <1>4 DEF BackOpenInv
<1>10. QED
  BY <1>6, <1>8, <1>9 DEF SegInv

LEMMA EndedCounts ==
    ASSUME Total = Segs, LinkTyped, PoolTyped, SessInv, NEW m \in Sms, SmsInv(m),
           FreshInv(m), SegInv(m), EndedOf(m)
    PROVE  SegInv(m)'
<1>1. PICK N \in SUBSET Seg, st \in Status \ Refusal :
         /\ Reports(m)' = Reports(m) \cup {ReportOn(s, st) : s \in N}
         /\ \A s \in N : SmsOf(s) = m /\ \E x \in OpenOf(m) \ OpenOf(m)' : x[2] = s
  BY DEF EndedOf
<1>2. /\ OpenOf(m)' \subseteq OpenOf(m) /\ written'[m] = written[m]
      /\ session'[m] = session[m] /\ outcome'[m] = outcome[m]
      /\ Queued(m)' <=> Queued(m)
  BY DEF EndedOf, RecordSame
<1>3. PICK n \in Nat : /\ reported'[m] = reported[m] + n
                       /\ Cardinality(Reports(m)') = Cardinality(Reports(m)) + n
  BY EndedFresh
<1>4. OpenOf(m) = {} => Reports(m)' = Reports(m)
  BY <1>1
<1>5. TotalInv(m)'
  <2>1. OpenOf(m)' # {} => written'[m] = Segs[m]
    BY <1>2 DEF SegInv, TotalInv
  <2>2. ASSUME NEW s \in N
        PROVE  ReportOn(s, st).total = written[m]
    <3>1. OpenOf(m) # {} /\ SmsOf(s) = m
      BY <1>1
    <3>2. written[m] = Segs[m]
      BY <3>1 DEF SegInv, TotalInv
    <3>3. QED
      BY <3>1, <3>2 DEF ReportOn
  <2>3. \A r \in Reports(m) : r.total = written[m]
    BY DEF SegInv, TotalInv
  <2>4. QED
    BY <1>1, <1>2, <2>1, <2>2, <2>3 DEF TotalInv
<1>6. CountInv(m)'
  <2> SUFFICES ASSUME written[m] > 0
               PROVE  IF session[m].open
                      THEN /\ reported'[m] = session[m].recv + Cardinality(Reports(m)')
                           /\ session[m].recv < written[m]
                      ELSE OpenOf(m)' = {} /\ Reports(m)' = {}
    BY <1>2 DEF CountInv
  <2>1. CASE session[m].open
    <3>1. /\ reported[m] = session[m].recv + Cardinality(Reports(m))
          /\ session[m].recv < written[m]
      BY <2>1 DEF SegInv, CountInv
    <3>2. Cardinality(Reports(m)) \in Nat
      BY FS_CardinalityType DEF FreshInv
    <3>3. session[m].recv \in Nat
      BY CountTypes
    <3>4. QED
      BY <1>3, <2>1, <3>1, <3>2, <3>3
  <2>2. CASE ~session[m].open
    BY <1>2, <1>4, <2>2 DEF SegInv, CountInv
  <2>3. QED
    BY <2>1, <2>2
<1>7. BackOpenInv(m)'
  BY <1>2 DEF SegInv, BackOpenInv
<1>8. QED
  BY <1>5, <1>6, <1>7 DEF SegInv

LEMMA RefusedCounts ==
    ASSUME LinkTyped, PoolTyped, SessInv, NEW m \in Sms, SmsInv(m), RefusedAt(m)
    PROVE  SegInv(m)'
<1>1. /\ OpenOf(m)' = {} /\ written'[m] = 1 /\ session'[m] = Opened
      /\ reported'[m] = reported[m] + 1
  BY RefusedFresh DEF RefusedAt
<1>2. written[m] = 0
  BY QueuedFreshly DEF RefusedAt
<1>3. reported[m] = 0
  BY <1>2, CountTypes
<1>4. PICK st \in Refusal : Reports(m)' = {RefusalOf(m, st)}
  BY RefusedFresh
<1>5. Cardinality(Reports(m)') = 1
  BY <1>4, FS_Singleton
<1>6. RefusalOf(m, st).total = 1 /\ Opened.open /\ Opened.recv = 0
  BY DEF RefusalOf, Opened, NoSession
<1>7. QED
  BY <1>1, <1>3, <1>4, <1>5, <1>6 DEF SegInv, TotalInv, CountInv, BackOpenInv

LEMMA SubmittedCounts ==
    ASSUME LinkTyped, PoolTyped, SessInv, NEW m \in Sms, SmsInv(m), SubmittedAt(m)
    PROVE  SegInv(m)'
<1>1. /\ Reports(m)' = {} /\ written'[m] = Segs[m] /\ session'[m] = Opened
      /\ written[m] = 0 /\ reported'[m] = reported[m]
  BY SubmittedFresh
<1>2. reported[m] = 0
  <2>1. /\ reported[m] \in Nat /\ dropped[m] \in Nat /\ Cardinality(OpenOf(m)) \in Nat
        /\ written[m] = reported[m] + dropped[m] + Cardinality(OpenOf(m))
    BY CountTypes
  <2>2. QED
    BY <1>1, <2>1
<1>3. Segs[m] \in Nat \ {0}
  BY LinkAssumption
<1>4. Cardinality(Reports(m)') = 0
  BY <1>1, FS_EmptySet
<1>5. Opened.open /\ Opened.recv = 0
  BY DEF Opened, NoSession
<1>6. QED
  BY <1>1, <1>2, <1>3, <1>4, <1>5 DEF SegInv, TotalInv, CountInv, BackOpenInv

LEMMA SegStep ==
    ASSUME Total = Segs, PoolInv, SmsStep, \A m \in Sms : FreshInv(m) /\ SegInv(m)
    PROVE  \A m \in Sms : SegInv(m)'
<1>1. LinkTyped /\ PoolTyped /\ SessInv /\ \A m \in Sms : SmsInv(m)
  BY DEF PoolInv
<1> TAKE m \in Sms
<1>2. CASE LinkSide(m)
  BY <1>1, <1>2, IdleCounts, EndedCounts, RefusedCounts DEF LinkSide
<1>3. CASE PoolSide(m) \/ SubmittedAt(m)
  <2>1. CASE Unsent(m)
    BY <1>1, <2>1, UnsentCounts
  <2>2. QED
    BY <1>1, <1>3, <2>1, HeardCounts, SubmittedCounts DEF PoolSide, Unsent
<1>4. QED
  BY <1>2, <1>3 DEF SmsStep, LinkSide

LEMMA SegInit == PoolInit => \A m \in Sms : SegInv(m)
<1> SUFFICES ASSUME PoolInit, NEW m \in Sms
             PROVE  SegInv(m)
  OBVIOUS
<1>1. /\ written[m] = 0 /\ statusQ = {} /\ session[m] = NoSession
      /\ packetDB = [l \in Links |-> {}]
  BY DEF PoolInit, InitLink
<1>2. OpenOf(m) = {} /\ Reports(m) = {}
  BY <1>1 DEF OpenOf, Pairs, Of, Reports
<1>3. ~NoSession.open
  BY DEF NoSession
<1>4. QED
  BY <1>1, <1>2, <1>3 DEF SegInv, TotalInv, CountInv, BackOpenInv

LEMMA MatchFromInv ==
    PoolInv /\ (\A m \in Sms : SegInv(m)) => SessionsMatch
<1> SUFFICES ASSUME PoolInv, NEW m \in Sms, SegInv(m)
             PROVE  /\ AtLink(m) => session[m].open
                    /\ session[m].open /\ ~AtLink(m) =>
                          \/ dropped[m] > 0
                          \/ outcome[m].reback = 1 /\ session[m].recv = 0
  BY DEF SessionsMatch
<1>1. LinkTyped /\ PoolTyped /\ SessInv /\ SmsInv(m)
  BY DEF PoolInv
<1>2. AtLink(m) <=> Queued(m) \/ OpenOf(m) # {} \/ Reports(m) # {}
  BY <1>1, AtLinkParts
<1>3. /\ written[m] \in Nat /\ reported[m] \in Nat /\ dropped[m] \in Nat
      /\ session[m].recv \in Nat
      /\ written[m] = reported[m] + dropped[m] + Cardinality(OpenOf(m))
  BY <1>1, CountTypes
<1>4. written[m] = 0 => OpenOf(m) = {} /\ Reports(m) = {}
  BY <1>1 DEF SmsInv, UnsentInv, Untouched
<1>5. Queued(m) => session[m].open
  BY <1>1 DEF SmsInv, QueuedInv, Opened, NoSession
<1>6. ASSUME AtLink(m)
      PROVE  session[m].open
  <2>1. CASE written[m] = 0
    BY <1>2, <1>4, <1>5, <1>6, <2>1
  <2>2. CASE written[m] > 0
    BY <1>2, <1>5, <1>6, <2>2 DEF SegInv, CountInv
  <2>3. QED
    BY <1>3, <2>1, <2>2
<1>7. ASSUME session[m].open, ~AtLink(m)
      PROVE  dropped[m] > 0 \/ (outcome[m].reback = 1 /\ session[m].recv = 0)
  <2>1. CASE written[m] = 0
    BY <1>2, <1>7, <2>1 DEF SegInv, BackOpenInv
  <2>2. CASE written[m] > 0
    <3>1. /\ reported[m] = session[m].recv + Cardinality(Reports(m))
          /\ session[m].recv < written[m]
      BY <1>7, <2>2 DEF SegInv, CountInv
    <3>2. Cardinality(Reports(m)) = 0 /\ Cardinality(OpenOf(m)) = 0
      BY <1>2, <1>7, FS_EmptySet
    <3>3. QED
      BY <1>3, <3>1, <3>2
  <2>3. QED
    BY <1>3, <2>1, <2>2
<1>8. QED
  BY <1>6, <1>7

(* When the reports of every SMS carry the number of its segments, no      *)
(* report arrives after its session has gone and no session is left over,  *)
(* but for those the code is known to keep.                                *)
THEOREM SessionsMatchLinks ==
    ASSUME Total = Segs
    PROVE  PoolSpec => []SessionsMatch
<1> DEFINE AllSegs == \A m \in Sms : SegInv(m)
<1>1. PoolInit => AllSegs
  BY SegInit
<1>2. PoolInv /\ FreshSegs /\ AllSegs /\ [PoolNext]_tx_vars => AllSegs'
  BY PoolSmsStep, SegStep DEF FreshSegs
<1>3. PoolInv /\ AllSegs => SessionsMatch
  BY MatchFromInv
<1> HIDE DEF AllSegs
<1>4. QED
  BY <1>1, <1>2, <1>3, PoolInductive, SegmentsFresh, PTL DEF PoolSpec
=============================================================================
