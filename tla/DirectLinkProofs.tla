-------------------------- MODULE DirectLinkProofs --------------------------
(***************************************************************************)
(* Proofs about DirectLink.                                                *)
(*   - LinkTypeCorrect: every variable keeps its type.                     *)
(*   - ConnectionConsistent: the flags of a connection agree.              *)
(*   - WindowNeverAboveSlider: the window never exceeds the slider.        *)
(*   - EverySessionEnds: a session saved for an SMS is open, reported or   *)
(*     skipped by destroy().  Each step of a link ends some sessions,      *)
(*     takes SMS off its queue, or leaves both alone; an SMS waits in one  *)
(*     queue, once, and has no session before it is taken off.             *)
(*   - WindowAccounted: free tokens, open segments of the connection and   *)
(*     expired ones add up to the slider.                                  *)
(* They hold for every number of links, SMS and segments, and for every    *)
(* bound on the faults of the gateway.                                     *)
(***************************************************************************)
EXTENDS DirectLink, FiniteSetTheorems, TLAPS

\* The types without those of poolQ, where the pool's own messages may wait
\* next to the notifications of the links.
LinkTyped == ConnTypeOK /\ FlowTypeOK /\ SessTypeOK /\ QueueTypeOK

USE DEF LinkTyped, ConnTypeOK, FlowTypeOK, SessTypeOK, QueueTypeOK

(* A segment belongs to an SMS, and there are finitely many.               *)
LEMMA SegSms == \A s \in Seg : SmsOf(s) \in Sms
BY DEF Seg, SmsOf

LEMMA SegsOfType ==
    ASSUME NEW m \in Sms
    PROVE  SegsOf(m) \in SUBSET Seg /\ <<m, 0>> \in Seg
BY LinkAssumption DEF Seg, SegsOf

LEMMA SegFinite == IsFiniteSet(Seg)
<1> DEFINE f == [m \in Sms |-> {<<m, i>> : i \in 0 .. Segs[m]}]
           T == {f[m] : m \in Sms}
<1>1. \A m \in Sms : IsFiniteSet(f[m])
  <2> TAKE m \in Sms
  <2>1. IsFiniteSet(0 .. Segs[m])
    BY FS_Interval, LinkAssumption
  <2> DEFINE g == [i \in 0 .. Segs[m] |-> <<m, i>>]
  <2>2. g \in Surjection(0 .. Segs[m], f[m])
    BY DEF Surjection
  <2>3. QED
    BY <2>1, <2>2, FS_Surjection
<1>2. f \in Surjection(Sms, T)
  BY DEF Surjection
<1>3. IsFiniteSet(T)
  BY <1>2, FS_Surjection, LinkAssumption
<1>4. \A x \in T : IsFiniteSet(x)
  BY <1>1
<1>5. IsFiniteSet(UNION T)
  BY <1>3, <1>4, FS_UNION
<1>6. Seg = UNION T
  BY DEF Seg
<1>7. QED
  BY <1>5, <1>6

LEMMA SegCard ==
    ASSUME NEW S \in SUBSET Seg
    PROVE  Cardinality(S) \in Nat
BY SegFinite, FS_Subset, FS_CardinalityType

(* The reports of sessions S are reports, and are counted.                 *)
LEMMA ReportType ==
    ASSUME LinkTyped, NEW S \in SUBSET Seg, NEW st \in Status,
           NEW total \in [Sms -> Nat], channelStatusReport(S, st, total)
    PROVE  statusQ' \subseteq Report /\ reported' \in [Sms -> Nat]
<1>1. \A m \in Sms : Cardinality(Of(S, m)) \in Nat
  BY SegCard DEF Of
<1>2. reported' \in [Sms -> Nat]
  BY <1>1 DEF channelStatusReport, LinkTyped
<1>3. \A s \in S : [seg |-> s, total |-> total[SmsOf(s)], status |-> st] \in Report
  BY SegSms DEF Report
<1>4. QED
  BY <1>2, <1>3 DEF channelStatusReport, LinkTyped

\* The message of updateLoginState.
LoginMsgOf(l, new, w, max, b) ==
    [type |-> "LOGIN", node |-> l, new |-> new,
     iWnd |-> IF new = 1 THEN w ELSE IF loginState[l] = 1 THEN -w ELSE 0,
     iMaxWnd |-> max, bDelAll |-> b]

(* What a step of link l tells the pool: nothing, a window reset, or the   *)
(* new login state; only the end of a deleted channel says so.             *)
Notified(l) ==
    \/ UNCHANGED <<poolQ, loginState>>
    \/ /\ \E msg \in ResetMsg : poolQ' = Append(poolQ, msg)
       /\ UNCHANGED loginState
    \/ \E msg \in LoginMsg :
          /\ msg.node = l /\ (msg.bDelAll => chan[l] = "closing")
          /\ poolQ' = Append(poolQ, msg)
          /\ loginState' = [loginState EXCEPT ![l] = msg.new]

LEMMA LoginLostType ==
    ASSUME LinkTyped, NEW l \in Links, NEW new \in {0, 2}, NEW w \in Int,
           NEW max \in Sliders, NEW b \in BOOLEAN, LoginLost(l, new, w, max, b)
    PROVE  /\ loginState' \in [Links -> {0, 1, 2}]
           /\ wnd' \in [Links -> Int]
           /\ (b => chan[l] = "closing") => Notified(l)
<1>1. loginState' \in [Links -> {0, 1, 2}] /\ wnd' \in [Links -> Int]
  BY DEF LoginLost
<1>2. CASE loginState[l] = new
  BY <1>1, <1>2 DEF LoginLost, LoginPost, Notified
<1>3. CASE loginState[l] # new
  <2> DEFINE msg == LoginMsgOf(l, new, w, max, b)
  <2>1. /\ msg \in LoginMsg /\ msg.node = l /\ msg.new = new /\ (msg.bDelAll <=> b)
        /\ LoginPost(l, new, w, max, b) = Append(poolQ, msg)
    <3>1. max \in Nat
      BY LinkAssumption
    <3>2. QED
      BY <1>3, <3>1 DEF LoginPost, LoginMsgOf, LoginMsg
  <2>2. /\ poolQ' = Append(poolQ, msg)
        /\ loginState' = [loginState EXCEPT ![l] = msg.new]
    BY <2>1 DEF LoginLost
  <2> HIDE DEF msg
  <2>3. QED
    BY <1>1, <2>1, <2>2 DEF Notified
<1>4. QED
  BY <1>2, <1>3

(* Whatever OnTimer times out was a session of the link.                   *)
LEMMA ExpireType ==
    ASSUME LinkTyped, NEW l \in Links, Expire(l)
    PROVE  /\ packetDB' \in [Links -> SUBSET Seg]
           /\ age' \in [Seg -> Nat]
           /\ expired' \in [Links -> Nat]
           /\ statusQ' \subseteq Report /\ reported' \in [Sms -> Nat]
           /\ UNCHANGED <<written, dropped>>
<1> DEFINE late == {s \in packetDB[l] : age[s] + 1 > SessionTicks}
<1>1. late \in SUBSET Seg
  BY DEF LinkTyped
<1>2. Cardinality(late \cap wire[l]) \in Nat
  BY <1>1, SegCard
<1>3. /\ packetDB' = [packetDB EXCEPT ![l] = @ \ late]
      /\ age' = [s \in Seg |-> IF s \in packetDB[l] \ late THEN age[s] + 1
                               ELSE IF s \in late THEN 0 ELSE age[s]]
      /\ channelStatusReport(late, "TIMEOUT", Total)
      /\ expired' = [expired EXCEPT ![l] = @ + Cardinality(late \cap wire[l])]
      /\ UNCHANGED <<written, dropped>>
  BY DEF Expire
<1> HIDE DEF late
<1>4. statusQ' \subseteq Report /\ reported' \in [Sms -> Nat]
  BY <1>1, <1>3, ReportType, LinkAssumption DEF Status
<1>5. QED
  BY <1>2, <1>3, <1>4 DEF LinkTyped

-----------------------------------------------------------------------------
(* The type invariant, one group of variables at a time.                   *)
HIDE DEF LinkTyped, ConnTypeOK, FlowTypeOK, SessTypeOK, QueueTypeOK

LEMMA LinkTypeInit == InitLink => LinkTypeOK
<1> SUFFICES ASSUME InitLink
             PROVE  LinkTypeOK
  OBVIOUS
<1> USE LinkAssumption DEF InitLink
<1>1. /\ chan \in [Links -> {"live", "closing", "gone"}]
      /\ m_iState \in [Links -> {"INIT", "DATATRAN", "UNLOGIN", "CLOSE", "EXCEPT"}]
      /\ m_bHasConn \in [Links -> BOOLEAN]
      /\ m_bHasReconnTask \in [Links -> BOOLEAN]
      /\ m_uHeartbeatTick \in [Links -> Nat]
      /\ loginState \in [Links -> {0, 1, 2}]
      /\ sock \in [Links -> {"none", "connecting", "open", "dead"}]
      /\ wire \in [Links -> SUBSET Seg]
  OBVIOUS
<1>2. /\ wnd \in [Links -> Int]
      /\ rspAge \in [Links -> Nat]
      /\ slider \in [Links -> Sliders]
      /\ expired \in [Links -> Nat]
      /\ reset \in [Links -> BOOLEAN]
  OBVIOUS
<1>3. /\ packetDB \in [Links -> SUBSET Seg]
      /\ age \in [Seg -> Nat]
      /\ statusQ \subseteq Report
      /\ written \in [Sms -> Nat]
      /\ reported \in [Sms -> Nat]
      /\ dropped \in [Sms -> Nat]
  OBVIOUS
<1>4. /\ cq \in [Links -> Seq(Sms)]
      /\ dq \in [Links -> Seq(ThreadMsg)]
      /\ heart \in [Links -> BOOLEAN]
      /\ poolQ \in Seq(LoginMsg \cup ResetMsg)
      /\ faults \in Nat
  OBVIOUS
<1>5. QED
  BY <1>1, <1>2, <1>3, <1>4
     DEF LinkTypeOK, ConnTypeOK, FlowTypeOK, SessTypeOK, QueueTypeOK, NotifyTypeOK


(* reConn() either does nothing or takes the connection down.              *)
LEMMA reConnCases ==
    ASSUME NEW l \in Links, reConn(l)
    PROVE  \/ UNCHANGED conn_vars
           \/ /\ m_bHasReconnTask' = [m_bHasReconnTask EXCEPT ![l] = TRUE]
              /\ m_iState' = [m_iState EXCEPT ![l] = "INIT"]
              /\ sock' = [sock EXCEPT ![l] = "none"]
              /\ wire' = [wire EXCEPT ![l] = {}]
              /\ m_bHasConn' = [m_bHasConn EXCEPT ![l] = FALSE]
              /\ m_uHeartbeatTick' = [m_uHeartbeatTick EXCEPT ![l] = 0]
              /\ UNCHANGED loginState
BY Zenon DEF reConn

LEMMA reConnType ==
    ASSUME ConnTypeOK, NEW l \in Links, reConn(l), UNCHANGED chan
    PROVE  ConnTypeOK'
<1>1. CASE UNCHANGED conn_vars
  BY <1>1 DEF conn_vars, ConnTypeOK
<1>2. CASE /\ m_bHasReconnTask' = [m_bHasReconnTask EXCEPT ![l] = TRUE]
           /\ m_iState' = [m_iState EXCEPT ![l] = "INIT"]
           /\ sock' = [sock EXCEPT ![l] = "none"]
           /\ wire' = [wire EXCEPT ![l] = {}]
           /\ m_bHasConn' = [m_bHasConn EXCEPT ![l] = FALSE]
           /\ m_uHeartbeatTick' = [m_uHeartbeatTick EXCEPT ![l] = 0]
           /\ UNCHANGED loginState
  BY <1>2 DEF ConnTypeOK
<1>3. QED
  BY <1>1, <1>2, reConnCases

LEMMA ConnTypeStep == LinkTyped /\ [LinkNext]_link_vars => ConnTypeOK'
<1> SUFFICES ASSUME ConnTypeOK, QueueTypeOK, [LinkNext]_link_vars
             PROVE  ConnTypeOK'
  BY DEF LinkTyped
<1> USE DEF ConnTypeOK, conn_vars, LoginLost
<1>1. ASSUME NEW l \in Links,
             \/ OnConnRespOk(l) \/ OnConnRespFail(l) \/ OnBadPacket(l)
             \/ \E st \in {"CLOSE", "EXCEPT"} : OnClosed(l, st)
      PROVE  ConnTypeOK'
  <2>1. CASE OnConnRespOk(l)
    BY <2>1 DEF OnConnRespOk
  <2>2. CASE OnConnRespFail(l)
    BY <2>2 DEF OnConnRespFail
  <2>3. CASE OnBadPacket(l)
    BY <2>3 DEF OnBadPacket
  <2>4. ASSUME NEW st \in {"CLOSE", "EXCEPT"}, OnClosed(l, st)
        PROVE  ConnTypeOK'
    BY <2>4 DEF OnClosed
  <2>5. QED
    BY <1>1, <2>1, <2>2, <2>3, <2>4
<1>2. ASSUME NEW l \in Links,
             \/ OnHeartbeat(l)
             \/ \E s \in wire[l], st \in {"SUCCESS", "FAIL"} :
                   OnSubmitResp(l, s, st)
      PROVE  ConnTypeOK'
  <2>1. CASE OnHeartbeat(l)
    BY <2>1 DEF OnHeartbeat
  <2>2. ASSUME NEW s \in wire[l], NEW st \in {"SUCCESS", "FAIL"},
               OnSubmitResp(l, s, st)
        PROVE  ConnTypeOK'
    BY <2>2 DEF OnSubmitResp
  <2>3. QED
    BY <1>2, <2>1, <2>2
<1>3. ASSUME NEW l \in Links, HandleHeartTimeOut(l)
      PROVE  ConnTypeOK'
  <2>1. CASE TimerConn(l)
    BY <1>3, <2>1 DEF HandleHeartTimeOut, TimerConn
  <2>2. CASE TimerHeartLost(l)
    BY <1>3, <2>2, reConnType DEF HandleHeartTimeOut, TimerHeartLost
  <2>3. CASE TimerAlive(l)
    BY <1>3, <2>3 DEF HandleHeartTimeOut, TimerAlive
  <2>4. QED
    BY <1>3, <2>1, <2>2, <2>3 DEF HandleHeartTimeOut
<1>4. ASSUME NEW l \in Links, HandleReset(l)
      PROVE  ConnTypeOK'
  <2>1. CASE reConn(l)
    BY <1>4, <2>1, reConnType DEF HandleReset
  <2>2. CASE UNCHANGED conn_vars
    BY <1>4, <2>2 DEF HandleReset
  <2>3. QED
    BY <1>4, <2>1, <2>2 DEF HandleReset
<1>5. ASSUME NEW l \in Links, HandleDispatch(l)
      PROVE  ConnTypeOK'
  <2>1. Head(cq[l]) \in Sms
    BY <1>5 DEF HandleDispatch, QueueTypeOK
  <2>2. wire' \in [Links -> SUBSET Seg]
    <3>1. SegsOf(Head(cq[l])) \in SUBSET Seg
      BY <2>1, SegsOfType
    <3>2. \/ wire' = [wire EXCEPT ![l] = @ \cup SegsOf(Head(cq[l]))]
          \/ wire' = wire
      BY <1>5 DEF HandleDispatch, SendSms, SendSmsUnconnected
    <3>3. QED
      BY <3>1, <3>2
  <2>3. QED
    BY <1>5, <2>2 DEF HandleDispatch
<1>6. ASSUME NEW l \in Links, NEW n \in Sliders,
             \/ HandleChannelSlideWindowUpdate(l, n)
             \/ HandleChannelCloseTimeOut(l, n)
      PROVE  ConnTypeOK'
  BY <1>6 DEF HandleChannelSlideWindowUpdate, HandleChannelCloseTimeOut
<1>7. ASSUME NEW l \in Links, HandleChannelDel(l) \/ HeartFires(l)
      PROVE  ConnTypeOK'
  BY <1>7 DEF HandleChannelDel, HeartFires
<1>8. ASSUME \/ \E l \in Links, m \in Sms : EnvDispatch(l, m)
             \/ \E l \in Links, msg \in ThreadMsg : EnvControl(l, msg)
             \/ EnvTakePool
             \/ \E r \in statusQ : EnvTakeStatus(r)
      PROVE  ConnTypeOK'
  BY <1>8 DEF EnvDispatch, EnvControl, EnvTakePool, EnvTakeStatus
<1>9. CASE UNCHANGED link_vars
  BY <1>9 DEF link_vars
<1>10. QED
  BY <1>1, <1>2, <1>3, <1>4, <1>5, <1>6, <1>7, <1>8, <1>9
     DEF LinkNext, LinkStep, LinkGateway, LinkMessage

LEMMA FlowTypeStep == LinkTyped /\ [LinkNext]_link_vars => FlowTypeOK'
<1> SUFFICES ASSUME LinkTyped, FlowTypeOK, [LinkNext]_link_vars
             PROVE  FlowTypeOK'
  BY DEF LinkTyped
<1> USE DEF FlowTypeOK, flow_vars
<1>0. \A n \in Sliders : n \in Int
  BY LinkAssumption
<1>1. ASSUME NEW l \in Links, OnConnRespOk(l)
      PROVE  FlowTypeOK'
  BY <1>0, <1>1 DEF OnConnRespOk
<1>2. ASSUME NEW l \in Links,
             OnConnRespFail(l) \/ \E st \in {"CLOSE", "EXCEPT"} : OnClosed(l, st)
      PROVE  FlowTypeOK'
  <2>1. LoginLost(l, 2, wnd[l], slider[l], FALSE)
    BY <1>2 DEF OnConnRespFail, OnClosed
  <2>2. wnd' \in [Links -> Int]
    BY <2>1, LoginLostType
  <2>3. UNCHANGED <<rspAge, slider, expired, reset>>
    BY <1>2 DEF OnConnRespFail, OnClosed
  <2>4. QED
    BY <2>2, <2>3
<1>3. ASSUME NEW l \in Links, NEW s \in wire[l], NEW st \in {"SUCCESS", "FAIL"},
             OnSubmitResp(l, s, st)
      PROVE  FlowTypeOK'
  <2>1. FlowSendResponse(wnd[l], slider[l]) \in Int
    BY <1>0 DEF FlowSendResponse
  <2>2. QED
    BY <1>3, <2>1 DEF OnSubmitResp
<1>4. ASSUME NEW l \in Links, HandleHeartTimeOut(l)
      PROVE  FlowTypeOK'
  <2>1. CASE TimerConn(l) /\ Expire(l)
    <3>1. expired' \in [Links -> Nat]
      BY <2>1, ExpireType
    <3>2. wnd' \in [Links -> Int]
      BY <2>1, LoginLostType DEF TimerConn
    <3>3. QED
      BY <2>1, <3>1, <3>2 DEF TimerConn
  <2>2. CASE TimerHeartLost(l) /\ Expire(l)
    BY <2>2, ExpireType DEF TimerHeartLost
  <2>3. CASE TimerAlive(l) /\ Expire(l)
    <3>1. expired' \in [Links -> Nat]
      BY <2>3, ExpireType
    <3>2. CASE MustReset(l)
      <4>1. slider[l] \in Int
        BY <1>0
      <4>2. /\ wnd' = [wnd EXCEPT ![l] = slider[l]]
            /\ rspAge' = [rspAge EXCEPT ![l] = 0]
            /\ reset' = [reset EXCEPT ![l] = TRUE]
            /\ UNCHANGED slider
        BY <2>3, <3>2 DEF TimerAlive
      <4>3. QED
        BY <3>1, <4>1, <4>2
    <3>3. CASE ~MustReset(l)
      BY <2>3, <3>1, <3>3 DEF TimerAlive
    <3>4. QED
      BY <3>2, <3>3
  <2>4. CASE UNCHANGED flow_vars
    BY <2>4
  <2>5. QED
    BY <1>4, <2>1, <2>2, <2>3, <2>4 DEF HandleHeartTimeOut
<1>5. ASSUME NEW l \in Links, HandleDispatch(l)
      PROVE  FlowTypeOK'
  <2>1. Head(cq[l]) \in Sms
    BY <1>5 DEF HandleDispatch, LinkTyped, QueueTypeOK
  <2>2. Segs[Head(cq[l])] \in Nat
    BY <2>1, LinkAssumption
  <2>3. FlowSendResponse(wnd[l] - 1, slider[l]) \in Int
    BY <1>0 DEF FlowSendResponse
  <2>4. wnd' \in [Links -> Int] /\ rspAge' \in [Links -> Nat]
    <3>1. CASE SendSms(l, Head(cq[l]))
      BY <2>2, <3>1 DEF SendSms, FlowSendRequst
    <3>2. CASE SendSmsUnconnected(l, Head(cq[l]))
      BY <2>3, <3>2 DEF SendSmsUnconnected
    <3>3. QED
      BY <1>5, <3>1, <3>2 DEF HandleDispatch
  <2>5. QED
    BY <1>5, <2>4 DEF HandleDispatch
<1>6. ASSUME NEW l \in Links, NEW n \in Sliders,
             HandleChannelSlideWindowUpdate(l, n)
      PROVE  FlowTypeOK'
  BY <1>0, <1>6 DEF HandleChannelSlideWindowUpdate
<1>7. ASSUME NEW l \in Links, NEW n \in Sliders,
             HandleChannelCloseTimeOut(l, n)
      PROVE  FlowTypeOK'
  BY <1>0, <1>7 DEF HandleChannelCloseTimeOut, LoginLost
<1>8. ASSUME NEW l \in Links,
             \/ OnHeartbeat(l) \/ OnBadPacket(l) \/ HandleReset(l)
             \/ HandleChannelDel(l) \/ HeartFires(l)
      PROVE  FlowTypeOK'
  BY <1>8 DEF OnHeartbeat, OnBadPacket, HandleReset, HandleChannelDel,
              HeartFires
<1>9. ASSUME \/ \E l \in Links, m \in Sms : EnvDispatch(l, m)
             \/ \E l \in Links, msg \in ThreadMsg : EnvControl(l, msg)
             \/ EnvTakePool
             \/ \E r \in statusQ : EnvTakeStatus(r)
      PROVE  FlowTypeOK'
  BY <1>9 DEF EnvDispatch, EnvControl, EnvTakePool, EnvTakeStatus
<1>10. CASE UNCHANGED link_vars
  BY <1>10 DEF link_vars
<1>11. QED
  BY <1>1, <1>2, <1>3, <1>4, <1>5, <1>6, <1>7, <1>8, <1>9, <1>10
     DEF LinkNext, LinkStep, LinkGateway, LinkMessage

LEMMA SessTypeStep == LinkTyped /\ [LinkNext]_link_vars => SessTypeOK'
<1> SUFFICES ASSUME LinkTyped, SessTypeOK, [LinkNext]_link_vars
             PROVE  SessTypeOK'
  BY DEF LinkTyped
<1> USE DEF SessTypeOK, sess_vars
<1>0. Segs \in [Sms -> Nat] /\ Total \in [Sms -> Nat]
  BY LinkAssumption
<1>1. ASSUME NEW l \in Links, NEW s \in wire[l], NEW st \in {"SUCCESS", "FAIL"},
             OnSubmitResp(l, s, st)
      PROVE  SessTypeOK'
  <2>1. CASE s \notin packetDB[l]
    BY <1>1, <2>1 DEF OnSubmitResp
  <2>2. CASE s \in packetDB[l]
    <3>1. {s} \in SUBSET Seg /\ st \in Status
      BY <2>2 DEF Status
    <3>2. channelStatusReport({s}, st, Total)
      BY <1>1, <2>2 DEF OnSubmitResp
    <3>3. statusQ' \subseteq Report /\ reported' \in [Sms -> Nat]
      BY <1>0, <3>1, <3>2, ReportType
    <3>4. QED
      BY <1>1, <2>2, <3>3 DEF OnSubmitResp
  <2>3. QED
    BY <2>1, <2>2
<1>2. ASSUME NEW l \in Links, HandleHeartTimeOut(l)
      PROVE  SessTypeOK'
  <2>1. CASE Expire(l)
    BY <2>1, ExpireType
  <2>2. CASE UNCHANGED sess_vars
    BY <2>2
  <2>3. QED
    BY <1>2, <2>1, <2>2 DEF HandleHeartTimeOut
<1>3. ASSUME NEW l \in Links, HandleDispatch(l)
      PROVE  SessTypeOK'
  <2> DEFINE m == Head(cq[l])
  <2>1. m \in Sms
    BY <1>3 DEF HandleDispatch, LinkTyped, QueueTypeOK
  <2> HIDE DEF m
  <2>2. CASE SendSms(l, m)
    <3>1. SegsOf(m) \in SUBSET Seg /\ Segs[m] \in Nat
      BY <1>0, <2>1, SegsOfType
    <3>2. /\ packetDB' = [packetDB EXCEPT ![l] = @ \cup SegsOf(m)]
          /\ written' = [written EXCEPT ![m] = @ + Segs[m]]
          /\ UNCHANGED <<age, statusQ, reported, dropped>>
      BY <1>3, <2>2 DEF HandleDispatch, SendSms
    <3>3. QED
      BY <2>1, <3>1, <3>2
  <2>3. CASE SendSmsUnconnected(l, m)
    <3>1. {<<m, 0>>} \in SUBSET Seg /\ "SOCKET_ERR" \in Status
      BY <2>1, SegsOfType DEF Status
    <3>2. [n \in Sms |-> 1] \in [Sms -> Nat]
      OBVIOUS
    <3>3. statusQ' \subseteq Report /\ reported' \in [Sms -> Nat]
      BY <2>3, <3>1, <3>2, ReportType DEF SendSmsUnconnected
    <3>4. /\ written' = [written EXCEPT ![m] = @ + 1]
          /\ UNCHANGED <<packetDB, age, dropped>>
      BY <1>3, <2>3 DEF HandleDispatch, SendSmsUnconnected
    <3>5. QED
      BY <2>1, <3>3, <3>4
  <2>4. QED
    BY <1>3, <2>2, <2>3 DEF HandleDispatch, m
<1>4. ASSUME NEW l \in Links, HandleChannelDel(l)
      PROVE  SessTypeOK'
  <2>1. CASE chan[l] = "live"
    <3> DEFINE M == {cq[l][i] : i \in 1 .. Len(cq[l])}
               S == {<<m, 0>> : m \in M}
    <3>1. M \in SUBSET Sms
      <4>1. cq[l] \in Seq(Sms)
        BY DEF LinkTyped, QueueTypeOK
      <4>2. \A i \in 1 .. Len(cq[l]) : cq[l][i] \in Sms
        BY <4>1
      <4>3. QED
        BY <4>2
    <3>2. S \in SUBSET Seg /\ "NO_CHANNEL" \in Status
      BY <3>1, SegsOfType DEF Status
    <3>3. [n \in Sms |-> 1] \in [Sms -> Nat]
      OBVIOUS
    <3>4. /\ channelStatusReport(S, "NO_CHANNEL", [n \in Sms |-> 1])
          /\ written' = [m \in Sms |-> IF m \in M THEN written[m] + 1
                                       ELSE written[m]]
          /\ UNCHANGED <<packetDB, age, dropped>>
      BY <1>4, <2>1 DEF HandleChannelDel
    <3> HIDE DEF S, M
    <3>5. statusQ' \subseteq Report /\ reported' \in [Sms -> Nat]
      BY <3>2, <3>3, <3>4, ReportType
    <3>6. QED
      BY <3>4, <3>5
  <2>2. CASE chan[l] # "live"
    BY <1>4, <2>2 DEF HandleChannelDel
  <2>3. QED
    BY <2>1, <2>2
<1>5. ASSUME NEW l \in Links, NEW n \in Sliders,
             HandleChannelCloseTimeOut(l, n)
      PROVE  SessTypeOK'
  <2>1. PICK S \in SUBSET packetDB[l] :
           /\ channelStatusReport(S, "INTERNAL_ERROR", Total)
           /\ dropped' = [m \in Sms |->
                 dropped[m] + Cardinality(Of(packetDB[l] \ S, m))]
    BY <1>5 DEF HandleChannelCloseTimeOut
  <2>2. S \in SUBSET Seg /\ "INTERNAL_ERROR" \in Status
    BY <2>1 DEF Status
  <2>3. statusQ' \subseteq Report /\ reported' \in [Sms -> Nat]
    BY <1>0, <2>1, <2>2, ReportType
  <2>4. \A m \in Sms : Of(packetDB[l] \ S, m) \in SUBSET Seg
    BY DEF Of
  <2>5. \A m \in Sms : Cardinality(Of(packetDB[l] \ S, m)) \in Nat
    BY <2>4, SegCard
  <2>6. dropped' \in [Sms -> Nat]
    <3> DEFINE c(m) == Cardinality(Of(packetDB[l] \ S, m))
    <3>1. dropped' = [m \in Sms |-> dropped[m] + c(m)]
      BY <2>1
    <3>2. \A m \in Sms : c(m) \in Nat
      BY <2>5
    <3> HIDE DEF c
    <3>3. QED
      BY <3>1, <3>2
  <2>7. QED
    BY <1>5, <2>3, <2>6 DEF HandleChannelCloseTimeOut
<1>6. ASSUME NEW l \in Links, NEW n \in Sliders,
             \/ OnConnRespOk(l) \/ OnConnRespFail(l) \/ OnHeartbeat(l)
             \/ OnBadPacket(l) \/ \E st \in {"CLOSE", "EXCEPT"} : OnClosed(l, st)
             \/ HandleReset(l) \/ HandleChannelSlideWindowUpdate(l, n)
             \/ HeartFires(l)
      PROVE  SessTypeOK'
  BY <1>6 DEF OnConnRespOk, OnConnRespFail, OnHeartbeat, OnBadPacket, OnClosed,
              HandleReset, HandleChannelSlideWindowUpdate, HeartFires
<1>7. ASSUME \/ \E l \in Links, m \in Sms : EnvDispatch(l, m)
             \/ \E l \in Links, msg \in ThreadMsg : EnvControl(l, msg)
             \/ EnvTakePool
             \/ \E r \in statusQ : EnvTakeStatus(r)
      PROVE  SessTypeOK'
  BY <1>7 DEF EnvDispatch, EnvControl, EnvTakePool, EnvTakeStatus
<1>8. CASE UNCHANGED link_vars
  BY <1>8 DEF link_vars
<1>9. QED
  BY <1>1, <1>2, <1>3, <1>4, <1>5, <1>6, <1>7, <1>8, LinkAssumption
     DEF LinkNext, LinkStep, LinkGateway, LinkMessage

LEMMA QueueTypeStep == LinkTyped /\ [LinkNext]_link_vars => QueueTypeOK'
<1> SUFFICES ASSUME LinkTyped, QueueTypeOK, [LinkNext]_link_vars
             PROVE  QueueTypeOK'
  BY DEF LinkTyped
<1> USE DEF QueueTypeOK
<1>0. {Msg("HEART", 0), Msg("RESET", 0), Msg("DEL", 0)} \subseteq ThreadMsg
  BY DEF ThreadMsg
<1>1. ASSUME NEW l \in Links, LinkGateway(l)
      PROVE  QueueTypeOK'
  <2>1. CASE OnConnRespOk(l)
    BY <2>1 DEF OnConnRespOk
  <2>2. CASE OnConnRespFail(l)
    BY <2>2 DEF OnConnRespFail
  <2>3. CASE \E s \in wire[l], st \in {"SUCCESS", "FAIL"} : OnSubmitResp(l, s, st)
    BY <2>3 DEF OnSubmitResp
  <2>4. CASE OnHeartbeat(l)
    BY <2>4 DEF OnHeartbeat
  <2>5. CASE OnBadPacket(l)
    BY <1>0, <2>5 DEF OnBadPacket
  <2>6. CASE \E st \in {"CLOSE", "EXCEPT"} : OnClosed(l, st)
    BY <2>6 DEF OnClosed
  <2>7. QED
    BY <1>1, <2>1, <2>2, <2>3, <2>4, <2>5, <2>6 DEF LinkGateway
<1>2. ASSUME NEW l \in Links, HeartFires(l)
      PROVE  QueueTypeOK'
  BY <1>0, <1>2 DEF HeartFires
<1>3. \A l \in Links, k \in ThreadMsg :
         Takes(l, k) => dq' \in [Links -> Seq(ThreadMsg)]
  BY DEF Takes
<1>4. ASSUME NEW l \in Links, HandleHeartTimeOut(l) \/ HandleReset(l)
      PROVE  QueueTypeOK'
  BY <1>0, <1>3, <1>4 DEF HandleHeartTimeOut, HandleReset
<1>5. ASSUME NEW l \in Links, HandleDispatch(l)
      PROVE  QueueTypeOK'
  BY <1>5 DEF HandleDispatch
<1>6. ASSUME NEW l \in Links, NEW n \in Sliders,
             HandleChannelSlideWindowUpdate(l, n)
      PROVE  QueueTypeOK'
  <2>1. Msg("UPDATE", n) \in ThreadMsg
    BY DEF ThreadMsg
  <2>2. QED
    BY <1>3, <1>6, <2>1 DEF HandleChannelSlideWindowUpdate
<1>7. ASSUME NEW l \in Links, HandleChannelDel(l)
      PROVE  QueueTypeOK'
  <2>1. dq' \in [Links -> Seq(ThreadMsg)]
    BY <1>0, <1>3, <1>7 DEF HandleChannelDel
  <2>2. cq' = [cq EXCEPT ![l] = <<>>] \/ cq' = cq
    BY <1>7 DEF HandleChannelDel
  <2>3. cq' \in [Links -> Seq(Sms)]
    <3>1. <<>> \in Seq(Sms) /\ cq \in [Links -> Seq(Sms)]
      OBVIOUS
    <3>2. QED
      BY <2>2, <3>1
  <2>4. QED
    BY <1>7, <2>1, <2>3 DEF HandleChannelDel
<1>8. ASSUME NEW l \in Links, NEW n \in Sliders,
             HandleChannelCloseTimeOut(l, n)
      PROVE  QueueTypeOK'
  BY <1>8 DEF HandleChannelCloseTimeOut
<1>9. ASSUME NEW l \in Links, NEW m \in Sms, EnvDispatch(l, m)
      PROVE  QueueTypeOK'
  BY <1>9 DEF EnvDispatch, PostChannelMsg
<1>10. ASSUME NEW l \in Links, NEW msg \in ThreadMsg, EnvControl(l, msg)
       PROVE  QueueTypeOK'
  BY <1>10 DEF EnvControl, PostControl
<1>11. ASSUME EnvTakePool \/ \E r \in statusQ : EnvTakeStatus(r)
       PROVE  QueueTypeOK'
  BY <1>11 DEF EnvTakePool, EnvTakeStatus
<1>12. CASE UNCHANGED link_vars
  BY <1>12 DEF link_vars
<1>13. QED
  BY <1>1, <1>2, <1>4, <1>5, <1>6, <1>7, <1>8, <1>9, <1>10, <1>11, <1>12
     DEF LinkNext, LinkStep, LinkMessage

LEMMA LinkTypedStep == LinkTyped /\ [LinkNext]_link_vars => LinkTyped'
BY ConnTypeStep, FlowTypeStep, SessTypeStep, QueueTypeStep DEF LinkTyped

(* What a step of a link tells the pool.                                   *)
LEMMA LinkStepNotifies ==
    ASSUME LinkTyped, NEW l \in Links, LinkStep(l)
    PROVE  Notified(l)
<1>0. /\ slider[l] \in Sliders /\ wnd[l] \in Int /\ slider[l] \in Int
      /\ \A n \in Sliders : n \in Nat
      /\ loginState \in [Links -> {0, 1, 2}]
  <2>1. \A n \in Sliders : n \in Nat /\ n \in Int
    BY LinkAssumption
  <2>2. QED
    BY <2>1 DEF LinkTyped, FlowTypeOK, ConnTypeOK
<1>1. CASE OnConnRespOk(l)
  <2>1. CASE loginState[l] = 1
    BY <1>0, <1>1, <2>1 DEF OnConnRespOk, LoginPost, Notified
  <2>2. CASE loginState[l] # 1
    <3> DEFINE msg == LoginMsgOf(l, 1, slider[l], slider[l], FALSE)
    <3>1. /\ msg \in LoginMsg /\ msg.node = l /\ msg.new = 1 /\ ~msg.bDelAll
          /\ LoginPost(l, 1, slider[l], slider[l], FALSE) = Append(poolQ, msg)
      BY <1>0, <2>2 DEF LoginPost, LoginMsgOf, LoginMsg
    <3>2. /\ poolQ' = Append(poolQ, msg)
          /\ loginState' = [loginState EXCEPT ![l] = msg.new]
      BY <1>1, <3>1 DEF OnConnRespOk
    <3> HIDE DEF msg
    <3>3. QED
      BY <3>1, <3>2 DEF Notified
  <2>3. QED
    BY <2>1, <2>2
<1>2. CASE OnConnRespFail(l)
  BY <1>0, <1>2, LoginLostType DEF OnConnRespFail
<1>3. ASSUME NEW st \in {"CLOSE", "EXCEPT"}, OnClosed(l, st)
      PROVE  Notified(l)
  BY <1>0, <1>3, LoginLostType DEF OnClosed
<1>4. ASSUME NEW n \in Sliders, HandleChannelCloseTimeOut(l, n)
      PROVE  Notified(l)
  <2> DEFINE w == IF slider[l] = n THEN wnd[l] ELSE n
  <2>1. w \in Int /\ chan[l] = "closing"
    BY <1>0, <1>4 DEF HandleChannelCloseTimeOut
  <2>2. LoginLost(l, 2, w, n, TRUE)
    BY <1>4 DEF HandleChannelCloseTimeOut
  <2> HIDE DEF w
  <2>3. QED
    BY <2>1, <2>2, LoginLostType
<1>5. CASE HandleHeartTimeOut(l)
  <2>1. CASE TimerConn(l)
    BY <1>0, <2>1, LoginLostType DEF TimerConn
  <2>2. CASE TimerAlive(l)
    <3> DEFINE r == [type |-> "RESETWND", iWnd |-> slider[l]]
    <3>1. r \in ResetMsg
      BY <1>0 DEF ResetMsg
    <3>2. poolQ' = Append(poolQ, r) \/ poolQ' = poolQ
      BY <2>2 DEF TimerAlive
    <3>3. UNCHANGED loginState
      BY <2>2 DEF TimerAlive
    <3> HIDE DEF r
    <3>4. QED
      BY <3>1, <3>2, <3>3 DEF Notified
  <2>3. CASE TimerHeartLost(l)
    <3>1. UNCHANGED poolQ /\ reConn(l)
      BY <2>3 DEF TimerHeartLost
    <3>2. UNCHANGED loginState
      BY <3>1, reConnCases DEF conn_vars
    <3>3. QED
      BY <3>1, <3>2 DEF Notified
  <2>4. CASE UNCHANGED <<conn_vars, flow_vars, sess_vars, heart, poolQ>>
    BY <2>4 DEF conn_vars, Notified
  <2>5. QED
    BY <1>5, <2>1, <2>2, <2>3, <2>4 DEF HandleHeartTimeOut
<1>6. CASE HandleReset(l)
  <2>1. UNCHANGED poolQ /\ (reConn(l) \/ UNCHANGED conn_vars)
    BY <1>6 DEF HandleReset
  <2>2. UNCHANGED loginState
    BY <2>1, reConnCases DEF conn_vars
  <2>3. QED
    BY <2>1, <2>2 DEF Notified
<1>7. ASSUME \/ OnHeartbeat(l) \/ OnBadPacket(l) \/ HandleChannelDel(l)
             \/ HandleDispatch(l) \/ HeartFires(l)
             \/ \E n \in Sliders : HandleChannelSlideWindowUpdate(l, n)
             \/ \E s \in wire[l], st \in {"SUCCESS", "FAIL"} :
                   OnSubmitResp(l, s, st)
      PROVE  Notified(l)
  <2>1. UNCHANGED <<poolQ, loginState>>
    BY <1>7 DEF OnHeartbeat, OnBadPacket, HandleChannelDel, HandleDispatch,
                HeartFires, HandleChannelSlideWindowUpdate, OnSubmitResp, conn_vars
  <2>2. QED
    BY <2>1 DEF Notified
<1>8. QED
  BY <1>1, <1>2, <1>3, <1>4, <1>5, <1>6, <1>7
     DEF LinkStep, LinkGateway, LinkMessage

LEMMA NotifyTypeStep ==
    LinkTyped /\ NotifyTypeOK /\ [LinkNext]_link_vars => NotifyTypeOK'
<1> SUFFICES ASSUME LinkTyped, NotifyTypeOK, [LinkNext]_link_vars
             PROVE  NotifyTypeOK'
  OBVIOUS
<1> USE DEF NotifyTypeOK
<1>1. ASSUME NEW l \in Links, LinkStep(l)
      PROVE  NotifyTypeOK'
  <2>1. \/ poolQ' = poolQ
        \/ \E msg \in LoginMsg \cup ResetMsg : poolQ' = Append(poolQ, msg)
    BY <1>1, LinkStepNotifies DEF Notified
  <2>2. QED
    BY <2>1
<1>2. CASE EnvTakePool
  BY <1>2 DEF EnvTakePool
<1>3. ASSUME \/ \E l \in Links, m \in Sms : EnvDispatch(l, m)
             \/ \E l \in Links, msg \in ThreadMsg : EnvControl(l, msg)
             \/ \E r \in statusQ : EnvTakeStatus(r)
             \/ UNCHANGED link_vars
      PROVE  NotifyTypeOK'
  BY <1>3 DEF EnvDispatch, EnvControl, EnvTakeStatus, link_vars
<1>4. QED
  BY <1>1, <1>2, <1>3 DEF LinkNext

(* Every variable of the links keeps its type, whatever the gateway sends: *)
(* what the threads find in their queues are messages they know, and every *)
(* report the pool reads is about a segment of an SMS.                     *)
THEOREM LinkTypeCorrect == LinkSpec => []LinkTypeOK
<1>1. LinkTypeOK /\ [LinkNext]_link_vars => LinkTypeOK'
  BY LinkTypedStep, NotifyTypeStep DEF LinkTypeOK, LinkTyped
<1>2. QED
  BY <1>1, LinkTypeInit, PTL DEF LinkSpec

-----------------------------------------------------------------------------
(* The connection of one link, with what makes the invariant inductive: a  *)
(* deleted link has no socket, so that no login can reach it any more.     *)
ConnConsistent(l) ==
    /\ m_iState[l] = "DATATRAN" =>
          loginState[l] = 1 /\ m_bHasConn[l] /\ sock[l] = "open"
    /\ m_bHasReconnTask[l] =>
          /\ ~m_bHasConn[l] /\ sock[l] = "none"
          /\ m_iState[l] = IF chan[l] = "gone" THEN "CLOSE" ELSE "INIT"
    /\ loginState[l] = 1 => m_iState[l] \in {"DATATRAN", "INIT"}
    /\ wire[l] # {} => m_iState[l] = "DATATRAN"
    /\ chan[l] = "gone" =>
          packetDB[l] = {} /\ loginState[l] = 2 /\ sock[l] = "none"

ConnInv == \A l \in Links : ConnConsistent(l)

(* A step of link l that leaves the other links alone keeps them           *)
(* consistent.                                                             *)
SameLink(k) ==
    /\ chan'[k] = chan[k] /\ m_iState'[k] = m_iState[k]
    /\ m_bHasConn'[k] = m_bHasConn[k]
    /\ m_bHasReconnTask'[k] = m_bHasReconnTask[k]
    /\ loginState'[k] = loginState[k] /\ sock'[k] = sock[k]
    /\ wire'[k] = wire[k] /\ packetDB'[k] = packetDB[k]

LEMMA SameLinkConsistent ==
    ASSUME NEW k \in Links, ConnConsistent(k), SameLink(k)
    PROVE  ConnConsistent(k)'
BY DEF ConnConsistent, SameLink

LEMMA GatewayConsistent ==
    ASSUME LinkTyped, ConnInv, NEW l \in Links, LinkGateway(l)
    PROVE  ConnInv'
<1> SUFFICES ASSUME NEW k \in Links
             PROVE  ConnConsistent(k)'
  BY DEF ConnInv
<1>0. ConnConsistent(k) /\ ConnTypeOK /\ SessTypeOK
  BY DEF ConnInv, LinkTyped
<1> USE DEF ConnTypeOK, SessTypeOK, conn_vars, flow_vars, sess_vars
<1>1. CASE OnConnRespOk(l)
  <2>1. CASE k = l
    BY <1>0, <1>1, <2>1 DEF OnConnRespOk, Listening, ConnConsistent
  <2>2. CASE k # l
    BY <1>0, <1>1, <2>2, SameLinkConsistent DEF OnConnRespOk, SameLink
  <2>3. QED
    BY <2>1, <2>2
<1>2. CASE OnConnRespFail(l)
  <2>1. CASE k = l
    BY <1>0, <1>2, <2>1 DEF OnConnRespFail, LoginLost, Listening, ConnConsistent
  <2>2. CASE k # l
    BY <1>0, <1>2, <2>2, SameLinkConsistent
       DEF OnConnRespFail, LoginLost, SameLink
  <2>3. QED
    BY <2>1, <2>2
<1>3. ASSUME NEW s \in wire[l], NEW st \in {"SUCCESS", "FAIL"},
             OnSubmitResp(l, s, st)
      PROVE  ConnConsistent(k)'
  <2>1. CASE k = l
    BY <1>0, <1>3, <2>1 DEF OnSubmitResp, ConnConsistent
  <2>2. CASE k # l
    BY <1>0, <1>3, <2>2, SameLinkConsistent DEF OnSubmitResp, SameLink
  <2>3. QED
    BY <2>1, <2>2
<1>4. ASSUME OnHeartbeat(l) \/ OnBadPacket(l)
      PROVE  ConnConsistent(k)'
  BY <1>0, <1>4, SameLinkConsistent DEF OnHeartbeat, OnBadPacket, SameLink
<1>5. ASSUME NEW st \in {"CLOSE", "EXCEPT"}, OnClosed(l, st)
      PROVE  ConnConsistent(k)'
  <2>1. CASE k = l
    BY <1>0, <1>5, <2>1 DEF OnClosed, LoginLost, ConnConsistent
  <2>2. CASE k # l
    BY <1>0, <1>5, <2>2, SameLinkConsistent DEF OnClosed, LoginLost, SameLink
  <2>3. QED
    BY <2>1, <2>2
<1>6. QED
  BY <1>1, <1>2, <1>3, <1>4, <1>5 DEF LinkGateway

LEMMA reConnConsistent ==
    ASSUME ConnTypeOK, NEW l \in Links, NEW k \in Links, reConn(l),
           ConnConsistent(k), chan[l] = "live", UNCHANGED chan,
           \A i \in Links : packetDB'[i] \subseteq packetDB[i]
    PROVE  ConnConsistent(k)'
<1> USE DEF ConnTypeOK, ConnConsistent
<1>1. CASE UNCHANGED conn_vars
  BY <1>1 DEF conn_vars
<1>2. CASE /\ m_bHasReconnTask' = [m_bHasReconnTask EXCEPT ![l] = TRUE]
           /\ m_iState' = [m_iState EXCEPT ![l] = "INIT"]
           /\ sock' = [sock EXCEPT ![l] = "none"]
           /\ wire' = [wire EXCEPT ![l] = {}]
           /\ m_bHasConn' = [m_bHasConn EXCEPT ![l] = FALSE]
           /\ m_uHeartbeatTick' = [m_uHeartbeatTick EXCEPT ![l] = 0]
           /\ UNCHANGED loginState
  BY <1>2
<1>3. QED
  BY <1>1, <1>2, reConnCases

LEMMA ThreadConsistent ==
    ASSUME LinkTyped, ConnInv, NEW l \in Links, NEW n \in Sliders,
           \/ HandleHeartTimeOut(l) \/ HandleReset(l) \/ HandleDispatch(l)
           \/ HandleChannelSlideWindowUpdate(l, n) \/ HandleChannelDel(l)
           \/ HandleChannelCloseTimeOut(l, n) \/ HeartFires(l)
    PROVE  ConnInv'
<1> SUFFICES ASSUME NEW k \in Links
             PROVE  ConnConsistent(k)'
  BY DEF ConnInv
<1>0. ConnConsistent(k) /\ ConnTypeOK /\ SessTypeOK
  BY DEF ConnInv, LinkTyped
<1> USE DEF ConnTypeOK, SessTypeOK, conn_vars, flow_vars, sess_vars
<1>1. CASE HandleHeartTimeOut(l)
  <2>1. CASE chan[l] # "live"
    BY <1>0, <1>1, <2>1, SameLinkConsistent DEF HandleHeartTimeOut, SameLink
  <2>2. CASE chan[l] = "live"
    <3>1. UNCHANGED chan /\ \A i \in Links : packetDB'[i] \subseteq packetDB[i]
      BY <1>0, <1>1, <2>2 DEF HandleHeartTimeOut, Expire
    <3>2. CASE TimerConn(l)
      BY <1>0, <2>2, <3>1, <3>2 DEF TimerConn, LoginLost, ConnConsistent
    <3>3. CASE TimerHeartLost(l)
      BY <1>0, <2>2, <3>1, <3>3, reConnConsistent DEF TimerHeartLost
    <3>4. CASE TimerAlive(l)
      BY <1>0, <3>1, <3>4 DEF TimerAlive, ConnConsistent
    <3>5. QED
      BY <1>1, <2>2, <3>2, <3>3, <3>4 DEF HandleHeartTimeOut
  <2>3. QED
    BY <2>1, <2>2
<1>2. CASE HandleReset(l)
  <2>1. CASE chan[l] = "live"
    BY <1>0, <1>2, <2>1, reConnConsistent DEF HandleReset
  <2>2. CASE chan[l] # "live"
    BY <1>0, <1>2, <2>2, SameLinkConsistent DEF HandleReset, SameLink
  <2>3. QED
    BY <2>1, <2>2
<1>3. CASE HandleDispatch(l)
  <2>1. CASE SendSms(l, Head(cq[l]))
    BY <1>0, <1>3, <2>1 DEF HandleDispatch, SendSms, ConnConsistent
  <2>2. CASE SendSmsUnconnected(l, Head(cq[l]))
    BY <1>0, <1>3, <2>2, SameLinkConsistent
       DEF HandleDispatch, SendSmsUnconnected, SameLink
  <2>3. QED
    BY <1>3, <2>1, <2>2 DEF HandleDispatch
<1>4. ASSUME HandleChannelSlideWindowUpdate(l, n) \/ HeartFires(l)
      PROVE  ConnConsistent(k)'
  BY <1>0, <1>4, SameLinkConsistent
     DEF HandleChannelSlideWindowUpdate, HeartFires, SameLink
<1>5. CASE HandleChannelDel(l)
  <2>1. CASE k = l
    BY <1>0, <1>5, <2>1 DEF HandleChannelDel, ConnConsistent
  <2>2. CASE k # l
    BY <1>0, <1>5, <2>2, SameLinkConsistent DEF HandleChannelDel, SameLink
  <2>3. QED
    BY <2>1, <2>2
<1>6. CASE HandleChannelCloseTimeOut(l, n)
  <2>1. CASE k = l
    BY <1>0, <1>6, <2>1 DEF HandleChannelCloseTimeOut, LoginLost, ConnConsistent
  <2>2. CASE k # l
    BY <1>0, <1>6, <2>2, SameLinkConsistent
       DEF HandleChannelCloseTimeOut, LoginLost, SameLink
  <2>3. QED
    BY <2>1, <2>2
<1>7. QED
  BY <1>1, <1>2, <1>3, <1>4, <1>5, <1>6

LEMMA EnvConsistent ==
    ASSUME ConnInv,
           \/ \E l \in Links, m \in Sms : EnvDispatch(l, m)
           \/ \E l \in Links, msg \in ThreadMsg : EnvControl(l, msg)
           \/ EnvTakePool
           \/ \E r \in statusQ : EnvTakeStatus(r)
           \/ UNCHANGED link_vars
    PROVE  ConnInv'
<1>1. UNCHANGED <<chan, conn_vars, packetDB>>
  BY DEF EnvDispatch, EnvControl, EnvTakePool, EnvTakeStatus, link_vars,
         sess_vars
<1>2. QED
  BY <1>1 DEF ConnInv, ConnConsistent, conn_vars

LEMMA ConnInit == InitLink => ConnInv
BY DEF InitLink, ConnInv, ConnConsistent

LEMMA ConnStep == LinkTyped /\ ConnInv /\ [LinkNext]_link_vars => ConnInv'
BY GatewayConsistent, ThreadConsistent, EnvConsistent, LinkAssumption
   DEF LinkNext, LinkStep, LinkMessage

(* The flags a link keeps about its connection agree, in every order of    *)
(* logins, closes, errors, bad packets, reconnects and deletion.           *)
THEOREM ConnectionConsistent == LinkSpec => []LinkStateConsistent
<1>1. LinkTypeOK => LinkTyped
  BY DEF LinkTypeOK, LinkTyped
<1>2. ConnInv => LinkStateConsistent
  BY DEF ConnInv, ConnConsistent, LinkStateConsistent
<1>3. QED
  BY <1>1, <1>2, ConnInit, ConnStep, LinkTypeCorrect, PTL DEF LinkSpec

-----------------------------------------------------------------------------
(* The window.                                                             *)
LEMMA CappedInit == InitLink => WindowCapped
BY LinkAssumption DEF InitLink, WindowCapped

LEMMA CappedStep == LinkTyped /\ WindowCapped /\ [LinkNext]_link_vars => WindowCapped'
<1> SUFFICES ASSUME LinkTyped, WindowCapped, [LinkNext]_link_vars, NEW k \in Links
             PROVE  (wnd[k] <= slider[k])'
  BY DEF WindowCapped
<1>0. /\ wnd[k] <= slider[k] /\ FlowTypeOK
      /\ \A n \in Sliders : n \in Nat
      /\ \A l \in Links : slider[l] \in Nat /\ wnd[l] \in Int
  BY LinkAssumption DEF WindowCapped, LinkTyped, FlowTypeOK
<1> USE DEF FlowTypeOK
<1>1. ASSUME NEW l \in Links, NEW new \in {0, 1, 2}, NEW b \in BOOLEAN,
             LoginLost(l, new, wnd[l], slider[l], b), UNCHANGED slider
      PROVE  (wnd[k] <= slider[k])'
  BY <1>0, <1>1 DEF LoginLost
<1>2. ASSUME NEW l \in Links, LinkGateway(l)
      PROVE  (wnd[k] <= slider[k])'
  <2>1. CASE OnConnRespOk(l)
    BY <1>0, <2>1 DEF OnConnRespOk
  <2>2. ASSUME NEW s \in wire[l], NEW st \in {"SUCCESS", "FAIL"},
               OnSubmitResp(l, s, st)
        PROVE  (wnd[k] <= slider[k])'
    <3>1. FlowSendResponse(wnd[l], slider[l]) <= slider[l]
      BY <1>0 DEF FlowSendResponse
    <3>2. QED
      BY <1>0, <2>2, <3>1 DEF OnSubmitResp
  <2>3. ASSUME OnConnRespFail(l) \/ \E st \in {"CLOSE", "EXCEPT"} : OnClosed(l, st)
        PROVE  (wnd[k] <= slider[k])'
    BY <1>1, <2>3 DEF OnConnRespFail, OnClosed
  <2>4. ASSUME OnHeartbeat(l) \/ OnBadPacket(l)
        PROVE  (wnd[k] <= slider[k])'
    BY <1>0, <2>4 DEF OnHeartbeat, OnBadPacket, flow_vars
  <2>5. QED
    BY <1>2, <2>1, <2>2, <2>3, <2>4 DEF LinkGateway
<1>3. ASSUME NEW l \in Links, HandleHeartTimeOut(l)
      PROVE  (wnd[k] <= slider[k])'
  <2>1. CASE TimerConn(l)
    BY <1>1, <2>1 DEF TimerConn
  <2>2. CASE TimerAlive(l) /\ MustReset(l)
    <3>1. wnd' = [wnd EXCEPT ![l] = slider[l]] /\ slider' = slider
      BY <2>2 DEF TimerAlive
    <3>2. QED
      BY <1>0, <3>1
  <2>3. CASE UNCHANGED <<wnd, slider>>
    BY <1>0, <2>3
  <2>4. QED
    BY <1>3, <2>1, <2>2, <2>3
       DEF HandleHeartTimeOut, TimerHeartLost, TimerAlive, flow_vars
<1>4. ASSUME NEW l \in Links, HandleDispatch(l)
      PROVE  (wnd[k] <= slider[k])'
  <2>1. Head(cq[l]) \in Sms
    BY <1>4 DEF HandleDispatch, LinkTyped, QueueTypeOK
  <2>2. Segs[Head(cq[l])] \in Nat
    BY <2>1, LinkAssumption
  <2>3. FlowSendResponse(wnd[l] - 1, slider[l]) <= slider[l]
    BY <1>0 DEF FlowSendResponse
  <2>4. CASE SendSms(l, Head(cq[l]))
    BY <1>0, <1>4, <2>2, <2>4 DEF HandleDispatch, SendSms, FlowSendRequst
  <2>5. CASE SendSmsUnconnected(l, Head(cq[l]))
    BY <1>0, <1>4, <2>3, <2>5 DEF HandleDispatch, SendSmsUnconnected
  <2>6. QED
    BY <1>4, <2>4, <2>5 DEF HandleDispatch
<1>5. ASSUME NEW l \in Links, NEW n \in Sliders,
             HandleChannelSlideWindowUpdate(l, n)
      PROVE  (wnd[k] <= slider[k])'
  BY <1>0, <1>5 DEF HandleChannelSlideWindowUpdate
<1>6. ASSUME NEW l \in Links, NEW n \in Sliders,
             HandleChannelCloseTimeOut(l, n)
      PROVE  (wnd[k] <= slider[k])'
  BY <1>0, <1>6 DEF HandleChannelCloseTimeOut, LoginLost
<1>7. ASSUME NEW l \in Links,
             HandleReset(l) \/ HandleChannelDel(l) \/ HeartFires(l)
      PROVE  (wnd[k] <= slider[k])'
  BY <1>0, <1>7 DEF HandleReset, HandleChannelDel, HeartFires, flow_vars
<1>8. ASSUME \/ \E l \in Links, m \in Sms : EnvDispatch(l, m)
             \/ \E l \in Links, msg \in ThreadMsg : EnvControl(l, msg)
             \/ EnvTakePool
             \/ \E r \in statusQ : EnvTakeStatus(r)
             \/ UNCHANGED link_vars
      PROVE  (wnd[k] <= slider[k])'
  BY <1>0, <1>8 DEF EnvDispatch, EnvControl, EnvTakePool, EnvTakeStatus,
                    link_vars, flow_vars
<1>9. QED
  BY <1>2, <1>3, <1>4, <1>5, <1>6, <1>7, <1>8
     DEF LinkNext, LinkStep, LinkMessage

(* Late answers, window resets, logins and slider changes never give a     *)
(* link more window than the channel's slider.                             *)
THEOREM WindowNeverAboveSlider == LinkSpec => []WindowCapped
<1>1. LinkTypeOK => LinkTyped
  BY DEF LinkTypeOK, LinkTyped
<1>2. QED
  BY <1>1, CappedInit, CappedStep, LinkTypeCorrect, PTL DEF LinkSpec

-----------------------------------------------------------------------------
(* The sessions.  Pairs(db, m) are the sessions of m, each with its link.  *)
Pairs(db, m) == {x \in Links \X Seg : x[2] \in Of(db[x[1]], m)}

(* Adding sessions S to link l adds as many pairs of m as S holds, and     *)
(* taking them away removes as many.                                       *)
LEMMA PairsSplit ==
    ASSUME NEW db \in [Links -> SUBSET Seg], NEW dc \in [Links -> SUBSET Seg],
           NEW l \in Links, NEW S \in SUBSET Seg, S \cap db[l] = {},
           dc[l] = db[l] \cup S, \A k \in Links : k # l => dc[k] = db[k],
           NEW m
    PROVE  /\ IsFiniteSet(Pairs(db, m)) <=> IsFiniteSet(Pairs(dc, m))
           /\ IsFiniteSet(Pairs(db, m)) =>
                 Cardinality(Pairs(dc, m))
                    = Cardinality(Pairs(db, m)) + Cardinality(Of(S, m))
<1> DEFINE P == {l} \X Of(S, m)
<1>1. Of(S, m) \in SUBSET Seg
  BY DEF Of
<1>2. IsFiniteSet(Of(S, m)) /\ Cardinality(Of(S, m)) \in Nat
  BY <1>1, SegFinite, FS_Subset, FS_CardinalityType
<1>3. IsFiniteSet({l}) /\ Cardinality({l}) = 1
  BY FS_Singleton, Zenon
<1>4. IsFiniteSet(P) /\ Cardinality(P) = Cardinality(Of(S, m))
  BY <1>2, <1>3, FS_Product
<1>5. Pairs(dc, m) = Pairs(db, m) \cup P
  <2>1. ASSUME NEW k \in Links, NEW s \in Seg
        PROVE  <<k, s>> \in Pairs(dc, m) <=> <<k, s>> \in Pairs(db, m) \cup P
    <3>1. <<k, s>> \in Pairs(dc, m) <=> s \in dc[k] /\ SmsOf(s) = m
      BY DEF Pairs, Of
    <3>2. <<k, s>> \in Pairs(db, m) <=> s \in db[k] /\ SmsOf(s) = m
      BY DEF Pairs, Of
    <3>3. <<k, s>> \in P <=> k = l /\ s \in S /\ SmsOf(s) = m
      BY DEF Of
    <3>4. s \in dc[k] <=> s \in db[k] \/ (k = l /\ s \in S)
      OBVIOUS
    <3> HIDE DEF P
    <3>5. QED
      BY <3>1, <3>2, <3>3, <3>4
  <2>2. P \subseteq Links \X Seg
    BY <1>1
  <2>3. Pairs(dc, m) \subseteq Links \X Seg /\ Pairs(db, m) \subseteq Links \X Seg
    BY DEF Pairs
  <2> HIDE DEF P
  <2>4. ASSUME NEW x
        PROVE  x \in Pairs(dc, m) <=> x \in Pairs(db, m) \cup P
    <3>1. CASE x \in Links \X Seg
      <4>1. PICK k \in Links : \E s \in Seg : x = <<k, s>>
        BY <3>1
      <4>2. PICK s \in Seg : x = <<k, s>>
        BY <4>1
      <4>3. QED
        BY <2>1, <4>2
    <3>2. CASE x \notin Links \X Seg
      BY <2>2, <2>3, <3>2
    <3>3. QED
      BY <3>1, <3>2
  <2>5. QED
    BY <2>4
<1>6. Pairs(db, m) \cap P = {}
  BY DEF Pairs, Of
<1> HIDE DEF P
<1>7. ASSUME IsFiniteSet(Pairs(db, m))
      PROVE  /\ IsFiniteSet(Pairs(dc, m))
             /\ Cardinality(Pairs(dc, m))
                   = Cardinality(Pairs(db, m)) + Cardinality(Of(S, m))
  <2> DEFINE Q == Pairs(db, m)
  <2>0. IsFiniteSet(Q) /\ IsFiniteSet(P) /\ Q \cap P = {}
    BY <1>4, <1>6, <1>7
  <2> HIDE DEF Q
  <2>1. /\ IsFiniteSet(Q \cup P)
        /\ Cardinality(Q \cup P) =
              Cardinality(Q) + Cardinality(P) - Cardinality(Q \cap P)
    BY <2>0, FS_Union, Zenon
  <2>2. Cardinality(Q \cap P) = 0
    BY <2>0, FS_EmptySet
  <2>3. Cardinality(Q) \in Nat
    BY <2>0, FS_CardinalityType
  <2>4. Cardinality(Q \cup P) = Cardinality(Q) + Cardinality(Of(S, m))
    BY <1>2, <1>4, <2>1, <2>2, <2>3
  <2>5. Pairs(dc, m) = Q \cup P
    BY <1>5 DEF Q
  <2>6. QED
    BY <2>1, <2>4, <2>5 DEF Q
<1>8. ASSUME IsFiniteSet(Pairs(dc, m))
      PROVE  IsFiniteSet(Pairs(db, m))
  BY <1>5, <1>8, FS_Subset
<1>9. QED
  BY <1>7, <1>8

-----------------------------------------------------------------------------
(* What makes SessionsConserved inductive.  An SMS waits in one channel    *)
(* queue, once, and until then nothing has been saved or written for it,   *)
(* so that a new session never coincides with an old one.                  *)
QueuedOnce ==
    \A l, k \in Links :
        \A i \in 1 .. Len(cq[l]) : \A j \in 1 .. Len(cq[k]) :
            cq[l][i] = cq[k][j] => l = k /\ i = j
QueuedFresh ==
    \A l \in Links : \A i \in 1 .. Len(cq[l]) : written[cq[l][i]] = 0
SegsWritten ==
    \A l \in Links : \A s \in packetDB[l] \cup wire[l] : written[SmsOf(s)] > 0
SessionsCounted ==
    \A m \in Sms :
        /\ IsFiniteSet(Pairs(packetDB, m))
        /\ written[m] = reported[m] + dropped[m]
                        + Cardinality(Pairs(packetDB, m))

SessInv == QueuedOnce /\ QueuedFresh /\ SegsWritten /\ SessionsCounted

(* What a step can do to the sessions: nothing; end those in S, reporting  *)
(* or skipping each; or take the first d SMS off a queue.                  *)
WireShrinks == \A k \in Links : wire'[k] \subseteq wire[k]

SessionsKept ==
    UNCHANGED <<packetDB, written, reported, dropped, cq>> /\ WireShrinks

SessionsEnd(l, S) ==
    /\ packetDB' = [packetDB EXCEPT ![l] = @ \ S]
    /\ \A m \in Sms : reported'[m] + dropped'[m]
                         = reported[m] + dropped[m] + Cardinality(Of(S, m))
    /\ UNCHANGED <<written, cq>> /\ WireShrinks

QueueShortens(l, d) ==
    /\ \A k \in Links : k # l => cq'[k] = cq[k]
    /\ Len(cq'[l]) = Len(cq[l]) - d
    /\ \A i \in 1 .. Len(cq[l]) - d : cq'[l][i] = cq[l][i + d]

(* The first d SMS are refused, one placeholder session each.              *)
Refused1(l, d, m) == IF \E i \in 1 .. d : cq[l][i] = m THEN 1 ELSE 0
SmsRefused(l, d) ==
    /\ QueueShortens(l, d)
    /\ \A m \in Sms : /\ written'[m] = written[m] + Refused1(l, d, m)
                      /\ reported'[m] = reported[m] + Refused1(l, d, m)
    /\ UNCHANGED <<packetDB, dropped, wire>>

(* The first SMS is submitted.                                             *)
SmsSubmitted(l) ==
    /\ QueueShortens(l, 1)
    /\ packetDB' = [packetDB EXCEPT ![l] = @ \cup SegsOf(cq[l][1])]
    /\ wire' = [wire EXCEPT ![l] = @ \cup SegsOf(cq[l][1])]
    /\ written' = [written EXCEPT ![cq[l][1]] = @ + Segs[cq[l][1]]]
    /\ UNCHANGED <<reported, dropped>>

LEMMA KeptInv ==
    ASSUME SessInv, SessionsKept
    PROVE  SessInv'
<1> USE DEF SessInv, SessionsKept, WireShrinks
<1>1. QueuedOnce' /\ QueuedFresh'
  BY DEF QueuedOnce, QueuedFresh
<1>2. SegsWritten'
  BY DEF SegsWritten
<1>3. SessionsCounted'
  BY DEF SessionsCounted
<1>4. QED
  BY <1>1, <1>2, <1>3

LEMMA EndInv ==
    ASSUME LinkTyped, LinkTyped', SessInv, NEW l \in Links,
           NEW S \in SUBSET packetDB[l], SessionsEnd(l, S)
    PROVE  SessInv'
<1> USE DEF SessInv, SessionsEnd, WireShrinks
<1>0. /\ packetDB \in [Links -> SUBSET Seg] /\ packetDB' \in [Links -> SUBSET Seg]
      /\ written \in [Sms -> Nat] /\ reported \in [Sms -> Nat]
      /\ dropped \in [Sms -> Nat]
      /\ reported' \in [Sms -> Nat] /\ dropped' \in [Sms -> Nat]
      /\ packetDB' = [packetDB EXCEPT ![l] = @ \ S]
  BY DEF LinkTyped, SessTypeOK
<1>1. QueuedOnce' /\ QueuedFresh'
  BY DEF QueuedOnce, QueuedFresh
<1>2. SegsWritten'
  <2>1. \A k \in Links : packetDB'[k] \subseteq packetDB[k]
    BY <1>0
  <2>2. QED
    BY <2>1 DEF SegsWritten
<1>3. ASSUME NEW m \in Sms
      PROVE  /\ IsFiniteSet(Pairs(packetDB', m))
             /\ written'[m] = reported'[m] + dropped'[m]
                              + Cardinality(Pairs(packetDB', m))
  <2>1. S \in SUBSET Seg /\ S \cap packetDB'[l] = {}
    BY <1>0
  <2>2. /\ packetDB[l] = packetDB'[l] \cup S
        /\ \A k \in Links : k # l => packetDB[k] = packetDB'[k]
    BY <1>0
  <2>3. IsFiniteSet(Pairs(packetDB, m))
    BY DEF SessionsCounted
  <2>4. /\ IsFiniteSet(Pairs(packetDB', m))
        /\ Cardinality(Pairs(packetDB, m))
              = Cardinality(Pairs(packetDB', m)) + Cardinality(Of(S, m))
    <3>1. PICK db \in [Links -> SUBSET Seg] : db = packetDB'
      BY <1>0
    <3>2. PICK dc \in [Links -> SUBSET Seg] : dc = packetDB
      BY <1>0
    <3>3. /\ S \in SUBSET Seg /\ S \cap db[l] = {} /\ dc[l] = db[l] \cup S
          /\ \A k \in Links : k # l => dc[k] = db[k]
      BY <2>1, <2>2, <3>1, <3>2
    <3>4. /\ IsFiniteSet(Pairs(db, m)) <=> IsFiniteSet(Pairs(dc, m))
          /\ IsFiniteSet(Pairs(db, m)) =>
                Cardinality(Pairs(dc, m))
                   = Cardinality(Pairs(db, m)) + Cardinality(Of(S, m))
      BY <3>3, PairsSplit
    <3>5. QED
      BY <2>3, <3>1, <3>2, <3>4
  <2>5. Cardinality(Pairs(packetDB', m)) \in Nat
    BY <2>4, FS_CardinalityType
  <2>6. Cardinality(Of(S, m)) \in Nat
    BY <2>1, SegCard DEF Of
  <2>7. /\ written[m] = reported[m] + dropped[m]
                        + Cardinality(Pairs(packetDB, m))
        /\ reported'[m] + dropped'[m]
              = reported[m] + dropped[m] + Cardinality(Of(S, m))
        /\ written'[m] = written[m]
    BY DEF SessionsCounted
  <2>8. /\ written[m] \in Nat /\ reported[m] \in Nat /\ dropped[m] \in Nat
        /\ reported'[m] \in Nat /\ dropped'[m] \in Nat
    BY <1>0
  <2>9. QED
    BY <2>4, <2>5, <2>6, <2>7, <2>8
<1>4. SessionsCounted'
  BY <1>3 DEF SessionsCounted
<1>5. QED
  BY <1>1, <1>2, <1>4

(* What is left of the queues stays unique and fresh, and does not hold    *)
(* the SMS taken off.                                                      *)
LEMMA ShorterQueue ==
    ASSUME cq \in [Links -> Seq(Sms)], QueuedOnce, NEW l \in Links,
           NEW d \in 1 .. Len(cq[l]), QueueShortens(l, d)
    PROVE  /\ QueuedOnce'
           /\ \A k \in Links : \A i \in 1 .. Len(cq'[k]) :
                 /\ \E j \in 1 .. Len(cq[k]) : cq'[k][i] = cq[k][j]
                 /\ \A j \in 1 .. d : cq'[k][i] # cq[l][j]
<1> DEFINE sh(k) == IF k = l THEN d ELSE 0
<1>1. \A k \in Links : Len(cq[k]) \in Nat
  OBVIOUS
<1>2. \A k \in Links : \A i \in 1 .. Len(cq'[k]) :
         /\ i + sh(k) \in 1 .. Len(cq[k])
         /\ cq'[k][i] = cq[k][i + sh(k)]
  <2> TAKE k \in Links
  <2> TAKE i \in 1 .. Len(cq'[k])
  <2>1. CASE k = l
    <3>1. Len(cq'[l]) = Len(cq[l]) - d /\ d \in Nat /\ d <= Len(cq[l])
      BY <1>1 DEF QueueShortens
    <3>2. i \in 1 .. Len(cq[l]) - d /\ i + d \in 1 .. Len(cq[l])
      BY <1>1, <2>1, <3>1
    <3>3. QED
      BY <2>1, <3>2 DEF QueueShortens
  <2>2. CASE k # l
    <3>1. cq'[k] = cq[k]
      BY <2>2 DEF QueueShortens
    <3>2. QED
      BY <1>1, <2>2, <3>1
  <2>3. QED
    BY <2>1, <2>2
<1>3. QueuedOnce'
  <2>1. SUFFICES ASSUME NEW k \in Links, NEW n \in Links,
                        NEW i \in 1 .. Len(cq'[k]), NEW j \in 1 .. Len(cq'[n]),
                        cq'[k][i] = cq'[n][j]
                 PROVE  k = n /\ i = j
    BY DEF QueuedOnce
  <2>2. cq[k][i + sh(k)] = cq[n][j + sh(n)]
    BY <1>2, <2>1
  <2>3. k = n /\ i + sh(k) = j + sh(n)
    BY <1>2, <2>2 DEF QueuedOnce
  <2>4. i \in Int /\ j \in Int /\ sh(k) \in Int
    BY <1>1
  <2> HIDE DEF sh
  <2>5. QED
    BY <2>3, <2>4
<1>4. ASSUME NEW k \in Links, NEW i \in 1 .. Len(cq'[k]), NEW j \in 1 .. d
      PROVE  cq'[k][i] # cq[l][j]
  <2>1. SUFFICES ASSUME cq'[k][i] = cq[l][j]
                 PROVE  FALSE
    OBVIOUS
  <2>2. j \in 1 .. Len(cq[l])
    BY <1>1
  <2> DEFINE p == i + sh(k)
  <2>a. p \in 1 .. Len(cq[k]) /\ cq[k][p] = cq[l][j]
    BY <1>2, <2>1
  <2> HIDE DEF p
  <2>b. k = l /\ p = j
    BY <2>2, <2>a DEF QueuedOnce
  <2>3. k = l /\ i + sh(k) = j
    BY <2>b DEF p
  <2>4. i \in Int /\ i >= 1 /\ j <= d /\ sh(k) = d
    BY <1>1, <2>3
  <2> HIDE DEF sh
  <2>5. QED
    BY <1>1, <2>3, <2>4
<1>5. QED
  BY <1>2, <1>3, <1>4

LEMMA RefusedInv ==
    ASSUME LinkTyped, LinkTyped', SessInv, NEW l \in Links,
           NEW d \in 1 .. Len(cq[l]), SmsRefused(l, d)
    PROVE  SessInv'
<1> USE DEF SessInv, SmsRefused
<1>0. /\ packetDB \in [Links -> SUBSET Seg] /\ wire \in [Links -> SUBSET Seg]
      /\ written \in [Sms -> Nat] /\ reported \in [Sms -> Nat]
      /\ dropped \in [Sms -> Nat] /\ cq \in [Links -> Seq(Sms)]
      /\ cq' \in [Links -> Seq(Sms)]
  BY DEF LinkTyped, QueueTypeOK, SessTypeOK, ConnTypeOK
<1>1. /\ QueuedOnce'
      /\ \A k \in Links : \A i \in 1 .. Len(cq'[k]) :
            /\ \E j \in 1 .. Len(cq[k]) : cq'[k][i] = cq[k][j]
            /\ \A j \in 1 .. d : cq'[k][i] # cq[l][j]
  BY <1>0, ShorterQueue
<1>2. QueuedFresh'
  <2> SUFFICES ASSUME NEW k \in Links, NEW i \in 1 .. Len(cq'[k])
               PROVE  written'[cq'[k][i]] = 0
    BY DEF QueuedFresh
  <2>1. PICK j \in 1 .. Len(cq[k]) : cq'[k][i] = cq[k][j]
    BY <1>1
  <2>2. cq[k][j] \in Sms
    BY <1>0
  <2>3. Refused1(l, d, cq[k][j]) = 0
    BY <1>1, <2>1 DEF Refused1
  <2>4. written[cq[k][j]] = 0
    BY DEF QueuedFresh
  <2>5. QED
    BY <2>1, <2>2, <2>3, <2>4
<1>3. \A m \in Sms : Refused1(l, d, m) \in {0, 1}
  BY DEF Refused1
<1>4. SegsWritten'
  <2>0. \A m \in Sms : written'[m] = written[m] + Refused1(l, d, m)
    OBVIOUS
  <2>1. \A m \in Sms : written[m] > 0 => written'[m] > 0
    <3> TAKE m \in Sms
    <3>1. /\ written[m] \in Nat /\ Refused1(l, d, m) \in {0, 1}
          /\ written'[m] = written[m] + Refused1(l, d, m)
      BY <1>0, <1>3, <2>0
    <3> DEFINE x == Refused1(l, d, m)
    <3> HIDE DEF x
    <3>2. QED
      BY <3>1 DEF x
  <2>2. \A k \in Links : \A s \in packetDB[k] \cup wire[k] : s \in Seg
    BY <1>0
  <2>3. QED
    BY <2>1, <2>2, SegSms DEF SegsWritten
<1>5. SessionsCounted'
  <2>1. ASSUME NEW m \in Sms
        PROVE  written'[m] = reported'[m] + dropped[m]
                             + Cardinality(Pairs(packetDB, m))
    <3>1. /\ Cardinality(Pairs(packetDB, m)) \in Nat
          /\ written[m] = reported[m] + dropped[m]
                          + Cardinality(Pairs(packetDB, m))
      BY FS_CardinalityType DEF SessionsCounted
    <3>2. written[m] \in Nat /\ reported[m] \in Nat /\ dropped[m] \in Nat
      BY <1>0
    <3>3. QED
      BY <1>3, <3>1, <3>2
  <2>2. QED
    BY <2>1 DEF SessionsCounted
<1>6. QED
  BY <1>1, <1>2, <1>4, <1>5

LEMMA SegsOfCard ==
    ASSUME NEW m \in Sms
    PROVE  /\ \A s \in SegsOf(m) : SmsOf(s) = m
           /\ Cardinality(SegsOf(m)) = Segs[m] /\ Segs[m] \in Nat \ {0}
<1>1. \A s \in SegsOf(m) : SmsOf(s) = m
  BY DEF SegsOf, SmsOf
<1>2. Segs[m] \in Nat \ {0}
  BY LinkAssumption
<1>3. IsFiniteSet(1 .. Segs[m]) /\ Cardinality(1 .. Segs[m]) = Segs[m]
  BY <1>2, FS_Interval
<1> DEFINE f == [i \in 1 .. Segs[m] |-> <<m, i>>]
<1>4. f \in Bijection(1 .. Segs[m], SegsOf(m))
  <2>1. f \in Injection(1 .. Segs[m], SegsOf(m))
    <3>1. f \in [1 .. Segs[m] -> SegsOf(m)]
      BY DEF SegsOf
    <3>2. \A i, j \in 1 .. Segs[m] : f[i] = f[j] => i = j
      OBVIOUS
    <3>3. QED
      BY <3>1, <3>2 DEF Injection, IsInjective
  <2>2. f \in Surjection(1 .. Segs[m], SegsOf(m))
    BY DEF SegsOf, Surjection
  <2>3. QED
    BY <2>1, <2>2 DEF Bijection
<1>5. Cardinality(SegsOf(m)) = Segs[m]
  BY <1>3, <1>4, FS_Bijection DEF ExistsBijection
<1>6. QED
  BY <1>1, <1>2, <1>5

LEMMA SubmittedInv ==
    ASSUME LinkTyped, LinkTyped', SessInv, NEW l \in Links, cq[l] # <<>>,
           SmsSubmitted(l)
    PROVE  /\ SessInv'
           /\ SegsOf(cq[l][1]) \cap (packetDB[l] \cup wire[l]) = {}
<1> DEFINE n == cq[l][1]
<1>0. /\ packetDB \in [Links -> SUBSET Seg] /\ wire \in [Links -> SUBSET Seg]
      /\ packetDB' \in [Links -> SUBSET Seg]
      /\ written \in [Sms -> Nat] /\ reported \in [Sms -> Nat]
      /\ dropped \in [Sms -> Nat] /\ cq \in [Links -> Seq(Sms)]
      /\ cq' \in [Links -> Seq(Sms)]
  BY DEF LinkTyped, QueueTypeOK, SessTypeOK, ConnTypeOK
<1>1. 1 \in 1 .. Len(cq[l]) /\ n \in Sms
  BY <1>0
<1>2. /\ QueuedOnce'
      /\ \A k \in Links : \A i \in 1 .. Len(cq'[k]) :
            (\E j \in 1 .. Len(cq[k]) : cq'[k][i] = cq[k][j]) /\ cq'[k][i] # n
  <2>1. PICK d \in 1 .. Len(cq[l]) : d = 1
    BY <1>1
  <2>2. QueueShortens(l, d)
    BY <2>1 DEF SmsSubmitted
  <2>3. /\ QueuedOnce'
        /\ \A k \in Links : \A i \in 1 .. Len(cq'[k]) :
              /\ \E j \in 1 .. Len(cq[k]) : cq'[k][i] = cq[k][j]
              /\ \A j \in 1 .. d : cq'[k][i] # cq[l][j]
    BY <1>0, <2>2, ShorterQueue DEF SessInv
  <2>4. 1 \in 1 .. d
    BY <2>1
  <2>5. QED
    BY <2>3, <2>4
<1>3. written[n] = 0
  BY <1>1 DEF SessInv, QueuedFresh
<1>4. /\ SegsOf(n) \in SUBSET Seg
      /\ \A s \in SegsOf(n) : SmsOf(s) = n
      /\ Cardinality(SegsOf(n)) = Segs[n] /\ Segs[n] \in Nat \ {0}
  BY <1>1, SegsOfType, SegsOfCard
<1>5. /\ packetDB' = [packetDB EXCEPT ![l] = @ \cup SegsOf(n)]
      /\ wire' = [wire EXCEPT ![l] = @ \cup SegsOf(n)]
      /\ written' = [written EXCEPT ![n] = @ + Segs[n]]
      /\ UNCHANGED <<reported, dropped>>
  BY DEF SmsSubmitted
<1> HIDE DEF n
<1>6. SegsOf(n) \cap (packetDB[l] \cup wire[l]) = {}
  BY <1>3, <1>4 DEF SessInv, SegsWritten
<1>7. QueuedFresh'
  <2> SUFFICES ASSUME NEW k \in Links, NEW i \in 1 .. Len(cq'[k])
               PROVE  written'[cq'[k][i]] = 0
    BY DEF QueuedFresh
  <2>1. PICK j \in 1 .. Len(cq[k]) : cq'[k][i] = cq[k][j]
    BY <1>2
  <2>2. cq[k][j] \in Sms
    BY <1>0
  <2>f. written[cq[k][j]] = 0
    BY DEF SessInv, QueuedFresh
  <2>3. cq'[k][i] # n
    BY <1>2
  <2>4. QED
    BY <1>0, <1>5, <2>1, <2>2, <2>3, <2>f
<1>8. SegsWritten'
  <2>1. \A m \in Sms : written[m] > 0 \/ m = n => written'[m] > 0
    BY <1>0, <1>1, <1>4, <1>5
  <2>2. \A k \in Links : \A s \in packetDB'[k] \cup wire'[k] :
           s \in packetDB[k] \cup wire[k] \/ s \in SegsOf(n)
    BY <1>0, <1>5
  <2>3. \A k \in Links : \A s \in packetDB[k] \cup wire[k] :
           s \in Seg /\ written[SmsOf(s)] > 0
    BY <1>0 DEF SessInv, SegsWritten
  <2>4. QED
    BY <1>1, <1>4, <2>1, <2>2, <2>3, SegSms DEF SegsWritten
<1>9. ASSUME NEW m \in Sms
      PROVE  /\ IsFiniteSet(Pairs(packetDB', m))
             /\ written'[m] = reported'[m] + dropped'[m]
                              + Cardinality(Pairs(packetDB', m))
  <2>1. IsFiniteSet(Pairs(packetDB, m))
    BY DEF SessInv, SessionsCounted
  <2>0. /\ SegsOf(n) \cap packetDB[l] = {}
        /\ packetDB'[l] = packetDB[l] \cup SegsOf(n)
        /\ \A k \in Links : k # l => packetDB'[k] = packetDB[k]
    BY <1>0, <1>5, <1>6
  <2>2. /\ IsFiniteSet(Pairs(packetDB', m))
        /\ Cardinality(Pairs(packetDB', m))
              = Cardinality(Pairs(packetDB, m)) + Cardinality(Of(SegsOf(n), m))
    <3>1. PICK db \in [Links -> SUBSET Seg] : db = packetDB
      BY <1>0
    <3>2. PICK dc \in [Links -> SUBSET Seg] : dc = packetDB'
      BY <1>0
    <3>3. PICK S \in SUBSET Seg : S = SegsOf(n)
      BY <1>4
    <3>4. /\ S \in SUBSET Seg /\ S \cap db[l] = {} /\ dc[l] = db[l] \cup S
          /\ \A k \in Links : k # l => dc[k] = db[k]
      BY <2>0, <3>1, <3>2, <3>3
    <3>5. /\ IsFiniteSet(Pairs(dc, m))
          /\ Cardinality(Pairs(dc, m))
                = Cardinality(Pairs(db, m)) + Cardinality(Of(S, m))
      <4>1. IsFiniteSet(Pairs(db, m))
        BY <2>1, <3>1
      <4>2. QED
        BY <3>4, <4>1, PairsSplit
    <3>6. QED
      BY <2>1, <3>1, <3>2, <3>3, <3>5
  <2>3. Cardinality(Of(SegsOf(n), m)) = IF m = n THEN Segs[n] ELSE 0
    <3>1. Of(SegsOf(n), m) = IF m = n THEN SegsOf(n) ELSE {}
      BY <1>4 DEF Of
    <3>2. QED
      BY <1>4, <3>1, FS_EmptySet
  <2>4. /\ Cardinality(Pairs(packetDB, m)) \in Nat
        /\ written[m] = reported[m] + dropped[m]
                        + Cardinality(Pairs(packetDB, m))
    BY <2>1, FS_CardinalityType DEF SessInv, SessionsCounted
  <2>5. written'[m] = written[m] + IF m = n THEN Segs[n] ELSE 0
    BY <1>0, <1>1, <1>4, <1>5
  <2>6. /\ written[m] \in Nat /\ reported[m] \in Nat /\ dropped[m] \in Nat
        /\ reported'[m] = reported[m] /\ dropped'[m] = dropped[m]
    BY <1>0, <1>5
  <2>7. QED
    BY <1>4, <2>2, <2>3, <2>4, <2>5, <2>6
<1>10. SessionsCounted'
  BY <1>9 DEF SessionsCounted
<1>11. SessInv'
  BY <1>2, <1>7, <1>8, <1>10 DEF SessInv
<1>12. QED
  BY <1>6, <1>11 DEF n
-----------------------------------------------------------------------------
(* Each step of a link does one of these things to the sessions.           *)
LEMMA ReportCount ==
    ASSUME LinkTyped, NEW S \in SUBSET Seg, NEW st, NEW total,
           channelStatusReport(S, st, total), NEW m \in Sms
    PROVE  /\ reported'[m] = reported[m] + Cardinality(Of(S, m))
           /\ Cardinality(Of(S, m)) \in Nat
           /\ reported[m] \in Nat /\ dropped[m] \in Nat
<1>1. Cardinality(Of(S, m)) \in Nat
  BY SegCard DEF Of
<1>2. QED
  BY <1>1 DEF channelStatusReport, LinkTyped, SessTypeOK

LEMMA SessionReported ==
    ASSUME LinkTyped, NEW l \in Links, NEW S \in SUBSET packetDB[l],
           NEW st, NEW total, channelStatusReport(S, st, total),
           packetDB' = [packetDB EXCEPT ![l] = @ \ S],
           UNCHANGED <<written, dropped, cq>>, WireShrinks
    PROVE  SessionsEnd(l, S)
<1>1. S \in SUBSET Seg
  BY DEF LinkTyped, SessTypeOK
<1>2. ASSUME NEW m \in Sms
      PROVE  reported'[m] + dropped'[m]
                = reported[m] + dropped[m] + Cardinality(Of(S, m))
  <2>1. /\ reported'[m] = reported[m] + Cardinality(Of(S, m))
        /\ Cardinality(Of(S, m)) \in Nat
        /\ reported[m] \in Nat /\ dropped[m] \in Nat
    BY <1>1, ReportCount
  <2>2. QED
    BY <2>1
<1>3. QED
  BY <1>2 DEF SessionsEnd

(* OnTimer ends the sessions that are too old.                             *)
LEMMA ExpireEnds ==
    ASSUME LinkTyped, NEW l \in Links, Expire(l), UNCHANGED cq, WireShrinks
    PROVE  \E S \in SUBSET packetDB[l] : SessionsEnd(l, S)
<1> DEFINE late == {s \in packetDB[l] : age[s] + 1 > SessionTicks}
<1>1. /\ packetDB' = [packetDB EXCEPT ![l] = @ \ late]
      /\ channelStatusReport(late, "TIMEOUT", Total)
      /\ UNCHANGED <<written, dropped>>
  BY DEF Expire
<1>2. late \in SUBSET packetDB[l]
  OBVIOUS
<1> HIDE DEF late
<1>3. SessionsEnd(l, late)
  BY <1>1, <1>2, SessionReported
<1>4. QED
  BY <1>2, <1>3

LEMMA GatewaySessions ==
    ASSUME LinkTyped, NEW l \in Links, LinkGateway(l)
    PROVE  SessionsKept \/ \E S \in SUBSET packetDB[l] : SessionsEnd(l, S)
<1>0. ConnTypeOK /\ SessTypeOK
  BY DEF LinkTyped
<1>1. CASE OnConnRespOk(l) \/ OnConnRespFail(l) \/ OnHeartbeat(l) \/ OnBadPacket(l)
  BY <1>1 DEF OnConnRespOk, OnConnRespFail, OnHeartbeat, OnBadPacket,
              sess_vars, SessionsKept, WireShrinks
<1>2. ASSUME NEW st \in {"CLOSE", "EXCEPT"}, OnClosed(l, st)
      PROVE  SessionsKept
  <2>1. WireShrinks
    BY <1>0, <1>2 DEF OnClosed, WireShrinks, ConnTypeOK
  <2>2. QED
    BY <1>2, <2>1 DEF OnClosed, sess_vars, SessionsKept
<1>3. ASSUME NEW s \in wire[l], NEW st \in {"SUCCESS", "FAIL"},
             OnSubmitResp(l, s, st)
      PROVE  SessionsKept \/ \E S \in SUBSET packetDB[l] : SessionsEnd(l, S)
  <2>1. WireShrinks
    BY <1>0, <1>3 DEF OnSubmitResp, WireShrinks, ConnTypeOK
  <2>2. CASE s \notin packetDB[l]
    BY <1>3, <2>1, <2>2 DEF OnSubmitResp, SessionsKept
  <2>3. CASE s \in packetDB[l]
    <3>1. /\ packetDB' = [packetDB EXCEPT ![l] = @ \ {s}]
          /\ channelStatusReport({s}, st, Total)
          /\ UNCHANGED <<written, dropped, cq>>
      BY <1>3, <2>3 DEF OnSubmitResp
    <3>2. {s} \in SUBSET packetDB[l]
      BY <2>3
    <3>3. SessionsEnd(l, {s})
      BY <2>1, <3>1, <3>2, SessionReported
    <3>4. QED
      BY <3>2, <3>3
  <2>4. QED
    BY <2>2, <2>3
<1>4. QED
  BY <1>1, <1>2, <1>3 DEF LinkGateway

LEMMA TimerSessions ==
    ASSUME LinkTyped, NEW l \in Links, HandleHeartTimeOut(l)
    PROVE  SessionsKept \/ \E S \in SUBSET packetDB[l] : SessionsEnd(l, S)
<1>0. ConnTypeOK
  BY DEF LinkTyped
<1>1. CASE chan[l] # "live"
  BY <1>1 DEF HandleHeartTimeOut, conn_vars, sess_vars, SessionsKept, WireShrinks
<1>2. CASE chan[l] = "live"
  <2>1. Expire(l) /\ UNCHANGED cq
    BY <1>2 DEF HandleHeartTimeOut
  <2>2. CASE TimerConn(l)
    <3>1. WireShrinks
      BY <1>0, <2>2 DEF TimerConn, WireShrinks, ConnTypeOK
    <3>2. QED
      BY <2>1, <3>1, ExpireEnds
  <2>3. CASE TimerHeartLost(l)
    <3>1. reConn(l)
      BY <2>3 DEF TimerHeartLost
    <3>2. \/ wire' = wire \/ wire' = [wire EXCEPT ![l] = {}]
      BY <3>1, reConnCases DEF conn_vars
    <3>3. WireShrinks
      BY <1>0, <3>2 DEF WireShrinks, ConnTypeOK
    <3>4. QED
      BY <2>1, <3>3, ExpireEnds
  <2>4. CASE TimerAlive(l)
    <3>1. WireShrinks
      BY <2>4 DEF TimerAlive, WireShrinks
    <3>2. QED
      BY <2>1, <3>1, ExpireEnds
  <2>5. QED
    BY <1>2, <2>2, <2>3, <2>4 DEF HandleHeartTimeOut
<1>3. QED
  BY <1>1, <1>2

(* An SMS at the head of the queue is submitted or refused.                *)
LEMMA HeadShortens ==
    ASSUME cq \in [Links -> Seq(Sms)], NEW l \in Links, cq[l] # <<>>,
           cq' = [cq EXCEPT ![l] = Tail(@)]
    PROVE  QueueShortens(l, 1) /\ Head(cq[l]) = cq[l][1] /\ cq[l][1] \in Sms
           /\ 1 \in 1 .. Len(cq[l])
<1> DEFINE q == cq[l]
<1>1. q \in Seq(Sms) /\ q # <<>>
  OBVIOUS
<1>2. cq'[l] = Tail(q) /\ \A k \in Links : k # l => cq'[k] = cq[k]
  OBVIOUS
<1> HIDE DEF q
<1>3. /\ Len(Tail(q)) = Len(q) - 1
      /\ \A i \in 1 .. Len(q) - 1 : Tail(q)[i] = q[i + 1]
      /\ Head(q) = q[1] /\ q[1] \in Sms /\ 1 \in 1 .. Len(q)
  BY <1>1
<1>4. QED
  BY <1>2, <1>3 DEF QueueShortens, q

LEMMA PlaceholderCount ==
    ASSUME NEW M \in SUBSET Sms, NEW m \in Sms
    PROVE  /\ {<<x, 0>> : x \in M} \in SUBSET Seg
           /\ Cardinality(Of({<<x, 0>> : x \in M}, m))
                 = IF m \in M THEN 1 ELSE 0
<1>1. {<<x, 0>> : x \in M} \in SUBSET Seg
  BY SegsOfType
<1>2. CASE m \in M
  <2>1. Of({<<x, 0>> : x \in M}, m) = {<<m, 0>>}
    BY <1>2 DEF Of, SmsOf
  <2>2. Cardinality({<<m, 0>>}) = 1
    BY FS_Singleton, Zenon
  <2>3. QED
    BY <1>1, <1>2, <2>1, <2>2
<1>3. CASE m \notin M
  <2>1. Of({<<x, 0>> : x \in M}, m) = {}
    BY <1>3 DEF Of, SmsOf
  <2>2. QED
    BY <1>1, <1>3, <2>1, FS_EmptySet
<1>4. QED
  BY <1>2, <1>3

LEMMA DispatchSessions ==
    ASSUME LinkTyped, NEW l \in Links, HandleDispatch(l)
    PROVE  cq[l] # <<>> /\ (SmsSubmitted(l) \/ SmsRefused(l, 1))
<1> DEFINE n == cq[l][1]
<1>0. /\ cq \in [Links -> Seq(Sms)] /\ written \in [Sms -> Nat]
      /\ cq[l] # <<>> /\ cq' = [cq EXCEPT ![l] = Tail(@)]
  BY DEF LinkTyped, QueueTypeOK, SessTypeOK, HandleDispatch
<1>1. /\ QueueShortens(l, 1) /\ Head(cq[l]) = n /\ n \in Sms
      /\ 1 \in 1 .. Len(cq[l])
  BY <1>0, HeadShortens
<1> HIDE DEF n
<1>2. CASE SendSms(l, n)
  <2>1. SmsSubmitted(l)
    BY <1>1, <1>2 DEF SendSms, SmsSubmitted, HandleDispatch, n
  <2>2. QED
    BY <1>0, <2>1
<1>3. CASE SendSmsUnconnected(l, n)
  <2>1. /\ written' = [written EXCEPT ![n] = @ + 1]
        /\ channelStatusReport({<<n, 0>>}, "SOCKET_ERR", [x \in Sms |-> 1])
        /\ UNCHANGED <<packetDB, wire, dropped>>
    BY <1>3 DEF SendSmsUnconnected, HandleDispatch
  <2>2. ASSUME NEW m \in Sms
        PROVE  /\ written'[m] = written[m] + Refused1(l, 1, m)
               /\ reported'[m] = reported[m] + Refused1(l, 1, m)
    <3>1. Refused1(l, 1, m) = IF m = n THEN 1 ELSE 0
      <4>1. (\E i \in 1 .. 1 : cq[l][i] = m) <=> m = n
        BY DEF n
      <4>2. QED
        BY <4>1 DEF Refused1
    <3>2. {<<x, 0>> : x \in {n}} = {<<n, 0>>} /\ {n} \in SUBSET Sms
      BY <1>1
    <3>3. {<<n, 0>>} \in SUBSET Seg
          /\ Cardinality(Of({<<n, 0>>}, m)) = IF m = n THEN 1 ELSE 0
      <4>1. /\ {<<x, 0>> : x \in {n}} \in SUBSET Seg
            /\ Cardinality(Of({<<x, 0>> : x \in {n}}, m))
                 = IF m \in {n} THEN 1 ELSE 0
        BY <3>2, PlaceholderCount
      <4>2. QED
        BY <3>2, <4>1
    <3>4. reported'[m] = reported[m] + Cardinality(Of({<<n, 0>>}, m))
      BY <2>1, <3>3, ReportCount
    <3>5. written'[m] = written[m] + IF m = n THEN 1 ELSE 0
      BY <1>0, <1>1, <2>1
    <3>6. QED
      BY <3>1, <3>3, <3>4, <3>5
  <2>3. SmsRefused(l, 1)
    BY <1>1, <2>1, <2>2 DEF SmsRefused
  <2>4. QED
    BY <1>0, <2>3
<1>4. QED
  BY <1>1, <1>2, <1>3 DEF HandleDispatch

(* HandleChannelDel refuses the whole queue.                               *)
LEMMA DelSessions ==
    ASSUME LinkTyped, QueuedOnce, NEW l \in Links, HandleChannelDel(l)
    PROVE  SessionsKept \/ \E d \in 1 .. Len(cq[l]) : SmsRefused(l, d)
<1>0. /\ cq \in [Links -> Seq(Sms)] /\ written \in [Sms -> Nat]
      /\ reported \in [Sms -> Nat]
      /\ Len(cq[l]) \in Nat
  BY DEF LinkTyped, QueueTypeOK, SessTypeOK
<1>1. CASE chan[l] # "live"
  BY <1>1 DEF HandleChannelDel, conn_vars, SessionsKept, WireShrinks
<1>2. CASE chan[l] = "live"
  <2> DEFINE M == {cq[l][i] : i \in 1 .. Len(cq[l])}
             S == {<<x, 0>> : x \in M}
  <2>1. M \in SUBSET Sms
    <3>1. \A i \in 1 .. Len(cq[l]) : cq[l][i] \in Sms
      BY <1>0
    <3>2. QED
      BY <3>1
  <2>2. /\ cq' = [cq EXCEPT ![l] = <<>>]
        /\ channelStatusReport(S, "NO_CHANNEL", [n \in Sms |-> 1])
        /\ written' = [m \in Sms |-> IF m \in M THEN written[m] + 1
                                     ELSE written[m]]
        /\ UNCHANGED <<packetDB, wire, dropped>>
    BY <1>2 DEF HandleChannelDel, conn_vars
  <2>3. S \in SUBSET Seg
    BY <2>1, SegsOfType
  <2>4. \A m \in Sms : m \in M <=> \E i \in 1 .. Len(cq[l]) : cq[l][i] = m
    OBVIOUS
  <2> HIDE DEF M
  <2>5. \A m \in Sms : Cardinality(Of(S, m)) = IF m \in M THEN 1 ELSE 0
    BY <2>1, PlaceholderCount
  <2> HIDE DEF S
  <2>6. ASSUME NEW m \in Sms
        PROVE  /\ written'[m] = written[m] + Refused1(l, Len(cq[l]), m)
               /\ reported'[m] = reported[m] + Refused1(l, Len(cq[l]), m)
    <3>1. Refused1(l, Len(cq[l]), m) = IF m \in M THEN 1 ELSE 0
      BY <2>4 DEF Refused1
    <3>2. reported'[m] = reported[m] + Cardinality(Of(S, m))
      BY <2>2, <2>3, ReportCount
    <3>3. written'[m] = written[m] + IF m \in M THEN 1 ELSE 0
      BY <1>0, <2>2
    <3>4. QED
      BY <2>5, <3>1, <3>2, <3>3
  <2>7. /\ \A k \in Links : k # l => cq'[k] = cq[k]
        /\ cq'[l] = <<>>
    BY <1>0, <2>2
  <2>8. CASE cq[l] = <<>>
    <3>1. \A m \in Sms : Refused1(l, Len(cq[l]), m) = 0
      BY <2>8 DEF Refused1
    <3>2. written' = written /\ reported' = reported
      <4>1. \A m \in Sms : m \notin M
        BY <2>4, <2>8
      <4>2. written' = written
        BY <1>0, <2>2, <4>1
      <4>3. reported' = [m \in Sms |-> reported[m] + Cardinality(Of(S, m))]
        BY <2>2 DEF channelStatusReport
      <4>4. \A m \in Sms : Cardinality(Of(S, m)) = 0
        BY <2>5, <4>1
      <4>5. \A m \in Sms : reported'[m] = reported[m]
        BY <1>0, <4>3, <4>4
      <4>6. reported' = reported
        BY <1>0, <4>3, <4>5
      <4>7. QED
        BY <4>2, <4>6
    <3>3. cq' = cq
      BY <1>0, <2>2, <2>8
    <3>4. SessionsKept
      BY <2>2, <3>2, <3>3 DEF SessionsKept, WireShrinks
    <3>5. QED
      BY <3>4
  <2>9. CASE cq[l] # <<>>
    <3>1. Len(cq[l]) \in 1 .. Len(cq[l])
      BY <1>0, <2>9
    <3>2. QueueShortens(l, Len(cq[l]))
      BY <1>0, <2>7 DEF QueueShortens
    <3>3. SmsRefused(l, Len(cq[l]))
      BY <2>2, <2>6, <3>2 DEF SmsRefused
    <3>4. QED
      BY <3>1, <3>3
  <2>10. QED
    BY <2>8, <2>9
<1>3. QED
  BY <1>1, <1>2

(* destroy() reports some sessions and skips the others.                   *)
LEMMA CloseSessions ==
    ASSUME LinkTyped, LinkTyped', NEW l \in Links, NEW n \in Sliders,
           HandleChannelCloseTimeOut(l, n)
    PROVE  SessionsEnd(l, packetDB[l])
<1> DEFINE D == packetDB[l]
<1>0. /\ D \in SUBSET Seg /\ packetDB \in [Links -> SUBSET Seg]
      /\ ConnTypeOK
  BY DEF LinkTyped, SessTypeOK
<1>1. PICK S \in SUBSET D :
         /\ channelStatusReport(S, "INTERNAL_ERROR", Total)
         /\ dropped' = [m \in Sms |-> dropped[m] + Cardinality(Of(D \ S, m))]
  BY DEF HandleChannelCloseTimeOut
<1>2. WireShrinks
  BY <1>0 DEF HandleChannelCloseTimeOut, WireShrinks, ConnTypeOK
<1>3. packetDB' = [packetDB EXCEPT ![l] = @ \ D]
  BY <1>0 DEF HandleChannelCloseTimeOut
<1> HIDE DEF D
<1>4. ASSUME NEW m \in Sms
      PROVE  reported'[m] + dropped'[m]
                = reported[m] + dropped[m] + Cardinality(Of(D, m))
  <2>1. S \in SUBSET Seg /\ D \ S \in SUBSET Seg
    BY <1>0
  <2>2. /\ reported'[m] = reported[m] + Cardinality(Of(S, m))
        /\ Cardinality(Of(S, m)) \in Nat
        /\ reported[m] \in Nat /\ dropped[m] \in Nat
    BY <1>1, <2>1, ReportCount
  <2>3. dropped'[m] = dropped[m] + Cardinality(Of(D \ S, m))
    BY <1>1
  <2> DEFINE A == Of(S, m)
             B == Of(D \ S, m)
  <2>4. IsFiniteSet(A) /\ IsFiniteSet(B) /\ A \cap B = {} /\ A \cup B = Of(D, m)
    <3>1. A \in SUBSET Seg /\ B \in SUBSET Seg
      BY <2>1 DEF Of
    <3>2. IsFiniteSet(A) /\ IsFiniteSet(B)
      BY <3>1, SegFinite, FS_Subset
    <3>3. A \cap B = {} /\ A \cup B = Of(D, m)
      BY <1>1 DEF Of
    <3>4. QED
      BY <3>2, <3>3
  <2>a. Cardinality(A) = Cardinality(Of(S, m))
        /\ Cardinality(B) = Cardinality(Of(D \ S, m))
    OBVIOUS
  <2> HIDE DEF A, B
  <2>5. Cardinality(A \cup B)
           = Cardinality(A) + Cardinality(B) - Cardinality(A \cap B)
    BY <2>4, FS_Union, Zenon
  <2>6. Cardinality(A \cap B) = 0
    BY <2>4, FS_EmptySet
  <2>7. Cardinality(A) \in Nat /\ Cardinality(B) \in Nat
    BY <2>4, FS_CardinalityType
  <2>8. Cardinality(Of(D, m)) = Cardinality(Of(S, m)) + Cardinality(Of(D \ S, m))
    <3>1. Cardinality(A \cup B) = Cardinality(A) + Cardinality(B)
      BY <2>5, <2>6, <2>7
    <3>2. QED
      BY <2>4, <2>a, <3>1
  <2>9. Cardinality(Of(D \ S, m)) \in Nat
    BY <2>7, <2>a
  <2>10. QED
    BY <2>2, <2>3, <2>8, <2>9
<1>5. SessionsEnd(l, D)
  BY <1>2, <1>3, <1>4 DEF SessionsEnd, HandleChannelCloseTimeOut
<1>6. QED
  BY <1>5 DEF D

(* Every step of a link keeps the sessions accounted for.                  *)
LEMMA LinkStepSessions ==
    ASSUME LinkTyped, LinkTyped', SessInv, NEW l \in Links, LinkStep(l)
    PROVE  SessInv'
<1>1. CASE LinkGateway(l)
  BY <1>1, GatewaySessions, KeptInv, EndInv
<1>2. CASE HandleHeartTimeOut(l)
  BY <1>2, TimerSessions, KeptInv, EndInv
<1>3. CASE HandleReset(l)
  <2>1. reConn(l) \/ UNCHANGED conn_vars
    BY <1>3 DEF HandleReset
  <2>2. wire' = wire \/ wire' = [wire EXCEPT ![l] = {}]
    BY <2>1, reConnCases DEF conn_vars
  <2>3. WireShrinks
    <3>1. ConnTypeOK
      BY DEF LinkTyped
    <3>2. QED
      BY <2>2, <3>1 DEF WireShrinks, ConnTypeOK
  <2>4. SessionsKept
    BY <1>3, <2>3 DEF HandleReset, sess_vars, SessionsKept
  <2>5. QED
    BY <2>4, KeptInv
<1>4. ASSUME NEW n \in Sliders, HandleChannelSlideWindowUpdate(l, n)
      PROVE  SessInv'
  <2>1. SessionsKept
    BY <1>4 DEF HandleChannelSlideWindowUpdate, sess_vars, conn_vars,
                SessionsKept, WireShrinks
  <2>2. QED
    BY <2>1, KeptInv
<1>5. CASE HandleChannelDel(l)
  <2>1. QueuedOnce
    BY DEF SessInv
  <2>2. QED
    BY <1>5, <2>1, DelSessions, KeptInv, RefusedInv
<1>6. CASE HandleDispatch(l)
  <2>1. cq[l] # <<>> /\ (SmsSubmitted(l) \/ SmsRefused(l, 1))
    BY <1>6, DispatchSessions
  <2>2. 1 \in 1 .. Len(cq[l])
    BY <2>1 DEF LinkTyped, QueueTypeOK
  <2>3. QED
    BY <2>1, <2>2, SubmittedInv, RefusedInv
<1>7. CASE HeartFires(l)
  <2>1. SessionsKept
    BY <1>7 DEF HeartFires, sess_vars, conn_vars, SessionsKept, WireShrinks
  <2>2. QED
    BY <2>1, KeptInv
<1>8. ASSUME NEW n \in Sliders, HandleChannelCloseTimeOut(l, n)
      PROVE  SessInv'
  <2>1. SessionsEnd(l, packetDB[l])
    BY <1>8, CloseSessions
  <2>2. packetDB[l] \in SUBSET packetDB[l]
    OBVIOUS
  <2>3. QED
    BY <2>1, <2>2, EndInv
<1>9. QED
  BY <1>1, <1>2, <1>3, <1>4, <1>5, <1>6, <1>7, <1>8 DEF LinkStep, LinkMessage
LEMMA SessionsInit == InitLink => SessInv
<1> SUFFICES ASSUME InitLink
             PROVE  SessInv
  OBVIOUS
<1>1. QueuedOnce /\ QueuedFresh
  BY DEF InitLink, QueuedOnce, QueuedFresh
<1>2. SegsWritten
  BY DEF InitLink, SegsWritten
<1>3. ASSUME NEW m \in Sms
      PROVE  /\ IsFiniteSet(Pairs(packetDB, m))
             /\ written[m] = reported[m] + dropped[m]
                             + Cardinality(Pairs(packetDB, m))
  <2>1. Pairs(packetDB, m) = {}
    BY DEF InitLink, Pairs, Of
  <2>2. IsFiniteSet(Pairs(packetDB, m)) /\ Cardinality(Pairs(packetDB, m)) = 0
    BY <2>1, FS_EmptySet
  <2>3. QED
    BY <2>2 DEF InitLink
<1>4. QED
  BY <1>1, <1>2, <1>3 DEF SessInv, SessionsCounted

(* An SMS that is new to the links is put at the end of one queue.         *)
LEMMA PostedInv ==
    ASSUME cq \in [Links -> Seq(Sms)], SessInv, NEW l \in Links, NEW m \in Sms,
           written[m] = 0, \A k \in Links : ~InQueue(k, m),
           chan[l] = "live", PostChannelMsg(l, m),
           UNCHANGED <<packetDB, wire, written, reported, dropped>>
    PROVE  SessInv'
<1> DEFINE q == cq[l]
<1>0. q \in Seq(Sms) /\ Len(q) \in Nat
  OBVIOUS
<1>1. /\ \A k \in Links : k # l => cq'[k] = cq[k]
      /\ cq'[l] = Append(q, m)
  BY DEF PostChannelMsg
<1> HIDE DEF q
<1>2. /\ Len(cq'[l]) = Len(q) + 1 /\ cq'[l][Len(q) + 1] = m
      /\ \A i \in 1 .. Len(q) : cq'[l][i] = q[i]
  BY <1>0, <1>1
<1>3. ASSUME NEW k \in Links, NEW i \in 1 .. Len(cq'[k])
      PROVE  \/ i \in 1 .. Len(cq[k]) /\ cq'[k][i] = cq[k][i] /\ cq[k][i] # m
             \/ k = l /\ i = Len(q) + 1 /\ cq'[k][i] = m
  <2>1. CASE k # l
    BY <1>1, <2>1 DEF InQueue
  <2>2. CASE k = l /\ i = Len(q) + 1
    BY <1>2, <2>2
  <2>3. CASE k = l /\ i # Len(q) + 1
    <3>1. i \in 1 .. Len(q)
      BY <1>0, <1>2, <2>3
    <3>2. cq'[k][i] = cq[k][i] /\ i \in 1 .. Len(cq[k])
      BY <1>2, <2>3, <3>1 DEF q
    <3>3. QED
      BY <3>2 DEF InQueue
  <2>4. QED
    BY <2>1, <2>2, <2>3
<1>4. QueuedOnce'
  <2> SUFFICES ASSUME NEW k \in Links, NEW n \in Links,
                      NEW i \in 1 .. Len(cq'[k]), NEW j \in 1 .. Len(cq'[n]),
                      cq'[k][i] = cq'[n][j]
               PROVE  k = n /\ i = j
    BY DEF QueuedOnce
  <2>1. CASE k = l /\ i = Len(q) + 1 /\ cq'[k][i] = m
    BY <1>3, <2>1
  <2>2. CASE i \in 1 .. Len(cq[k]) /\ cq'[k][i] = cq[k][i] /\ cq[k][i] # m
    <3>1. j \in 1 .. Len(cq[n]) /\ cq'[n][j] = cq[n][j]
      BY <1>3, <2>2
    <3>2. cq[k][i] = cq[n][j]
      BY <2>2, <3>1
    <3>3. QED
      BY <2>2, <3>1, <3>2 DEF SessInv, QueuedOnce
  <2>3. QED
    BY <1>3, <2>1, <2>2
<1>5. QueuedFresh'
  BY <1>3 DEF SessInv, QueuedFresh
<1>6. SegsWritten' /\ SessionsCounted'
  BY DEF SessInv, SegsWritten, SessionsCounted
<1>7. QED
  BY <1>4, <1>5, <1>6 DEF SessInv

LEMMA SessionsStep ==
    ASSUME LinkTypeOK, LinkTypeOK', SessInv, [LinkNext]_link_vars
    PROVE  SessInv'
<1>0. LinkTyped /\ LinkTyped'
  BY DEF LinkTyped, LinkTypeOK
<1>1. ASSUME NEW l \in Links, LinkStep(l)
      PROVE  SessInv'
  BY <1>0, <1>1, LinkStepSessions
<1>2. ASSUME NEW l \in Links, NEW m \in Sms, EnvDispatch(l, m)
      PROVE  SessInv'
  <2>1. /\ written[m] = 0 /\ \A k \in Links : ~InQueue(k, m)
        /\ chan[l] = "live" /\ PostChannelMsg(l, m)
        /\ UNCHANGED <<packetDB, wire, written, reported, dropped>>
    BY <1>2 DEF EnvDispatch, conn_vars, sess_vars
  <2>2. cq \in [Links -> Seq(Sms)]
    BY <1>0 DEF LinkTyped, QueueTypeOK
  <2>3. QED
    BY <2>1, <2>2, PostedInv
<1>3. ASSUME \/ \E l \in Links, msg \in ThreadMsg : EnvControl(l, msg)
             \/ EnvTakePool
             \/ \E r \in statusQ : EnvTakeStatus(r)
             \/ UNCHANGED link_vars
      PROVE  SessInv'
  <2>1. SessionsKept
    BY <1>3 DEF EnvControl, EnvTakePool, EnvTakeStatus, link_vars, conn_vars,
                sess_vars, SessionsKept, WireShrinks
  <2>2. QED
    BY <2>1, KeptInv
<1>4. QED
  BY <1>1, <1>2, <1>3 DEF LinkNext

(* The sessions are conserved, with every SMS queued once and fresh.       *)
THEOREM SessionsInductive == LinkSpec => [](LinkTypeOK /\ SessInv)
<1>1. LinkTypeOK /\ LinkTypeOK' /\ SessInv /\ [LinkNext]_link_vars => SessInv'
  BY SessionsStep
<1>2. QED
  BY <1>1, SessionsInit, LinkTypeCorrect, PTL DEF LinkSpec

(* Every session saved for an SMS is still open, was reported to the pool, *)
(* or was skipped by the loop of destroy(), for any number of links.       *)
THEOREM EverySessionEnds == LinkSpec => []SessionsConserved
<1>1. SessInv => SessionsConserved
  BY DEF SessInv, SessionsCounted, SessionsConserved, Pairs
<1>2. QED
  BY <1>1, SessionsInductive, PTL

-----------------------------------------------------------------------------
(* The window of one link, as in WindowAccounting.                         *)
Accounted(l) ==
    m_iState[l] = "DATATRAN" /\ ~reset[l] =>
        wnd[l] + Cardinality(packetDB[l] \cap wire[l]) + expired[l] = slider[l]

(* A link that is not touched, or not logged in, is accounted for.         *)
SameWindow(k) ==
    /\ m_iState'[k] = m_iState[k] /\ reset'[k] = reset[k]
    /\ wnd'[k] = wnd[k] /\ slider'[k] = slider[k] /\ expired'[k] = expired[k]
    /\ packetDB'[k] = packetDB[k] /\ wire'[k] = wire[k]

LEMMA SameWindowAccounted ==
    ASSUME NEW k \in Links, Accounted(k), SameWindow(k)
    PROVE  Accounted(k)'
BY DEF Accounted, SameWindow

LEMMA NotAccountable ==
    ASSUME NEW k \in Links, m_iState'[k] # "DATATRAN" \/ reset'[k]
    PROVE  Accounted(k)'
BY DEF Accounted

(* The numbers of a link's window are numbers.                             *)
LEMMA LinkValues ==
    ASSUME LinkTyped, NEW l \in Links
    PROVE  /\ packetDB \in [Links -> SUBSET Seg] /\ packetDB[l] \in SUBSET Seg
           /\ wire \in [Links -> SUBSET Seg]
           /\ expired \in [Links -> Nat] /\ expired[l] \in Nat
           /\ wnd \in [Links -> Int] /\ wnd[l] \in Int
           /\ slider[l] \in Int
<1>1. \A n \in Sliders : n \in Int
  BY LinkAssumption
<1>2. QED
  BY <1>1 DEF LinkTyped, ConnTypeOK, FlowTypeOK, SessTypeOK

(* An answer gives back the token of a segment that was open.              *)
LEMMA AnswerAccounted ==
    ASSUME LinkTyped, ConnInv, NEW l \in Links, Accounted(l),
           NEW s \in wire[l], NEW st \in {"SUCCESS", "FAIL"},
           OnSubmitResp(l, s, st)
    PROVE  Accounted(l)'
<1> DEFINE D == packetDB[l] \cap wire[l]
<1>0. /\ packetDB[l] \in SUBSET Seg /\ wire \in [Links -> SUBSET Seg]
      /\ packetDB \in [Links -> SUBSET Seg]
      /\ expired[l] \in Nat /\ wnd[l] \in Int /\ slider[l] \in Int
      /\ wnd \in [Links -> Int]
  BY LinkValues
<1>1. /\ wire' = [wire EXCEPT ![l] = @ \ {s}]
      /\ m_iState' = m_iState /\ UNCHANGED <<slider, expired, reset>>
  BY DEF OnSubmitResp
<1>2. IsFiniteSet(D)
  BY <1>0, SegFinite, FS_Subset
<1>3. CASE s \notin packetDB[l]
  <2>1. packetDB' = packetDB /\ wnd' = wnd
    BY <1>3 DEF OnSubmitResp
  <2>2. packetDB'[l] \cap wire'[l] = packetDB[l] \cap wire[l]
    BY <1>0, <1>1, <1>3, <2>1
  <2>3. QED
    BY <1>1, <2>1, <2>2 DEF Accounted
<1>4. CASE s \in packetDB[l]
  <2>1. /\ packetDB' = [packetDB EXCEPT ![l] = @ \ {s}]
        /\ wnd' = [wnd EXCEPT ![l] = FlowSendResponse(@, slider[l])]
    BY <1>4 DEF OnSubmitResp
  <2>2. packetDB'[l] \cap wire'[l] = D \ {s} /\ s \in D
    BY <1>0, <1>1, <1>4, <2>1
  <2>3. wnd'[l] = FlowSendResponse(wnd[l], slider[l])
    BY <1>0, <2>1
  <2> HIDE DEF D
  <2>4. Cardinality(D \ {s}) = Cardinality(D) - 1 /\ Cardinality(D) \in Nat
    BY <1>2, <2>2, FS_RemoveElement, FS_CardinalityType
  <2>5. Cardinality(D \ {s}) \in Nat
    BY <1>2, FS_RemoveElement, FS_CardinalityType
  <2>6. ASSUME m_iState'[l] = "DATATRAN", ~reset'[l]
        PROVE  wnd'[l] + Cardinality(D \ {s}) + expired[l] = slider[l]
    <3>1. wnd[l] + Cardinality(D) + expired[l] = slider[l]
      BY <1>1, <2>6 DEF Accounted, D
    <3>2. wnd'[l] = wnd[l] + 1
      BY <1>0, <2>3, <2>4, <2>5, <3>1 DEF FlowSendResponse
    <3>3. QED
      BY <1>0, <2>4, <3>1, <3>2
  <2>7. QED
    BY <1>1, <2>2, <2>6 DEF Accounted
<1>5. QED
  BY <1>3, <1>4

(* A time-out turns an open segment into an expired one.                   *)
LEMMA ExpireAccounted ==
    ASSUME LinkTyped, NEW l \in Links, Accounted(l), Expire(l),
           m_iState'[l] = m_iState[l], reset'[l] = reset[l],
           wnd'[l] = wnd[l], slider'[l] = slider[l], wire'[l] = wire[l]
    PROVE  Accounted(l)'
<1> DEFINE late == {s \in packetDB[l] : age[s] + 1 > SessionTicks}
           D == packetDB[l] \cap wire[l]
           E == late \cap wire[l]
<1>0. /\ packetDB \in [Links -> SUBSET Seg] /\ packetDB[l] \in SUBSET Seg
      /\ expired \in [Links -> Nat] /\ expired[l] \in Nat
      /\ wnd[l] \in Int /\ slider[l] \in Int
  BY LinkValues
<1>1. /\ packetDB' = [packetDB EXCEPT ![l] = @ \ late]
      /\ expired' = [expired EXCEPT ![l] = @ + Cardinality(E)]
  BY DEF Expire
<1>2. E \subseteq D /\ late \subseteq packetDB[l] /\ D \in SUBSET Seg
  BY <1>0
<1> HIDE DEF late
<1>3. packetDB'[l] \cap wire'[l] = D \ E
  BY <1>0, <1>1, <1>2
<1>4. expired'[l] = expired[l] + Cardinality(E)
  BY <1>0, <1>1
<1>5. IsFiniteSet(D) /\ IsFiniteSet(E)
  BY <1>2, SegFinite, FS_Subset
<1>6. D \cap E = E
  BY <1>2
<1>a. Accounted(l) <=>
         (m_iState[l] = "DATATRAN" /\ ~reset[l] =>
             wnd[l] + Cardinality(D) + expired[l] = slider[l])
  BY DEF Accounted
<1> HIDE DEF D, E
<1>7. Cardinality(D \ E) = Cardinality(D) - Cardinality(E)
  BY <1>5, <1>6, FS_Difference
<1>8. Cardinality(D) \in Nat /\ Cardinality(E) \in Nat
  BY <1>5, FS_CardinalityType
<1>9. ASSUME m_iState'[l] = "DATATRAN", ~reset'[l]
      PROVE  wnd'[l] + Cardinality(packetDB'[l] \cap wire'[l]) + expired'[l]
                = slider'[l]
  <2>1. wnd[l] + Cardinality(D) + expired[l] = slider[l]
    BY <1>9, <1>a
  <2>2. Cardinality(packetDB'[l] \cap wire'[l]) = Cardinality(D) - Cardinality(E)
    BY <1>3, <1>7
  <2>3. QED
    BY <1>0, <1>4, <1>8, <2>1, <2>2
<1>10. QED
  BY <1>9 DEF Accounted

(* A submitted SMS takes a token for each of its segments.                 *)
LEMMA SubmitAccounted ==
    ASSUME LinkTyped, LinkTyped', SessInv, NEW l \in Links, Accounted(l),
           HandleDispatch(l), SendSms(l, cq[l][1])
    PROVE  Accounted(l)'
<1> DEFINE n == cq[l][1]
           D == packetDB[l] \cap wire[l]
<1>0. /\ packetDB \in [Links -> SUBSET Seg] /\ wire \in [Links -> SUBSET Seg]
      /\ expired[l] \in Nat /\ wnd \in [Links -> Int] /\ slider[l] \in Int
      /\ cq \in [Links -> Seq(Sms)] /\ cq[l] # <<>>
      /\ cq' = [cq EXCEPT ![l] = Tail(@)]
  BY LinkValues DEF LinkTyped, QueueTypeOK, HandleDispatch
<1>1. QueueShortens(l, 1) /\ n \in Sms
  BY <1>0, HeadShortens
<1>2. SmsSubmitted(l)
  BY <1>1 DEF SendSms, SmsSubmitted, HandleDispatch
<1>3. SegsOf(n) \cap (packetDB[l] \cup wire[l]) = {}
  BY <1>0, <1>2, SubmittedInv
<1>4. /\ packetDB' = [packetDB EXCEPT ![l] = @ \cup SegsOf(n)]
      /\ wire' = [wire EXCEPT ![l] = @ \cup SegsOf(n)]
      /\ wnd' = [wnd EXCEPT ![l] = @ - Segs[n]]
      /\ UNCHANGED <<m_iState, reset, slider, expired>>
  BY DEF SendSms, FlowSendRequst, HandleDispatch
<1>5. SegsOf(n) \in SUBSET Seg /\ Cardinality(SegsOf(n)) = Segs[n] /\ Segs[n] \in Nat
  BY <1>1, SegsOfType, SegsOfCard
<1> HIDE DEF n
<1>6. packetDB'[l] \cap wire'[l] = D \cup SegsOf(n) /\ D \cap SegsOf(n) = {}
  BY <1>0, <1>3, <1>4
<1>7. IsFiniteSet(D) /\ IsFiniteSet(SegsOf(n))
  BY <1>0, <1>5, SegFinite, FS_Subset
<1>a. Accounted(l) <=>
         (m_iState[l] = "DATATRAN" /\ ~reset[l] =>
             wnd[l] + Cardinality(D) + expired[l] = slider[l])
  BY DEF Accounted
<1> HIDE DEF D
<1> DEFINE T == SegsOf(n)
<1>b. IsFiniteSet(T) /\ D \cap T = {} /\ Cardinality(T) = Segs[n]
  BY <1>5, <1>6, <1>7
<1>c. packetDB'[l] \cap wire'[l] = D \cup T
  BY <1>6
<1> HIDE DEF T
<1>8. Cardinality(D \cup T)
         = Cardinality(D) + Cardinality(T) - Cardinality(D \cap T)
  BY <1>7, <1>b, FS_Union, Zenon
<1>9. Cardinality(D \cap T) = 0 /\ Cardinality(D) \in Nat
  BY <1>7, <1>b, FS_EmptySet, FS_CardinalityType
<1>10. ASSUME m_iState'[l] = "DATATRAN", ~reset'[l]
       PROVE  wnd'[l] + Cardinality(packetDB'[l] \cap wire'[l]) + expired'[l]
                 = slider'[l]
  <2>1. wnd[l] + Cardinality(D) + expired[l] = slider[l]
    BY <1>4, <1>10, <1>a
  <2>2. wnd'[l] = wnd[l] - Segs[n] /\ wnd[l] \in Int
    BY <1>0, <1>4
  <2>3. Cardinality(D \cup T) = Cardinality(D) + Segs[n]
    BY <1>5, <1>8, <1>9, <1>b
  <2>4. Cardinality(packetDB'[l] \cap wire'[l]) = Cardinality(D) + Segs[n]
    BY <1>c, <2>3
  <2>5. slider'[l] = slider[l] /\ expired'[l] = expired[l]
    BY <1>4
  <2>6. QED
    BY <1>0, <1>5, <1>9, <2>1, <2>2, <2>4, <2>5
<1>11. QED
  BY <1>10 DEF Accounted

LEMMA GatewayAccounted ==
    ASSUME LinkTyped, ConnInv, NEW l \in Links, NEW k \in Links, Accounted(k),
           LinkGateway(l)
    PROVE  Accounted(k)'
<1> USE DEF LinkTyped, ConnTypeOK, FlowTypeOK, SessTypeOK, conn_vars, flow_vars,
            sess_vars
<1>1. CASE OnConnRespOk(l)
  <2>1. CASE k = l
    <3>1. wire[l] = {}
      BY <1>1 DEF OnConnRespOk, ConnInv, ConnConsistent
    <3>2. wire'[l] = {} /\ wnd'[l] = slider[l] /\ expired'[l] = 0
          /\ slider'[l] = slider[l]
      BY <1>1, <3>1 DEF OnConnRespOk
    <3>3. Cardinality(packetDB'[l] \cap wire'[l]) = 0
      <4>1. packetDB'[l] \cap wire'[l] = {}
        BY <3>2
      <4>2. QED
        BY <4>1, FS_EmptySet
    <3>4. slider[l] \in Int
      BY LinkValues
    <3>5. QED
      BY <2>1, <3>2, <3>3, <3>4 DEF Accounted
  <2>2. CASE k # l
    BY <1>1, <2>2, SameWindowAccounted DEF OnConnRespOk, SameWindow
  <2>3. QED
    BY <2>1, <2>2
<1>2. CASE OnConnRespFail(l)
  <2>1. CASE k = l
    BY <1>2, <2>1, NotAccountable DEF OnConnRespFail
  <2>2. CASE k # l
    BY <1>2, <2>2, SameWindowAccounted DEF OnConnRespFail, LoginLost, SameWindow
  <2>3. QED
    BY <2>1, <2>2
<1>3. ASSUME NEW s \in wire[l], NEW st \in {"SUCCESS", "FAIL"},
             OnSubmitResp(l, s, st)
      PROVE  Accounted(k)'
  <2>1. CASE k = l
    BY <1>3, <2>1, AnswerAccounted
  <2>2. CASE k # l
    BY <1>3, <2>2, SameWindowAccounted DEF OnSubmitResp, SameWindow
  <2>3. QED
    BY <2>1, <2>2
<1>4. CASE OnHeartbeat(l) \/ OnBadPacket(l)
  BY <1>4, SameWindowAccounted DEF OnHeartbeat, OnBadPacket, SameWindow
<1>5. ASSUME NEW st \in {"CLOSE", "EXCEPT"}, OnClosed(l, st)
      PROVE  Accounted(k)'
  <2>1. CASE k = l
    BY <1>5, <2>1, NotAccountable DEF OnClosed
  <2>2. CASE k # l
    BY <1>5, <2>2, SameWindowAccounted DEF OnClosed, LoginLost, SameWindow
  <2>3. QED
    BY <2>1, <2>2
<1>6. QED
  BY <1>1, <1>2, <1>3, <1>4, <1>5 DEF LinkGateway

LEMMA reConnAccounted ==
    ASSUME LinkTyped, NEW l \in Links, reConn(l)
    PROVE  \/ m_iState'[l] = "INIT"
           \/ m_iState' = m_iState /\ wire' = wire
BY reConnCases DEF LinkTyped, ConnTypeOK, conn_vars

LEMMA TimerAccounted ==
    ASSUME LinkTyped, NEW l \in Links, NEW k \in Links, Accounted(k),
           HandleHeartTimeOut(l)
    PROVE  Accounted(k)'
<1>0. ConnTypeOK /\ FlowTypeOK /\ SessTypeOK
  BY DEF LinkTyped
<1> USE DEF ConnTypeOK, FlowTypeOK, SessTypeOK
<1>1. CASE chan[l] # "live"
  BY <1>1, SameWindowAccounted
     DEF HandleHeartTimeOut, SameWindow, conn_vars, flow_vars, sess_vars
<1>2. CASE chan[l] = "live" /\ k # l
  <2>1. Expire(l) /\ (TimerConn(l) \/ TimerHeartLost(l) \/ TimerAlive(l))
    BY <1>2 DEF HandleHeartTimeOut
  <2>2. packetDB'[k] = packetDB[k] /\ expired'[k] = expired[k]
    BY <1>0, <1>2, <2>1 DEF Expire
  <2>3. /\ m_iState'[k] = m_iState[k] /\ reset'[k] = reset[k]
        /\ wnd'[k] = wnd[k] /\ slider'[k] = slider[k] /\ wire'[k] = wire[k]
    <3>1. CASE TimerConn(l)
      BY <1>0, <1>2, <3>1 DEF TimerConn, LoginLost
    <3>2. CASE TimerHeartLost(l)
      <4>1. UNCHANGED <<wnd, slider, reset>> /\ reConn(l)
        BY <3>2 DEF TimerHeartLost
      <4>2. m_iState'[k] = m_iState[k] /\ wire'[k] = wire[k]
        BY <1>0, <1>2, <4>1, reConnCases DEF conn_vars
      <4>3. QED
        BY <4>1, <4>2
    <3>3. CASE TimerAlive(l)
      <4>1. UNCHANGED <<m_iState, wire, slider>>
        BY <3>3 DEF TimerAlive
      <4>2. reset'[k] = reset[k] /\ wnd'[k] = wnd[k]
        <5>1. CASE MustReset(l)
          <6>1. wnd' = [wnd EXCEPT ![l] = slider[l]]
                /\ reset' = [reset EXCEPT ![l] = TRUE]
            BY <3>3, <5>1 DEF TimerAlive
          <6>2. QED
            BY <1>0, <1>2, <6>1
        <5>2. CASE ~MustReset(l)
          BY <3>3, <5>2 DEF TimerAlive
        <5>3. QED
          BY <5>1, <5>2
      <4>3. QED
        BY <4>1, <4>2
    <3>4. QED
      BY <2>1, <3>1, <3>2, <3>3
  <2>4. QED
    BY <2>2, <2>3, SameWindowAccounted DEF SameWindow
<1>3. CASE chan[l] = "live" /\ k = l
  <2>1. Expire(l) /\ (TimerConn(l) \/ TimerHeartLost(l) \/ TimerAlive(l))
    BY <1>3 DEF HandleHeartTimeOut
  <2>2. CASE TimerConn(l)
    BY <1>0, <1>3, <2>2, NotAccountable DEF TimerConn
  <2>3. CASE TimerHeartLost(l)
    <3>1. UNCHANGED <<wnd, slider, reset>> /\ reConn(l)
      BY <2>3 DEF TimerHeartLost
    <3>2. CASE m_iState'[l] = "INIT"
      BY <1>3, <3>2, NotAccountable
    <3>3. CASE m_iState' = m_iState /\ wire' = wire
      BY <1>3, <2>1, <3>1, <3>3, ExpireAccounted
    <3>4. QED
      BY <3>1, <3>2, <3>3, reConnAccounted
  <2>4. CASE TimerAlive(l)
    <3>1. UNCHANGED <<m_iState, wire, slider>>
      BY <2>4 DEF TimerAlive
    <3>2. CASE MustReset(l)
      <4>1. reset' = [reset EXCEPT ![l] = TRUE]
        BY <2>4, <3>2 DEF TimerAlive
      <4>2. reset'[l]
        BY <1>0, <4>1
      <4>3. QED
        BY <1>3, <4>2, NotAccountable
    <3>3. CASE ~MustReset(l)
      <4>1. UNCHANGED <<wnd, reset>>
        BY <2>4, <3>3 DEF TimerAlive
      <4>2. QED
        BY <1>3, <2>1, <3>1, <4>1, ExpireAccounted
    <3>4. QED
      BY <3>2, <3>3
  <2>5. QED
    BY <2>1, <2>2, <2>3, <2>4
<1>4. QED
  BY <1>1, <1>2, <1>3

LEMMA ThreadAccounted ==
    ASSUME LinkTyped, LinkTyped', ConnInv, SessInv,
           NEW l \in Links, NEW k \in Links, NEW n \in Sliders, Accounted(k),
           \/ HandleReset(l) \/ HandleDispatch(l)
           \/ HandleChannelSlideWindowUpdate(l, n) \/ HandleChannelDel(l)
           \/ HandleChannelCloseTimeOut(l, n) \/ HeartFires(l)
    PROVE  Accounted(k)'
<1>0. ConnTypeOK /\ FlowTypeOK /\ SessTypeOK /\ cq \in [Links -> Seq(Sms)]
  BY DEF LinkTyped, QueueTypeOK
<1> USE DEF ConnTypeOK, FlowTypeOK, SessTypeOK, conn_vars, flow_vars, sess_vars
<1>1. CASE HandleReset(l)
  <2>1. UNCHANGED <<wnd, slider, expired, reset, packetDB>>
    BY <1>1 DEF HandleReset
  <2>2. CASE UNCHANGED conn_vars
    BY <2>1, <2>2, SameWindowAccounted DEF SameWindow
  <2>3. CASE reConn(l)
    <3>1. CASE k = l /\ m_iState'[l] = "INIT"
      BY <3>1, NotAccountable
    <3>2. CASE m_iState'[k] = m_iState[k] /\ wire'[k] = wire[k]
      BY <2>1, <3>2, SameWindowAccounted DEF SameWindow
    <3>3. \/ k = l /\ m_iState'[l] = "INIT"
          \/ m_iState'[k] = m_iState[k] /\ wire'[k] = wire[k]
      BY <1>0, <2>3, reConnCases
    <3>4. QED
      BY <3>1, <3>2, <3>3
  <2>4. QED
    BY <1>1, <2>2, <2>3 DEF HandleReset
<1>2. CASE HandleDispatch(l)
  <2>1. Head(cq[l]) = cq[l][1]
    BY <1>0, <1>2 DEF HandleDispatch
  <2>2. UNCHANGED <<m_iState, sock, slider, expired, reset>>
    BY <1>2 DEF HandleDispatch
  <2>3. CASE SendSms(l, cq[l][1]) /\ k = l
    BY <1>2, <2>3, SubmitAccounted
  <2>4. CASE SendSms(l, cq[l][1]) /\ k # l
    BY <1>0, <2>2, <2>4, SameWindowAccounted
       DEF SendSms, FlowSendRequst, SameWindow
  <2>5. CASE SendSmsUnconnected(l, cq[l][1]) /\ k = l
    <3>1. m_iState[l] # "DATATRAN"
      BY <2>5 DEF SendSmsUnconnected, ConnInv, ConnConsistent
    <3>2. QED
      BY <2>2, <2>5, <3>1, NotAccountable
  <2>6. CASE SendSmsUnconnected(l, cq[l][1]) /\ k # l
    BY <1>0, <2>2, <2>6, SameWindowAccounted DEF SendSmsUnconnected, SameWindow
  <2>7. QED
    BY <1>2, <2>1, <2>3, <2>4, <2>5, <2>6 DEF HandleDispatch
<1>3. CASE HandleChannelSlideWindowUpdate(l, n)
  <2>1. CASE k = l /\ reset'[l]
    BY <2>1, NotAccountable
  <2>2. CASE ~(k = l /\ reset'[l])
    BY <1>0, <1>3, <2>2, SameWindowAccounted
       DEF HandleChannelSlideWindowUpdate, SameWindow
  <2>3. QED
    BY <2>1, <2>2
<1>4. CASE HandleChannelDel(l) \/ HeartFires(l)
  BY <1>4, SameWindowAccounted DEF HandleChannelDel, HeartFires, SameWindow
<1>5. CASE HandleChannelCloseTimeOut(l, n)
  <2>1. CASE k = l
    BY <1>0, <1>5, <2>1, NotAccountable DEF HandleChannelCloseTimeOut
  <2>2. CASE k # l
    BY <1>0, <1>5, <2>2, SameWindowAccounted
       DEF HandleChannelCloseTimeOut, LoginLost, SameWindow
  <2>3. QED
    BY <2>1, <2>2
<1>6. QED
  BY <1>1, <1>2, <1>3, <1>4, <1>5

(* Every step of a link keeps the windows accounted for.                   *)
LEMMA LinkStepAccounted ==
    ASSUME LinkTyped, LinkTyped', ConnInv, SessInv,
           \A k \in Links : Accounted(k), NEW l \in Links, LinkStep(l)
    PROVE  \A k \in Links : Accounted(k)'
BY GatewayAccounted, TimerAccounted, ThreadAccounted, LinkAssumption
   DEF LinkStep, LinkMessage

LEMMA AccountingStep ==
    ASSUME LinkTypeOK, LinkTypeOK', ConnInv, SessInv, WindowAccounting,
           [LinkNext]_link_vars
    PROVE  WindowAccounting'
<1>0. /\ LinkTyped /\ LinkTyped'
      /\ \A k \in Links : Accounted(k)
  BY DEF LinkTyped, LinkTypeOK, WindowAccounting, Accounted
<1>1. ASSUME NEW l \in Links, LinkStep(l)
      PROVE  \A k \in Links : Accounted(k)'
  BY <1>0, <1>1, LinkStepAccounted
<1>2. ASSUME \/ \E l \in Links, m \in Sms : EnvDispatch(l, m)
             \/ \E l \in Links, msg \in ThreadMsg : EnvControl(l, msg)
             \/ EnvTakePool
             \/ \E r \in statusQ : EnvTakeStatus(r)
             \/ UNCHANGED link_vars
      PROVE  \A k \in Links : Accounted(k)'
  <2>1. UNCHANGED <<m_iState, reset, wnd, slider, expired, packetDB, wire>>
    BY <1>2 DEF EnvDispatch, EnvControl, EnvTakePool, EnvTakeStatus, link_vars,
                conn_vars, flow_vars, sess_vars
  <2>2. \A k \in Links : SameWindow(k)
    BY <2>1 DEF SameWindow
  <2>3. QED
    BY <1>0, <2>2, SameWindowAccounted
<1>3. \A k \in Links : Accounted(k)'
  BY <1>1, <1>2 DEF LinkNext
<1>4. QED
  BY <1>3 DEF WindowAccounting, Accounted

(* The window of a link that was not set by hand accounts for every        *)
(* segment, for any number of links, SMS and segments: tokens are neither  *)
(* lost nor made up by answers that come late, twice or for sessions of an *)
(* earlier connection.                                                     *)
THEOREM WindowAccounted == LinkSpec => []WindowAccounting
<1>1. InitLink => WindowAccounting
  BY DEF InitLink, WindowAccounting
<1>2. LinkTypeOK => LinkTyped
  BY DEF LinkTypeOK, LinkTyped
<1>3. LinkTypeOK /\ LinkTypeOK' /\ ConnInv /\ SessInv /\ WindowAccounting
      /\ [LinkNext]_link_vars => WindowAccounting'
  BY AccountingStep
<1>4. QED
  BY <1>1, <1>2, <1>3, ConnInit, ConnStep, SessionsInductive, PTL DEF LinkSpec

=============================================================================
