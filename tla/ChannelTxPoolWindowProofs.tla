--------------------- MODULE ChannelTxPoolWindowProofs ---------------------
(***************************************************************************)
(* The windows of ChannelTxPool: the types of its variables and the bound  *)
(* of the pool's window, for any number of links, sliders and faults; then *)
(* the links' own theorems with the pool in the place of the environment   *)
(* of DirectLink.                                                          *)
(*                                                                         *)
(* A login or a reset clamps to the number of working nodes times a slider *)
(* that the message carries, and an answer to that times the pool's own    *)
(* slider; both stay below MaxWindow because the sliders of the messages   *)
(* are sliders of the channel (LoginMsg, ResetMsg).                        *)
(* SysnSlideWndFromChannel takes what the links still have, hence          *)
(* WindowCapped of DirectLink.                                             *)
(***************************************************************************)
EXTENDS ChannelTxPoolProofs

\* What all links together can have.
MaxWindow == Cardinality(Links) * Max(Sliders)

(* A failed connection of the consumer returns a token nobody has capped,  *)
(* so the shared window may stand one above the bound; then it is counted, *)
(* the channel exists, and no SMS is held back whose token could be        *)
(* returned once more.                                                     *)
WindowInv ==
    /\ poolWnd \in Int /\ shared \in Int
    /\ poolWnd <= MaxWindow /\ shared <= MaxWindow + 1
    /\ blocked # {} \/ bSwitchOff \/ ~poolLive => shared <= MaxWindow

LEMMA MaxSlider ==
    /\ Max(Sliders) \in Sliders
    /\ \A n \in Sliders : n \in Nat /\ n <= Max(Sliders)
<1>1. /\ \A n \in Sliders : n \in Nat
      /\ \E max \in Sliders : \A n \in Sliders : n <= max
  BY LinkAssumption
<1>2. PICK max \in Sliders : \A n \in Sliders : max >= n
  BY <1>1
<1>3. Max(Sliders) \in Sliders /\ \A n \in Sliders : Max(Sliders) >= n
  BY <1>2 DEF Max
<1>4. QED
  BY <1>1, <1>3

LEMMA ProductLeq ==
    ASSUME NEW a \in Nat, NEW b \in Nat, NEW c \in Nat, NEW d \in Nat, a <= c, b <= d
    PROVE  a * b \in Nat /\ a * b <= c * d
<1>1. PICK e \in Nat : c = a + e
  <2>1. c - a \in Nat /\ c = a + (c - a)
    OBVIOUS
  <2>2. QED
    BY <2>1
<1>2. PICK f \in Nat : d = b + f
  <2>1. d - b \in Nat /\ d = b + (d - b)
    OBVIOUS
  <2>2. QED
    BY <2>1
<1>3. c * d = a * b + a * f + e * b + e * f
  BY <1>1, <1>2
<1>4. a * b \in Nat /\ a * f \in Nat /\ e * b \in Nat /\ e * f \in Nat
  OBVIOUS
<1>5. QED
  BY <1>3, <1>4

(* Some of the links with one slider each.                                 *)
LEMMA SomeLinks ==
    ASSUME NEW L \in SUBSET Links, NEW n \in Sliders
    PROVE  Cardinality(L) * n \in Nat /\ Cardinality(L) * n <= MaxWindow
<1>1. /\ Cardinality(L) \in Nat /\ Cardinality(Links) \in Nat
      /\ Cardinality(L) <= Cardinality(Links)
  BY LinkAssumption, FS_Subset, FS_CardinalityType
<1>2. n \in Nat /\ Max(Sliders) \in Nat /\ n <= Max(Sliders)
  BY MaxSlider
<1>3. QED
  BY <1>1, <1>2, ProductLeq DEF MaxWindow

LEMMA MaxWindowNat == MaxWindow \in Nat
BY MaxSlider, SomeLinks DEF MaxWindow

(* The free tokens of the links that can send.                             *)
LEMMA FreeTokens ==
    ASSUME LinkTyped, WindowCapped, NEW L \in SUBSET Links
    PROVE  LET free == Cardinality(UNION {{l} \X (1 .. wnd[l]) : l \in L})
           IN  free \in Nat /\ free <= MaxWindow
<1> DEFINE U == UNION {{l} \X (1 .. wnd[l]) : l \in L}
           P == Links \X (1 .. Max(Sliders))
<1>1. \A l \in Links : wnd[l] \in Int /\ wnd[l] <= Max(Sliders)
  <2>1. \A l \in Links : wnd[l] \in Int /\ slider[l] \in Sliders /\ wnd[l] <= slider[l]
    BY DEF LinkTyped, FlowTypeOK, WindowCapped
  <2>2. Max(Sliders) \in Nat /\ \A n \in Sliders : n \in Nat /\ n <= Max(Sliders)
    BY MaxSlider
  <2>3. QED
    BY <2>1, <2>2
<1>2. Max(Sliders) \in Nat
  BY MaxSlider
<1>3. U \subseteq P
  <2> SUFFICES ASSUME NEW l \in L, NEW k \in 1 .. wnd[l]
               PROVE  <<l, k>> \in P
    OBVIOUS
  <2>1. k \in 1 .. Max(Sliders)
    BY <1>1, <1>2
  <2>2. QED
    BY <2>1
<1>4. /\ IsFiniteSet(1 .. Max(Sliders))
      /\ Cardinality(1 .. Max(Sliders)) = Max(Sliders)
  BY <1>2, FS_Interval
<1>5. IsFiniteSet(P) /\ Cardinality(P) = MaxWindow
  BY <1>4, LinkAssumption, FS_Product DEF MaxWindow
<1> HIDE DEF U, P
<1>6. IsFiniteSet(U) /\ Cardinality(U) <= MaxWindow
  BY <1>3, <1>5, FS_Subset
<1>7. QED
  BY <1>6, FS_CardinalityType DEF U

(* A step that leaves the windows and the consumer alone.                  *)
LEMMA WindowAlone ==
    WindowInv /\ UNCHANGED <<window_vars, blocked, poolLive>> => WindowInv'
BY DEF WindowInv, window_vars

(* Both windows lie within the bound after the step.                       *)
LEMMA WindowSet ==
    ASSUME poolWnd' \in Int, shared' \in Int, poolWnd' <= MaxWindow, shared' <= MaxWindow
    PROVE  WindowInv'
<1>1. MaxWindow' = MaxWindow
  BY DEF MaxWindow
<1>2. MaxWindow \in Nat
  BY MaxWindowNat
<1>3. QED
  BY <1>1, <1>2 DEF WindowInv

LEMMA MqWindow ==
    ASSUME WindowInv, MqStep
    PROVE  WindowInv'
<1>0. MaxWindow \in Nat /\ MaxWindow' = MaxWindow
  BY MaxWindowNat DEF MaxWindow
<1>1. UNCHANGED <<poolWnd, poolLive>>
  BY DEF MqStep
<1>2. \/ \E m \in Sms : MqConsume(m) \/ MqBlock(m) \/ MqRelease(m) \/ MqAckFails(m)
      \/ MqReconnect
  BY DEF MqStep, MqDeliver
<1>3. CASE \E m \in Sms : MqConsume(m) \/ MqBlock(m) \/ MqAckFails(m)
  <2>1. shared' = Subtracted /\ UNCHANGED bSwitchOff
    BY <1>3 DEF MqConsume, MqBlock, MqAckFails
  <2>2. shared' \in Int /\ shared' <= MaxWindow
    BY <1>0, <2>1 DEF Subtracted, WindowInv
  <2>3. QED
    BY <1>0, <1>1, <2>2, WindowSet DEF WindowInv
<1>4. CASE \E m \in Sms : MqRelease(m)
  <2>1. UNCHANGED <<shared, bSwitchOff>> /\ blocked # {} /\ blocked' = {}
    BY <1>4 DEF MqRelease
  <2>2. QED
    BY <1>0, <1>1, <2>1 DEF WindowInv
<1>5. CASE MqReconnect
  <2>1. UNCHANGED bSwitchOff /\ blocked # {} /\ blocked' = {} /\ shared' = Added(-1)
    BY <1>5 DEF MqReconnect
  <2>2. shared' = IF bSwitchOff \/ ~poolLive THEN shared ELSE shared + 1
    BY <2>1 DEF Added
  <2>3. QED
    BY <1>0, <1>1, <2>1, <2>2 DEF WindowInv
<1>6. QED
  BY <1>2, <1>3, <1>4, <1>5

LEMMA SendWindow ==
    ASSUME WindowInv, NEW m, NEW times, NEW q, HandleDirectSendMsg(m, times, q)
    PROVE  WindowInv'
<1>0. MaxWindow \in Nat /\ MaxWindow' = MaxWindow
  BY MaxWindowNat DEF MaxWindow
<1>1. UNCHANGED <<blocked, poolLive, bSwitchOff>>
  BY DEF HandleDirectSendMsg, mq_vars
<1>2. \/ poolWnd' = poolWnd - 1 /\ UNCHANGED shared
      \/ poolWnd' = 0 /\ shared' = 0
      \/ UNCHANGED <<poolWnd, shared>>
  BY DEF HandleDirectSendMsg, SendToLink, SendToNone
<1>3. QED
  BY <1>0, <1>1, <1>2 DEF WindowInv

LEMMA ModifyWindow ==
    ASSUME WindowInv, NEW iWnd \in Int, NEW L \in SUBSET Links, NEW n \in Sliders,
           PoolChannelFlowCtrModify(iWnd, Cardinality(L) * n)
    PROVE  WindowInv'
<1> DEFINE max == Cardinality(L) * n
<1>1. max \in Nat /\ max <= MaxWindow /\ MaxWindow \in Nat
  BY SomeLinks, MaxWindowNat
<1>2. poolWnd' = Clamp(poolWnd + iWnd, max) /\ shared' = poolWnd'
  BY DEF PoolChannelFlowCtrModify
<1> HIDE DEF max
<1>3. poolWnd' \in Int /\ poolWnd' <= MaxWindow
  BY <1>1, <1>2 DEF Clamp, WindowInv
<1>4. QED
  BY <1>2, <1>3, WindowSet

LEMMA NoticeWindow ==
    ASSUME WindowInv, PoolTyped, HandleChannelLoginStateMsg \/ HandleTimeOutResetSlideWindowMsg
    PROVE  WindowInv'
<1> DEFINE msg == Head(poolQ)
<1>0. msg \in PoolMsg
  BY HeadTyped DEF HandleChannelLoginStateMsg, HandleTimeOutResetSlideWindowMsg,
                   PoolTakes, PoolTyped
<1>1. CASE UNCHANGED window_vars
  BY <1>1, WindowAlone
     DEF HandleChannelLoginStateMsg, HandleTimeOutResetSlideWindowMsg, mq_vars
<1>2. CASE HandleChannelLoginStateMsg /\ ~UNCHANGED window_vars
  <2>1. msg \in LoginMsg
    BY <1>0, <1>2, PoolMsgType DEF HandleChannelLoginStateMsg, PoolTakes
  <2>2. msg.iWnd \in Int /\ msg.iMaxWnd \in Sliders
    BY <2>1 DEF LoginMsg
  <2>3. PICK L \in SUBSET Links : PoolChannelFlowCtrModify(msg.iWnd, Cardinality(L) * msg.iMaxWnd)
    BY <1>2 DEF HandleChannelLoginStateMsg, WorkNodes
  <2>4. QED
    BY <2>2, <2>3, ModifyWindow
<1>3. CASE HandleTimeOutResetSlideWindowMsg /\ ~UNCHANGED window_vars
  <2>1. msg \in ResetMsg
    BY <1>0, <1>3, PoolMsgType DEF HandleTimeOutResetSlideWindowMsg, PoolTakes
  <2>2. msg.iWnd \in Sliders /\ msg.iWnd \in Int
    BY <2>1, MaxSlider DEF ResetMsg
  <2>3. PICK L \in SUBSET Links : PoolChannelFlowCtrModify(msg.iWnd, Cardinality(L) * msg.iWnd)
    BY <1>3 DEF HandleTimeOutResetSlideWindowMsg, WorkNodes
  <2>4. QED
    BY <2>2, <2>3, ModifyWindow
<1>4. QED
  BY <1>1, <1>2, <1>3

(* What a recovered window grows to is at most max.                        *)
LEMMA RecoveredLeq ==
    ASSUME NEW w \in Int, NEW max \in Nat
    PROVE  SSRecovered(w, max) \in Int /\ SSRecovered(w, max) <= max
BY DEF SSRecovered

LEMMA RspWindow ==
    ASSUME WindowInv, PoolTyped, poolLive, NEW first \in BOOLEAN, NEW st,
           SmsTxFlowCtrSendRsp(first, st), UNCHANGED <<blocked, poolLive>>
    PROVE  WindowInv'
<1> DEFINE max  == poolSlider * WorkNodes
           adds == first /\ st \in {"SUCCESS", "FAIL", "REBACK"}
           subs == ~first /\ st = "TIMEOUT"
           s    == IF adds THEN Added(max) ELSE IF subs THEN Subtracted ELSE shared
           w    == IF adds THEN CountAddReturns(max) ELSE IF subs THEN s ELSE poolWnd
<1>1. max \in Nat /\ max <= MaxWindow /\ MaxWindow \in Nat /\ MaxWindow' = MaxWindow
  <2>1. WorkNodes * poolSlider \in Nat /\ WorkNodes * poolSlider <= MaxWindow
    BY SomeLinks DEF WorkNodes, PoolTyped
  <2>2. poolSlider \in Nat
    BY MaxSlider DEF PoolTyped
  <2>3. WorkNodes \in Nat
    BY LinkAssumption, FS_Subset, FS_CardinalityType DEF WorkNodes
  <2>4. max = WorkNodes * poolSlider
    BY <2>2, <2>3
  <2>5. QED
    BY <2>1, <2>4, MaxWindowNat DEF MaxWindow
<1>2. \/ poolWnd' = w /\ shared' = s
      \/ poolWnd' = SSRecovered(w, max) /\ shared' = poolWnd'
  BY DEF SmsTxFlowCtrSendRsp
<1>3. bSwitchOff' = bSwitchOff
  BY DEF SmsTxFlowCtrSendRsp
<1> HIDE DEF max
<1>4. /\ Added(max) \in Int /\ Added(max) <= MaxWindow
      /\ Subtracted \in Int /\ Subtracted <= MaxWindow
      /\ CountAddReturns(max) \in Int /\ CountAddReturns(max) <= MaxWindow
  BY <1>1 DEF Added, Subtracted, CountAddReturns, WindowInv
<1>5. /\ s = shared \/ (s \in Int /\ s <= MaxWindow)
      /\ w \in Int /\ w <= MaxWindow
  BY <1>4 DEF WindowInv
<1> HIDE DEF s, w
<1>6. CASE poolWnd' = SSRecovered(w, max) /\ shared' = poolWnd'
  <2>1. SSRecovered(w, max) \in Int /\ SSRecovered(w, max) <= max
    BY <1>1, <1>5, RecoveredLeq
  <2>2. poolWnd' \in Int /\ poolWnd' <= MaxWindow
    BY <1>1, <1>6, <2>1
  <2>3. QED
    BY <1>6, <2>2, WindowSet
<1>7. CASE poolWnd' = w /\ shared' = s
  BY <1>1, <1>3, <1>4, <1>5, <1>7 DEF WindowInv
<1>8. QED
  BY <1>2, <1>6, <1>7

LEMMA StatusWindow ==
    ASSUME WindowInv, PoolTyped, NEW r \in statusQ, SmsTxChannelSendStatusReport(r)
    PROVE  WindowInv'
<1>1. UNCHANGED <<blocked, poolLive>>
  BY DEF SmsTxChannelSendStatusReport, mq_vars
<1>2. \/ UNCHANGED window_vars
      \/ /\ poolLive
         /\ \E first \in BOOLEAN, st \in {TxStatus(r.status)} :
               SmsTxFlowCtrSendRsp(first, st)
  <2> DEFINE first == session[SmsOf(r.seg)].recv + 1 = 1
  <2>1. first \in BOOLEAN
    OBVIOUS
  <2>2. CASE session[SmsOf(r.seg)].open /\ poolLive
    <3>1. SmsTxFlowCtrSendRsp(first, TxStatus(r.status))
      BY <2>2 DEF SmsTxChannelSendStatusReport
    <3>2. QED
      BY <2>1, <2>2, <3>1
  <2>3. ASSUME ~session[SmsOf(r.seg)].open \/ ~poolLive
        PROVE  UNCHANGED window_vars
    BY <2>3 DEF SmsTxChannelSendStatusReport
  <2>4. QED
    BY <2>2, <2>3
<1>3. QED
  BY <1>1, <1>2, WindowAlone, RspWindow

LEMMA ConfigWindow ==
    ASSUME WindowInv, PoolTyped, LinkTyped, WindowCapped,
           \/ SysnSlideWndFromChannel \/ DeleteChannel
           \/ \E n \in Sliders : UpdateSlider(n)
    PROVE  WindowInv'
<1>1. CASE SysnSlideWndFromChannel
  <2> DEFINE L == {l \in Links : FlowNormal(l)}
             sum == Cardinality(UNION {{l} \X (1 .. wnd[l]) : l \in L})
  <2>1. poolWnd' = sum /\ SetSize(sum)
    BY <1>1 DEF SysnSlideWndFromChannel
  <2>2. L \in SUBSET Links
    OBVIOUS
  <2> HIDE DEF L
  <2>3. sum \in Nat /\ sum <= MaxWindow
    BY <2>2, FreeTokens
  <2> HIDE DEF sum
  <2>4. QED
    BY <2>1, <2>3, WindowSet DEF SetSize
<1>2. CASE DeleteChannel
  BY <1>2, MaxWindowNat, WindowSet DEF DeleteChannel
<1>3. ASSUME NEW n \in Sliders, UpdateSlider(n)
      PROVE  WindowInv'
  <2>1. poolWnd' = WorkNodes * n /\ shared' = WorkNodes * n
    BY <1>3 DEF UpdateSlider, SetSize
  <2>2. WorkNodes * n \in Nat /\ WorkNodes * n <= MaxWindow
    BY SomeLinks DEF WorkNodes
  <2>3. QED
    BY <2>1, <2>2, MaxWindowNat, WindowSet
<1>4. QED
  BY <1>1, <1>2, <1>3

(* Apart from the links themselves, nobody touches a link's connection,    *)
(* window or sessions; the pool only posts to it and reads its reports.    *)
LEMMA OnlyLinks ==
    ASSUME [PoolNext]_tx_vars
    PROVE  \/ \E l \in Links : LinkStep(l)
           \/ UNCHANGED <<chan, conn_vars, flow_vars, packetDB>>
<1>1. CASE Sending
  BY <1>1, SendingKinds DEF HandleDirectSendMsg, LinksAlone, sess_vars
<1>2. CASE ~Sending
  BY <1>2 DEF Sending, PoolNext, MqStep, PoolMessage, HandleChannelLoginStateMsg,
              HandleTimeOutResetSlideWindowMsg, SmsTxChannelSendStatusReport,
              SysnSlideWndFromChannel, UpdateSlider, DeleteChannel, link_vars, tx_vars,
              sess_vars
<1>3. QED
  BY <1>1, <1>2

(* The links keep below their sliders, whatever the pool does.             *)
LEMMA PoolCappedStep ==
    ASSUME LinkTyped, WindowCapped, [PoolNext]_tx_vars
    PROVE  WindowCapped'
<1>1. CASE \E l \in Links : LinkStep(l)
  BY <1>1, CappedStep DEF LinkNext
<1>2. CASE UNCHANGED flow_vars
  BY <1>2 DEF WindowCapped, flow_vars
<1>3. QED
  BY <1>1, <1>2, OnlyLinks

LEMMA WindowStep ==
    ASSUME PoolTyped, LinkTyped, WindowCapped, WindowInv, [PoolNext]_tx_vars
    PROVE  WindowInv'
<1>1. CASE (\E l \in Links : LinkStep(l)) /\ UNCHANGED pool_vars
  BY <1>1, WindowAlone DEF pool_vars, window_vars
<1>2. CASE MqStep
  BY <1>2, MqWindow
<1>3. CASE HandleChannelLoginStateMsg \/ HandleTimeOutResetSlideWindowMsg
  BY <1>3, NoticeWindow
<1>4. CASE \E r \in statusQ : SmsTxChannelSendStatusReport(r)
  BY <1>4, StatusWindow
<1>5. CASE Sending
  <2>1. \/ UNCHANGED <<window_vars, blocked, poolLive>>
        \/ \E m, n, q : HandleDirectSendMsg(m, n, q)
    BY <1>5, SendingKinds DEF mq_vars
  <2>2. QED
    BY <2>1, WindowAlone, SendWindow
<1>6. CASE \/ SysnSlideWndFromChannel \/ DeleteChannel
           \/ \E n \in Sliders : UpdateSlider(n)
  BY <1>6, ConfigWindow
<1>7. CASE UNCHANGED tx_vars
  BY <1>7, WindowAlone DEF tx_vars, pool_vars, window_vars
<1>8. QED
  BY <1>1, <1>2, <1>3, <1>4, <1>5, <1>6, <1>7 DEF PoolNext, PoolMessage, Sending

LEMMA WindowInit == PoolInit => WindowInv /\ WindowCapped
<1> SUFFICES ASSUME PoolInit
             PROVE  WindowInv /\ WindowCapped
  OBVIOUS
<1>1. WindowCapped
  BY CappedInit DEF PoolInit
<1>2. poolWnd = FirstSlider * Cardinality(Links) /\ shared = poolWnd
  BY DEF PoolInit
<1>3. Cardinality(Links) * FirstSlider \in Nat /\ Cardinality(Links) * FirstSlider <= MaxWindow
  BY LinkAssumption, SomeLinks
<1>4. FirstSlider * Cardinality(Links) = Cardinality(Links) * FirstSlider
  BY LinkAssumption, FS_CardinalityType, MaxSlider
<1>5. QED
  BY <1>1, <1>2, <1>3, <1>4, MaxWindowNat DEF WindowInv

(* The windows are part of an invariant with the types and with the links' *)
(* own windows, from which SysnSlideWndFromChannel takes the pool's.       *)
THEOREM WindowsInductive ==
    PoolSpec => [](PoolTyped /\ LinkTyped /\ WindowCapped /\ WindowInv)
BY PoolTypedInit, PoolTypedStep, WindowInit, WindowStep, PoolCappedStep, PTL DEF PoolSpec

(* Every variable of pool and consumer keeps its type, for any number of   *)
(* links and SMS.                                                          *)
THEOREM PoolTypeCorrect == PoolSpec => []PoolTypeOK
<1>1. PoolTyped /\ WindowInv => PoolTypeOK
  BY DEF PoolTyped, RecordTyped, PoolMsg, WindowInv, PoolTypeOK
<1>2. QED
  BY <1>1, WindowsInductive, PTL

(* However logins, resets, answers, audits and failures of the consumer's  *)
(* connection are interleaved, the pool never gives itself more window     *)
(* than all links together can have.                                       *)
THEOREM PoolNeverAboveLinks == PoolSpec => []PoolWindowBounded
<1>1. WindowInv => PoolWindowBounded
  BY DEF WindowInv, MaxWindow, PoolWindowBounded
<1>2. QED
  BY <1>1, WindowsInductive, PTL

-----------------------------------------------------------------------------
(* What DirectLink promises on its own holds with the real pool as well.   *)
AllAccounted == \A k \in Links : Accounted(k)

LEMMA PoolConnStep ==
    ASSUME LinkTyped, ConnInv, [PoolNext]_tx_vars
    PROVE  ConnInv'
<1>1. CASE \E l \in Links : LinkStep(l)
  BY <1>1, ConnStep DEF LinkNext
<1>2. CASE UNCHANGED <<chan, conn_vars, flow_vars, packetDB>>
  <2>1. \A k \in Links : SameLink(k)
    BY <1>2 DEF SameLink, conn_vars
  <2>2. QED
    BY <2>1, SameLinkConsistent DEF ConnInv
<1>3. QED
  BY <1>1, <1>2, OnlyLinks

LEMMA PoolAccountedStep ==
    ASSUME LinkTyped, LinkTyped', ConnInv, SessInv, AllAccounted, [PoolNext]_tx_vars
    PROVE  AllAccounted'
<1>1. CASE \E l \in Links : LinkStep(l)
  BY <1>1, LinkStepAccounted DEF AllAccounted
<1>2. CASE UNCHANGED <<chan, conn_vars, flow_vars, packetDB>>
  <2>1. \A k \in Links : SameWindow(k)
    BY <1>2 DEF SameWindow, conn_vars, flow_vars
  <2>2. QED
    BY <2>1, SameWindowAccounted DEF AllAccounted
<1>3. QED
  BY <1>1, <1>2, OnlyLinks

(* The links of a real pool keep what they promise to any pool: flags that *)
(* agree, a window below the slider that accounts for every segment, and   *)
(* sessions that end once.                                                 *)
THEOREM LinksKeepPromises ==
    PoolSpec => [](LinkStateConsistent /\ WindowCapped /\ WindowAccounting /\ SessionsConserved)
<1>1. PoolInit => ConnInv /\ AllAccounted
  BY ConnInit DEF PoolInit, InitLink, AllAccounted, Accounted
<1>2. PoolInv => LinkTyped /\ SessInv
  BY DEF PoolInv
<1>3. PoolInv /\ PoolInv' /\ ConnInv /\ AllAccounted /\ [PoolNext]_tx_vars
      => ConnInv' /\ AllAccounted'
  BY PoolConnStep, PoolAccountedStep DEF PoolInv
<1>4. ConnInv => LinkStateConsistent
  BY DEF ConnInv, ConnConsistent, LinkStateConsistent
<1>5. AllAccounted => WindowAccounting
  BY DEF AllAccounted, Accounted, WindowAccounting
<1>6. SessInv => SessionsConserved
  BY DEF SessInv, SessionsCounted, SessionsConserved, Pairs
<1>7. QED
  BY <1>1, <1>2, <1>3, <1>4, <1>5, <1>6, PoolInductive, WindowsInductive, PTL
     DEF PoolSpec
=============================================================================
