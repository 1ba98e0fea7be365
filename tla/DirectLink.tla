----------------------------- MODULE DirectLink -----------------------------
(***************************************************************************)
(* The direct (CMPP) connections of one SMS channel: CMPPChannelSend on    *)
(* top of IChannel, run by CDirectSendThread (smsp_send).  A channel has   *)
(* one connection, a link, on each of several direct threads.              *)
(*                                                                         *)
(* Each link logs in to the gateway, submits the segments of the SMS that  *)
(* wait in its channel queue, keeps a session per segment until the        *)
(* gateway answers, and keeps a send window (m_flowCtr.iWindowSize).  It   *)
(* tells the pool (ChannelTxPool) about logins, window resets and the      *)
(* outcome of every segment.                                               *)
(*                                                                         *)
(* Time is counted in runs of OnTimer, one every 3 s.  The order of the    *)
(* reports in m_msgStatusQueue is not kept: the gateway answers in any     *)
(* order.  The wire format, the URL check of conn() and the alarm counters *)
(* are left out; CHAN_DATATRAN/CLOSE/EXCEPT notifications are left out     *)
(* because CDirectSendThread::HandleMsg does nothing with them.            *)
(***************************************************************************)
EXTENDS Integers, Sequences, FiniteSets

CONSTANTS
    Links,          \* the direct threads that serve the channel
    Sms,            \* the messages
    Segs,           \* Segs[m]: segments sendSms writes for m
    Total,          \* Total[m]: the segment count put in m's reports
    Sliders,        \* values the channel's m_uSliderWindow may take
    FirstSlider,    \* its value at start
    HeartLimit,     \* OnTimer runs without data before reConn (10)
    ResetTicks,     \* ICHANNEL_SLIDER_RESET_TIME in OnTimer runs (20)
    SessionTicks,   \* ICHANNEL_SESSION_TIMEOUT_SECS in OnTimer runs (100)
    MaxFaults,      \* bound: closes, errors and bad packets from the gateway
    MaxQueue        \* bound: no timer message or configuration change while
                    \* the pool's or the thread's queue holds this many

ASSUME LinkAssumption ==
    /\ Sliders \subseteq Nat \ {0} /\ FirstSlider \in Sliders
    /\ \E max \in Sliders : \A n \in Sliders : n <= max       \* UInt32
    /\ HeartLimit \in Nat /\ ResetTicks \in Nat /\ SessionTicks \in Nat
    /\ MaxFaults \in Nat /\ MaxQueue \in Nat
    /\ IsFiniteSet(Sms) /\ IsFiniteSet(Links)
    /\ Segs \in [Sms -> Nat \ {0}]
    /\ Total \in [Sms -> Nat \ {0}]

VARIABLES
    chan,           \* live (in m_mapChannelInfo), closing (in
                    \* m_mapChannelWaitDel), gone (deleted)
    m_iState,       \* INIT, DATATRAN, UNLOGIN, CLOSE or EXCEPT
    m_bHasConn,
    m_bHasReconnTask,
    m_uHeartbeatTick,
    loginState,     \* m_uChannelLoginState: 0 not yet, 1 success, 2 failed
    wnd,            \* m_flowCtr.iWindowSize
    rspAge,         \* OnTimer runs since m_flowCtr.lLastRspTime, counted
                    \* only while the window is used up, to ResetTicks + 1
    slider,         \* m_ChannelInfo.m_uSliderWindow
    packetDB,       \* segments with a session in _packetDB
    age,            \* OnTimer runs since the segment's m_lSubmitDate
    sock,           \* m_pSocket: none, connecting, open, dead
    wire,           \* segments on the current socket the gateway may answer
    cq,             \* m_ChannelmsgQueueMap[channel]: SMS to send
    dq,             \* the direct thread's m_msgQueue
    heart,          \* m_wheelTime is armed
    poolQ,          \* the pool's m_msgQueue
    statusQ,        \* the pool's m_msgStatusQueue
    faults,         \* gateway faults so far
    \* History, read by no action of the program:
    written,        \* written[m]: sessions ever saved for m
    reported,       \* reported[m]: reports ever posted for m
    dropped,        \* dropped[m]: sessions destroy() has skipped
    expired,        \* sessions of this login that ended in a timeout
    reset           \* the window was set by hand since the login

conn_vars == <<m_iState, m_bHasConn, m_bHasReconnTask, m_uHeartbeatTick,
               loginState, sock, wire>>
flow_vars == <<wnd, rspAge, slider, expired, reset>>
sess_vars == <<packetDB, age, statusQ, written, reported, dropped>>
link_vars == <<chan, conn_vars, flow_vars, sess_vars, cq, dq, heart, poolQ,
               faults>>

\* A segment; segment 0 is the placeholder saved when an SMS cannot be sent.
Seg == UNION {{<<m, i>> : i \in 0 .. Segs[m]} : m \in Sms}
\* Variation: the loop over the segments runs once too often.
SegsOfOneMore(m) == {<<m, i>> : i \in 1 .. Segs[m] + 1}

SegsOf(m) == {<<m, i>> : i \in 1 .. Segs[m]}
SmsOf(s) == s[1]
Of(S, m) == {s \in S : SmsOf(s) = m}

\* A message of the direct thread's queue: its kind and, for UPDATE, the slider.
Msg(kind, n) == [kind |-> kind, slider |-> n]
ThreadMsg == {Msg(k, 0) : k \in {"HEART", "RESET", "DEL"}}
             \cup {Msg("UPDATE", n) : n \in Sliders}
LoginMsg ==
    [type : {"LOGIN"}, node : Links, new : {0, 1, 2}, iWnd : Int,
     iMaxWnd : Sliders, bDelAll : BOOLEAN]
ResetMsg == [type : {"RESETWND"}, iWnd : Sliders]
Status == {"SUCCESS", "FAIL", "TIMEOUT", "SOCKET_ERR", "NO_CHANNEL",
           "INTERNAL_ERROR"}
Report == [seg : Seg, total : Nat, status : Status]

-----------------------------------------------------------------------------
(* IChannel: the window and the notifications to the pool.                 *)

\* Variation: no message when the link goes back to "not yet".
LoginPostFailOnly(l, new, w, max, bDelAll) ==
    IF loginState[l] = new \/ new = 0 THEN poolQ
    ELSE Append(poolQ,
           [type |-> "LOGIN", node |-> l, new |-> new,
            iWnd |-> IF new = 1 THEN w
                     ELSE IF loginState[l] = 1 THEN -w ELSE 0,
            iMaxWnd |-> max, bDelAll |-> bDelAll])

\* updateLoginState(old, new): posts a message when the state changes, with the
\* delta the pool has to add to its window.  w and max are the link's window
\* and slider at the time of the call.
LoginPost(l, new, w, max, bDelAll) ==
    IF loginState[l] = new THEN poolQ
    ELSE Append(poolQ,
           [type |-> "LOGIN", node |-> l, new |-> new,
            iWnd |-> IF new = 1 THEN w
                     ELSE IF loginState[l] = 1 THEN -w ELSE 0,
            iMaxWnd |-> max, bDelAll |-> bDelAll])

\* updateLoginState to a state that is not success, with the local window.
LoginLost(l, new, w, max, bDelAll) ==
    /\ poolQ' = LoginPost(l, new, w, max, bDelAll)
    /\ loginState' = [loginState EXCEPT ![l] = new]
    /\ wnd' = [wnd EXCEPT ![l] = IF loginState[l] = new THEN w ELSE 0]

\* Variation: an SMS costs one, however many segments it has.
FlowSendRequstPerSms(l, n) ==
    /\ wnd' = [wnd EXCEPT ![l] = @ - 1]
    /\ rspAge' = IF wnd[l] - 1 <= 0 THEN [rspAge EXCEPT ![l] = 0] ELSE rspAge

\* FlowSendRequst, n times.
FlowSendRequst(l, n) ==
    /\ wnd' = [wnd EXCEPT ![l] = @ - n]
    /\ rspAge' = IF wnd[l] - n <= 0 THEN [rspAge EXCEPT ![l] = 0] ELSE rspAge

\* Variation: the slider is not looked at.
FlowSendResponseUncapped(w, max) == w + 1

\* The window after FlowSendResponse: never above the slider.
FlowSendResponse(w, max) == IF w + 1 > max THEN max ELSE w + 1

\* channelStatusReport: the report goes to the pool, the session goes away.
channelStatusReport(S, st, total) ==
    /\ statusQ' = statusQ \cup {[seg |-> s, total |-> total[SmsOf(s)],
                                 status |-> st] : s \in S}
    /\ reported' = [m \in Sms |-> reported[m] + Cardinality(Of(S, m))]

\* GetChannelFlowCtr.
FlowNormal(l) ==
    /\ chan[l] = "live"
    /\ m_iState[l] = "DATATRAN"
    /\ wnd[l] > 0

-----------------------------------------------------------------------------
InitLink ==
    /\ chan = [l \in Links |-> "live"]
    /\ m_iState = [l \in Links |-> "INIT"]
    /\ m_bHasConn = [l \in Links |-> FALSE]
    /\ m_bHasReconnTask = [l \in Links |-> FALSE]
    /\ m_uHeartbeatTick = [l \in Links |-> 0]
    /\ loginState = [l \in Links |-> 0]
    /\ wnd = [l \in Links |-> 0]
    /\ rspAge = [l \in Links |-> 0]
    /\ slider = [l \in Links |-> FirstSlider]
    /\ packetDB = [l \in Links |-> {}]
    /\ age = [s \in Seg |-> 0]
    /\ sock = [l \in Links |-> "none"]
    /\ wire = [l \in Links |-> {}]
    /\ cq = [l \in Links |-> <<>>]
    /\ dq = [l \in Links |-> <<>>]
    /\ heart = [l \in Links |-> TRUE]
    /\ poolQ = <<>>
    /\ statusQ = {}
    /\ faults = 0
    /\ written = [m \in Sms |-> 0]
    /\ reported = [m \in Sms |-> 0]
    /\ dropped = [m \in Sms |-> 0]
    /\ expired = [l \in Links |-> 0]
    /\ reset = [l \in Links |-> FALSE]

-----------------------------------------------------------------------------
(* What the gateway sends (OnEvent).  onData looks at the bytes only in    *)
(* states INIT and DATATRAN.                                               *)
Listening(l) == m_iState[l] \in {"INIT", "DATATRAN"}

\* onConnResp, login accepted.  Allowed to race with nothing: the answer is
\* read from the socket that conn() opened last.
OnConnRespOk(l) ==
    /\ sock[l] = "connecting" /\ Listening(l)
    /\ sock' = [sock EXCEPT ![l] = "open"]
    /\ m_iState' = [m_iState EXCEPT ![l] = "DATATRAN"]
    /\ m_bHasConn' = [m_bHasConn EXCEPT ![l] = TRUE]
    /\ m_uHeartbeatTick' = [m_uHeartbeatTick EXCEPT ![l] = 0]
    /\ wnd' = [wnd EXCEPT ![l] = slider[l]]             \* InitFlowCtr
    /\ rspAge' = [rspAge EXCEPT ![l] = 0]
    /\ poolQ' = LoginPost(l, 1, slider[l], slider[l], FALSE)
    /\ loginState' = [loginState EXCEPT ![l] = 1]
    /\ expired' = [expired EXCEPT ![l] = 0]
    /\ reset' = [reset EXCEPT ![l] = FALSE]
    /\ UNCHANGED <<chan, m_bHasReconnTask, wire, slider, sess_vars, cq, dq,
                   heart, faults>>

\* onConnResp, login refused.
OnConnRespFail(l) ==
    /\ sock[l] = "connecting" /\ Listening(l)
    /\ faults < MaxFaults /\ faults' = faults + 1
    /\ sock' = [sock EXCEPT ![l] = "open"]
    /\ m_iState' = [m_iState EXCEPT ![l] = "UNLOGIN"]
    /\ m_uHeartbeatTick' = [m_uHeartbeatTick EXCEPT ![l] = 0]
    /\ LoginLost(l, 2, wnd[l], slider[l], FALSE)
    /\ UNCHANGED <<chan, m_bHasConn, m_bHasReconnTask, wire, rspAge, slider,
                   expired, reset, sess_vars, cq, dq, heart>>

\* onSubmitResp.  An answer whose session has timed out is ignored.
OnSubmitResp(l, s, st) ==
    /\ sock[l] = "open" /\ m_iState[l] = "DATATRAN"
    /\ s \in wire[l]
    /\ wire' = [wire EXCEPT ![l] = @ \ {s}]
    /\ m_uHeartbeatTick' = [m_uHeartbeatTick EXCEPT ![l] = 0]
    /\ \/ /\ s \in packetDB[l]
          /\ packetDB' = [packetDB EXCEPT ![l] = @ \ {s}]
          /\ channelStatusReport({s}, st, Total)
          /\ wnd' = [wnd EXCEPT ![l] = FlowSendResponse(@, slider[l])]
          /\ rspAge' = [rspAge EXCEPT ![l] = 0]
       \/ /\ s \notin packetDB[l]
          /\ UNCHANGED <<packetDB, statusQ, reported, wnd, rspAge>>
    /\ UNCHANGED <<chan, m_iState, m_bHasConn, m_bHasReconnTask, loginState,
                   sock, slider, expired, reset, age, written, dropped, cq, dq,
                   heart, poolQ, faults>>

\* Any other packet, a heartbeat for one: it only shows the peer is there.
OnHeartbeat(l) ==
    /\ sock[l] = "open" /\ m_uHeartbeatTick[l] > 0
    /\ m_uHeartbeatTick' = [m_uHeartbeatTick EXCEPT ![l] = 0]
    /\ UNCHANGED <<chan, m_iState, m_bHasConn, m_bHasReconnTask, loginState,
                   sock, wire, flow_vars, sess_vars, cq, dq, heart, poolQ,
                   faults>>

\* onTransferData: a length or a command that is not CMPP asks the thread to
\* reconnect; the bytes stay in the buffer.
OnBadPacket(l) ==
    /\ sock[l] \in {"connecting", "open"} /\ Listening(l)
    /\ faults < MaxFaults /\ faults' = faults + 1
    /\ m_uHeartbeatTick' = [m_uHeartbeatTick EXCEPT ![l] = 0]
    /\ dq' = [dq EXCEPT ![l] = Append(@, Msg("RESET", 0))]
    /\ UNCHANGED <<chan, m_iState, m_bHasConn, m_bHasReconnTask, loginState,
                   sock, wire, flow_vars, sess_vars, cq, heart, poolQ>>

\* OnEvent Closed or Error.  m_bHasConn stays set: the link is opened again
\* when the heartbeat runs out, not at once.
OnClosed(l, st) ==
    /\ sock[l] \in {"connecting", "open"}
    /\ faults < MaxFaults /\ faults' = faults + 1
    /\ sock' = [sock EXCEPT ![l] = "dead"]
    /\ wire' = [wire EXCEPT ![l] = {}]
    /\ m_iState' = [m_iState EXCEPT ![l] = st]
    /\ LoginLost(l, 2, wnd[l], slider[l], FALSE)
    /\ UNCHANGED <<chan, m_bHasConn, m_bHasReconnTask, m_uHeartbeatTick,
                   rspAge, slider, expired, reset, sess_vars, cq, dq, heart>>

-----------------------------------------------------------------------------
(* CDirectSendThread: timer, channel queue and control messages.           *)

\* The 3 s wheel timer posts HeartTimeout.
HeartFires(l) ==
    /\ heart[l]
    /\ Len(poolQ) < MaxQueue
    /\ heart' = [heart EXCEPT ![l] = FALSE]
    /\ dq' = [dq EXCEPT ![l] = Append(@, Msg("HEART", 0))]
    /\ UNCHANGED <<chan, conn_vars, flow_vars, sess_vars, cq, poolQ, faults>>

\* Message k is at the head of the thread's queue.
Takes(l, k) ==
    /\ dq[l] # <<>> /\ Head(dq[l]) = k
    /\ dq' = [dq EXCEPT ![l] = Tail(@)]

\* Variation: the sessions of earlier connections are passed over.
ExpireOnWire(l) ==
    LET late == {s \in packetDB[l] \cap wire[l] : age[s] + 1 > SessionTicks}
    IN  /\ packetDB' = [packetDB EXCEPT ![l] = @ \ late]
        /\ age' = [s \in Seg |-> IF s \in packetDB[l] \ late
                                 THEN IF age[s] < SessionTicks
                                      THEN age[s] + 1 ELSE age[s]
                                 ELSE IF s \in late THEN 0 ELSE age[s]]
        /\ channelStatusReport(late, "TIMEOUT", Total)
        /\ expired' = [expired EXCEPT ![l] =
                          @ + Cardinality(late \cap wire[l])]
        /\ UNCHANGED <<written, dropped>>

\* Variation: the sessions reported as timed out are kept.
ExpireKept(l) ==
    LET late == {s \in packetDB[l] : age[s] + 1 > SessionTicks}
    IN  /\ age' = [s \in Seg |-> IF s \in packetDB[l] \ late THEN age[s] + 1
                                 ELSE IF s \in late THEN 0 ELSE age[s]]
        /\ channelStatusReport(late, "TIMEOUT", Total)
        /\ UNCHANGED <<packetDB, expired, written, dropped>>

\* OnTimer, last part: sessions older than the limit are reported as timed
\* out.  Their window token is not given back.
Expire(l) ==
    LET late == {s \in packetDB[l] : age[s] + 1 > SessionTicks}
    IN  /\ packetDB' = [packetDB EXCEPT ![l] = @ \ late]
        /\ age' = [s \in Seg |-> IF s \in packetDB[l] \ late THEN age[s] + 1
                                 ELSE IF s \in late THEN 0 ELSE age[s]]
        /\ channelStatusReport(late, "TIMEOUT", Total)
        /\ expired' = [expired EXCEPT ![l] =
                          @ + Cardinality(late \cap wire[l])]
        /\ UNCHANGED <<written, dropped>>

\* OnTimer without a connection: conn().
TimerConn(l) ==
    /\ ~m_bHasConn[l]
    /\ sock' = [sock EXCEPT ![l] = "connecting"]
    /\ wire' = [wire EXCEPT ![l] = {}]
    /\ m_iState' = [m_iState EXCEPT ![l] = "INIT"]
    /\ m_uHeartbeatTick' = [m_uHeartbeatTick EXCEPT ![l] = 0]
    /\ m_bHasReconnTask' = [m_bHasReconnTask EXCEPT ![l] = FALSE]
    /\ LoginLost(l, 0, wnd[l], slider[l], FALSE)
    /\ UNCHANGED <<m_bHasConn, rspAge, slider, reset>>

\* Variation: m_bHasConn is left set.
reConnKeepsConn(l) ==
    IF m_bHasReconnTask[l]
    THEN UNCHANGED conn_vars
    ELSE /\ m_bHasReconnTask' = [m_bHasReconnTask EXCEPT ![l] = TRUE]
         /\ m_iState' = [m_iState EXCEPT ![l] = "INIT"]
         /\ sock' = [sock EXCEPT ![l] = "none"]
         /\ wire' = [wire EXCEPT ![l] = {}]
         /\ m_uHeartbeatTick' = [m_uHeartbeatTick EXCEPT ![l] = 0]
         /\ UNCHANGED <<loginState, m_bHasConn>>

\* reConn(): the socket goes away; OnTimer opens the next one.  The login
\* state and the window are left as they are until then.
reConn(l) ==
    IF m_bHasReconnTask[l]
    THEN UNCHANGED conn_vars
    ELSE /\ m_bHasReconnTask' = [m_bHasReconnTask EXCEPT ![l] = TRUE]
         /\ m_iState' = [m_iState EXCEPT ![l] = "INIT"]
         /\ sock' = [sock EXCEPT ![l] = "none"]
         /\ wire' = [wire EXCEPT ![l] = {}]
         /\ m_bHasConn' = [m_bHasConn EXCEPT ![l] = FALSE]
         /\ m_uHeartbeatTick' = [m_uHeartbeatTick EXCEPT ![l] = 0]
         /\ UNCHANGED loginState

\* OnTimer: nothing heard for HeartLimit runs.
TimerHeartLost(l) ==
    /\ m_bHasConn[l]
    /\ m_uHeartbeatTick[l] + 1 > HeartLimit
    /\ reConn(l)
    /\ UNCHANGED <<wnd, rspAge, slider, reset, poolQ>>

\* Variation: a window of exactly 0 does not count as used up.
MustResetBelowZero(l) ==
    loginState[l] = 1 /\ wnd[l] < 0 /\ rspAge[l] + 1 > ResetTicks

\* FlowSliderResetCheck: an empty window without an answer for ResetTicks is
\* filled again, and the pool is told to add the same amount.
MustReset(l) ==
    loginState[l] = 1 /\ wnd[l] <= 0 /\ rspAge[l] + 1 > ResetTicks

\* OnTimer: the link is up, or is waiting for the heartbeat to run out.
TimerAlive(l) ==
    /\ m_bHasConn[l]
    /\ m_uHeartbeatTick[l] + 1 <= HeartLimit
    /\ m_uHeartbeatTick' = [m_uHeartbeatTick EXCEPT ![l] = @ + 1]
    /\ IF MustReset(l)
       THEN /\ wnd' = [wnd EXCEPT ![l] = slider[l]]
            /\ rspAge' = [rspAge EXCEPT ![l] = 0]
            /\ poolQ' = Append(poolQ, [type |-> "RESETWND",
                                       iWnd |-> slider[l]])
            /\ reset' = [reset EXCEPT ![l] = TRUE]
       ELSE /\ rspAge' = IF /\ loginState[l] = 1 /\ wnd[l] <= 0
                            /\ rspAge[l] <= ResetTicks
                         THEN [rspAge EXCEPT ![l] = @ + 1] ELSE rspAge
            /\ UNCHANGED <<wnd, poolQ, reset>>
    /\ UNCHANGED <<m_iState, m_bHasConn, m_bHasReconnTask, loginState, sock,
                   wire, slider>>

\* HandleHeartTimeOut: OnTimer, then the timer is armed again; a link that is
\* not in m_mapChannelInfo any more is left alone.
HandleHeartTimeOut(l) ==
    /\ Takes(l, Msg("HEART", 0))
    /\ \/ /\ chan[l] = "live"
          /\ TimerConn(l) \/ TimerHeartLost(l) \/ TimerAlive(l)
          /\ Expire(l)
          /\ heart' = [heart EXCEPT ![l] = TRUE]
       \/ /\ chan[l] # "live"
          /\ UNCHANGED <<conn_vars, flow_vars, sess_vars, heart, poolQ>>
    /\ UNCHANGED <<chan, cq, faults>>

\* MSGTYPE_CHANNEL_CONN_STATUS with CHAN_RESET.
HandleReset(l) ==
    /\ Takes(l, Msg("RESET", 0))
    /\ IF chan[l] = "live" THEN reConn(l) ELSE UNCHANGED conn_vars
    /\ UNCHANGED <<chan, flow_vars, sess_vars, cq, heart, poolQ, faults>>

\* HandleDispatchToDirectSendReq on a link that is logged in: one session and
\* one submit per segment, whatever the window says.
SendSms(l, m) ==
    /\ m_iState[l] = "DATATRAN" /\ sock[l] # "none"
    /\ packetDB' = [packetDB EXCEPT ![l] = @ \cup SegsOf(m)]
    /\ wire' = [wire EXCEPT ![l] = @ \cup SegsOf(m)]
    /\ written' = [written EXCEPT ![m] = @ + Segs[m]]
    /\ FlowSendRequst(l, Segs[m])
    /\ UNCHANGED <<age, statusQ, reported>>

\* sendSms on a link that is not: one placeholder session, reported at once.
SendSmsUnconnected(l, m) ==
    /\ ~(m_iState[l] = "DATATRAN" /\ sock[l] # "none")
    /\ written' = [written EXCEPT ![m] = @ + 1]
    /\ channelStatusReport({<<m, 0>>}, "SOCKET_ERR", [n \in Sms |-> 1])
    /\ wnd' = [wnd EXCEPT ![l] = FlowSendResponse(@ - 1, slider[l])]
    /\ rspAge' = [rspAge EXCEPT ![l] = 0]
    /\ UNCHANGED <<packetDB, wire, age>>

\* MainLoop takes an SMS from the channel queue; HandleChannelDel has emptied
\* and removed the queue of a link that is not live.
HandleDispatch(l) ==
    /\ chan[l] = "live"
    /\ cq[l] # <<>>
    /\ cq' = [cq EXCEPT ![l] = Tail(@)]
    /\ SendSms(l, Head(cq[l])) \/ SendSmsUnconnected(l, Head(cq[l]))
    /\ UNCHANGED <<chan, m_iState, m_bHasConn, m_bHasReconnTask,
                   m_uHeartbeatTick, loginState, sock, slider, expired, reset,
                   dropped, dq, heart, poolQ, faults>>

\* HandleChannelSlideWindowUpdate / UpdateChannelInfo.
HandleChannelSlideWindowUpdate(l, n) ==
    /\ Takes(l, Msg("UPDATE", n))
    /\ IF chan[l] = "live" /\ slider[l] # n
       THEN /\ slider' = [slider EXCEPT ![l] = n]
            /\ wnd' = [wnd EXCEPT ![l] = n]
            /\ reset' = [reset EXCEPT ![l] = TRUE]
       ELSE UNCHANGED <<slider, wnd, reset>>
    /\ UNCHANGED <<chan, conn_vars, rspAge, expired, sess_vars, cq, heart,
                   poolQ, faults>>

\* HandleChannelDel: the link leaves m_mapChannelInfo, every queued SMS is
\* reported with NO_CHANNEL, the queue is removed, and the socket stays open
\* until the close timer runs out.
HandleChannelDel(l) ==
    /\ Takes(l, Msg("DEL", 0))
    /\ IF chan[l] = "live"
       THEN LET M == {cq[l][i] : i \in 1 .. Len(cq[l])}
            IN  /\ chan' = [chan EXCEPT ![l] = "closing"]
                /\ cq' = [cq EXCEPT ![l] = <<>>]
                /\ channelStatusReport({<<m, 0>> : m \in M}, "NO_CHANNEL",
                                       [n \in Sms |-> 1])
                /\ written' = [m \in Sms |->
                                  IF m \in M THEN written[m] + 1
                                  ELSE written[m]]
       ELSE UNCHANGED <<chan, cq, statusQ, reported, written>>
    /\ UNCHANGED <<conn_vars, flow_vars, packetDB, age, dropped, heart, poolQ,
                   faults>>

\* HandleChannelCloseTimeOut and destroy(), with the slider n the deleted
\* channel had.  The loop over _packetDB erases the element its iterator stands
\* on and then advances it: it reports the first session and whichever others
\* the stale iterator still leads to.
HandleChannelCloseTimeOut(l, n) ==
    /\ chan[l] = "closing"
    /\ chan' = [chan EXCEPT ![l] = "gone"]
    /\ slider' = [slider EXCEPT ![l] = n]
    /\ LoginLost(l, 2, IF slider[l] = n THEN wnd[l] ELSE n, n, TRUE)
    /\ m_iState' = [m_iState EXCEPT ![l] = "CLOSE"]
    /\ sock' = [sock EXCEPT ![l] = "none"]
    /\ wire' = [wire EXCEPT ![l] = {}]
    /\ heart' = [heart EXCEPT ![l] = FALSE]
    /\ \E S \in SUBSET packetDB[l] :
          /\ packetDB[l] # {} => S # {}
          /\ channelStatusReport(S, "INTERNAL_ERROR", Total)
          /\ dropped' = [m \in Sms |->
                dropped[m] + Cardinality(Of(packetDB[l] \ S, m))]
    /\ packetDB' = [packetDB EXCEPT ![l] = {}]
    /\ age' = [s \in Seg |-> IF s \in packetDB[l] THEN 0 ELSE age[s]]
    /\ UNCHANGED <<m_bHasConn, m_bHasReconnTask, m_uHeartbeatTick, rspAge,
                   expired, reset, written, cq, dq, faults>>

-----------------------------------------------------------------------------
LinkGateway(l) ==
    \/ OnConnRespOk(l)
    \/ OnConnRespFail(l)
    \/ \E s \in wire[l], st \in {"SUCCESS", "FAIL"} : OnSubmitResp(l, s, st)
    \/ OnHeartbeat(l)
    \/ OnBadPacket(l)
    \/ \E st \in {"CLOSE", "EXCEPT"} : OnClosed(l, st)

\* One message of the thread's queue.
LinkMessage(l) ==
    \/ HandleHeartTimeOut(l)
    \/ HandleReset(l)
    \/ \E n \in Sliders : HandleChannelSlideWindowUpdate(l, n)
    \/ HandleChannelDel(l)

LinkStep(l) ==
    \/ LinkGateway(l)
    \/ LinkMessage(l)
    \/ HandleDispatch(l)
    \/ HeartFires(l)
    \/ \E n \in Sliders : HandleChannelCloseTimeOut(l, n)

-----------------------------------------------------------------------------
(* The pool, as far as the links see it.                                   *)

\* CDirectSendThread::PostChannelMsg; the SMS is dropped when HandleChannelDel
\* has removed the queue.
PostChannelMsg(l, m) ==
    cq' = IF chan[l] = "live" THEN [cq EXCEPT ![l] = Append(@, m)] ELSE cq

\* PostMsg of a control message to the direct thread.
PostControl(l, msg) == dq' = [dq EXCEPT ![l] = Append(@, msg)]

InQueue(l, m) == \E i \in 1 .. Len(cq[l]) : cq[l][i] = m

\* Each SMS is given to one link, once.
EnvDispatch(l, m) ==
    /\ chan[l] = "live"
    /\ written[m] = 0 /\ \A k \in Links : ~InQueue(k, m)
    /\ PostChannelMsg(l, m)
    /\ UNCHANGED <<chan, conn_vars, flow_vars, sess_vars, dq, heart, poolQ,
                   faults>>

\* The channel's configuration changes, or the channel is deleted.
EnvControl(l, msg) ==
    /\ chan[l] = "live" /\ Len(dq[l]) < MaxQueue
    /\ PostControl(l, msg)
    /\ UNCHANGED <<chan, conn_vars, flow_vars, sess_vars, cq, heart, poolQ,
                   faults>>

EnvTakePool ==
    /\ poolQ # <<>>
    /\ poolQ' = Tail(poolQ)
    /\ UNCHANGED <<chan, conn_vars, flow_vars, sess_vars, cq, dq, heart, faults>>

EnvTakeStatus(r) ==
    /\ r \in statusQ
    /\ statusQ' = statusQ \ {r}
    /\ UNCHANGED <<chan, conn_vars, flow_vars, packetDB, age, written, reported,
                   dropped, cq, dq, heart, poolQ, faults>>

LinkNext ==
    \/ \E l \in Links :
          \/ LinkStep(l)
          \/ \E m \in Sms : EnvDispatch(l, m)
          \/ \E msg \in ThreadMsg \ {Msg("HEART", 0), Msg("RESET", 0)} :
                EnvControl(l, msg)
    \/ EnvTakePool
    \/ \E r \in statusQ : EnvTakeStatus(r)

LinkSpec == InitLink /\ [][LinkNext]_link_vars

\* Each turn of CDirectSendThread::MainLoop serves the timers, one SMS of the
\* channel queue and one message of the thread's queue; the pool thread keeps
\* taking messages.  Nothing is assumed of the gateway.
LinkFairness ==
    /\ \A l \in Links :
          /\ WF_link_vars(LinkMessage(l))
          /\ WF_link_vars(HandleDispatch(l))
          /\ WF_link_vars(HeartFires(l))
    /\ WF_link_vars(EnvTakePool)

LinkFairSpec == LinkSpec /\ LinkFairness

-----------------------------------------------------------------------------
(* Every variable has its type: the connection, its window, its sessions   *)
(* and the queues.                                                         *)
ConnTypeOK ==
    /\ chan \in [Links -> {"live", "closing", "gone"}]
    /\ m_iState \in [Links -> {"INIT", "DATATRAN", "UNLOGIN", "CLOSE", "EXCEPT"}]
    /\ m_bHasConn \in [Links -> BOOLEAN]
    /\ m_bHasReconnTask \in [Links -> BOOLEAN]
    /\ m_uHeartbeatTick \in [Links -> Nat]
    /\ loginState \in [Links -> {0, 1, 2}]
    /\ sock \in [Links -> {"none", "connecting", "open", "dead"}]
    /\ wire \in [Links -> SUBSET Seg]
FlowTypeOK ==
    /\ wnd \in [Links -> Int]
    /\ rspAge \in [Links -> Nat]
    /\ slider \in [Links -> Sliders]
    /\ expired \in [Links -> Nat]
    /\ reset \in [Links -> BOOLEAN]
SessTypeOK ==
    /\ packetDB \in [Links -> SUBSET Seg]
    /\ age \in [Seg -> Nat]
    /\ statusQ \subseteq Report
    /\ written \in [Sms -> Nat]
    /\ reported \in [Sms -> Nat]
    /\ dropped \in [Sms -> Nat]
QueueTypeOK ==
    /\ cq \in [Links -> Seq(Sms)]
    /\ dq \in [Links -> Seq(ThreadMsg)]
    /\ heart \in [Links -> BOOLEAN]
    /\ faults \in Nat
NotifyTypeOK == poolQ \in Seq(LoginMsg \cup ResetMsg)
LinkTypeOK ==
    ConnTypeOK /\ FlowTypeOK /\ SessTypeOK /\ QueueTypeOK /\ NotifyTypeOK

(* The flags a link keeps about its connection agree: it carries data only *)
(* on an open socket after a login it has told the pool about; a pending   *)
(* reconnect means there is no socket and no connection, so that the early *)
(* return of reConn() never swallows a reconnect that is needed; and the   *)
(* gateway can only answer segments of an open, listening connection.      *)
LinkStateConsistent ==
    \A l \in Links :
        /\ m_iState[l] = "DATATRAN" =>
              loginState[l] = 1 /\ m_bHasConn[l] /\ sock[l] = "open"
        /\ m_bHasReconnTask[l] =>
              /\ ~m_bHasConn[l] /\ sock[l] = "none"
              /\ m_iState[l] = IF chan[l] = "gone" THEN "CLOSE" ELSE "INIT"
        /\ loginState[l] = 1 => m_iState[l] \in {"DATATRAN", "INIT"}
        /\ wire[l] # {} => m_iState[l] = "DATATRAN"
        /\ chan[l] = "gone" => packetDB[l] = {} /\ loginState[l] = 2

(* The window never exceeds the channel's slider, whatever late answers,   *)
(* resets and reconnects do.                                               *)
WindowCapped == \A l \in Links : wnd[l] <= slider[l]

(* The window accounts for every segment: on a logged-in link whose window *)
(* was not set by hand since the login, the free part, the segments the    *)
(* gateway still owes an answer, and the sessions given up after a timeout *)
(* add up to the slider.  Sessions left over from earlier connections take *)
(* no part: their end must not open the window of this one.                *)
WindowAccounting ==
    \A l \in Links :
        m_iState[l] = "DATATRAN" /\ ~reset[l] =>
            wnd[l] + Cardinality(packetDB[l] \cap wire[l]) + expired[l]
                = slider[l]

(* Every session is reported exactly once: what was saved for an SMS is    *)
(* still open, was reported, or was skipped by the loop of destroy().      *)
SessionsConserved ==
    \A m \in Sms :
        written[m] = reported[m] + dropped[m]
                     + Cardinality({x \in Links \X Seg :
                                        x[2] \in Of(packetDB[x[1]], m)})

(* A link that has used up its window gets it back or loses its            *)
(* connection, even when the gateway never answers again.                  *)
WindowRecovers ==
    \A l \in Links :
        chan[l] = "live" /\ m_iState[l] = "DATATRAN" /\ wnd[l] <= 0 ~>
            wnd[l] > 0 \/ m_iState[l] # "DATATRAN" \/ chan[l] # "live"

(* Every SMS handed to a link is reported to the pool for each session     *)
(* saved for it, whatever the gateway does, unless the channel is deleted. *)
SmsAnswered ==
    \A m \in Sms, l \in Links :
        InQueue(l, m) ~> \/ written[m] > 0 /\ reported[m] = written[m]
                         \/ chan[l] # "live"
=============================================================================
