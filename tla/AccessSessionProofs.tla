------------------------ MODULE AccessSessionProofs ------------------------
(***************************************************************************)
(* Proofs about AccessSession: types, the safety invariants and the        *)
(* refinement of SmsCustody, for any number of SMS and channels, whatever  *)
(* the channel groups and the limits.                                      *)
(*                                                                         *)
(* The inductive invariant is TypeInv and SmsInv of every SMS.  SmsInv     *)
(* says where an SMS is, which answers its session can hold, who owns its  *)
(* over-rate session, what it was charged and what the client has heard;   *)
(* it speaks of one SMS only, so that a step of one SMS need be looked at  *)
(* for that SMS (Same, SameKeeps).  The handlers of the session thread are *)
(* first reduced to two outcomes, GoesOn and Ends (Handled), which the     *)
(* later proofs share.  The counters are sums over all SMS: each side is   *)
(* written with cardinalities that change by what one SMS adds or takes    *)
(* (CountDiffers).                                                         *)
(***************************************************************************)
EXTENDS AccessSession, FiniteSetTheorems, TLAPS

(* Where m is, the parts of Carriers one by one.                           *)
InIo(m) == Of(m, ioMq) # {}
InReback(m) == Of(m, rebackMq) # {}
InChannel(m) == Of(m, channelMq) # {}
Owned(m) == session[m].open /\ session[m].ans # "HELD"
Audited(m) == m \in auditReq /\ ~Awaits(m)
Nowhere(m) ==
    ~InIo(m) /\ ~InReback(m) /\ ~InChannel(m) /\ ~Owned(m) /\ m \notin auditHeld /\ ~Audited(m)

AtMostOne(S) == \A p, q \in S : p = q

(* m is in at most one place, and there once.                              *)
OnePlace(m) ==
    /\ AtMostOne(Of(m, ioMq)) /\ AtMostOne(Of(m, rebackMq)) /\ AtMostOne(Of(m, channelMq))
    /\ InIo(m) => ~InReback(m) /\ ~InChannel(m) /\ ~Owned(m) /\ m \notin auditHeld /\ ~Audited(m)
    /\ InReback(m) => ~InChannel(m) /\ ~Owned(m) /\ m \notin auditHeld /\ ~Audited(m)
    /\ InChannel(m) => ~Owned(m) /\ m \notin auditHeld /\ ~Audited(m)
    /\ Owned(m) => m \notin auditHeld /\ ~Audited(m)
    /\ m \in auditHeld => ~Audited(m)

(* The answers a stage can hold.                                           *)
AnswersOf(stage) ==
    CASE stage = "AUDIT" -> {"NONE", "PASS", "FAIL", "HELD"}
      [] stage = "OVERRATE" -> {"NONE", "OK", "GLOBAL", "CONTENT", "CHANNEL"}
      [] stage = "CHARGE" -> {"NONE", "OK", "FAIL"}
      [] OTHER -> {"NONE"}

(* What a session is in its stage: what came back skips template, audit    *)
(* and charge; a channel is known from the route on; the over-rate flags   *)
(* are up only while the charge is outstanding.                            *)
StageOK(m, s, stage) ==
    /\ s.open /\ stage \in Stages /\ s.push = "REPORT"
    /\ s.reback => s.count >= 2 /\ s.origin \in Channels /\ stage \notin {"TEMPLATE", "AUDIT", "CHARGE"}
    /\ stage \in {"BLACKLIST", "TEMPLATE", "AUDIT", "ROUTE"} => s.chan = NoChannel
    /\ stage = "OVERRATE" => s.chan \in Channels
    /\ s.overState => stage = "CHARGE" /\ ~s.plan /\ over[m].at = "OK" /\ over[m].chan = s.chan
    /\ s.plan => stage = "CHARGE" /\ ~s.initial /\ ~s.overState
    /\ stage = "CHARGE" => s.overState \/ s.plan
    /\ s.reback => (account[m].prepaid => log[m].charged = 1)
    /\ ~s.reback => ~log[m].unit /\ (stage # "CHARGE" => log[m].charged = 0)

SessionOK(m) ==
    session[m].open =>
       /\ StageOK(m, session[m], session[m].stage)
       /\ session[m].ans \in AnswersOf(session[m].stage)
       /\ m \in auditReq /\ session[m].stage = "AUDIT" => session[m].ans \in {"NONE", "HELD"}

OverOK(m) ==
    /\ over[m].at # "NONE" => over[m].chan \in Channels
    /\ over[m].at \in {"GLOBAL", "CONTENT"} => over[m].global
    /\ over[m].at # "NONE" =>
          \/ InState(m, "OVERRATE") /\ session[m].ans \in {"NONE", "OK"}
          \/ over[m].at = "OK" /\ InState(m, "CHARGE") /\ session[m].overState
          \/ log[m].leaked
    /\ InState(m, "OVERRATE") =>
          /\ session[m].ans = "NONE" => over[m].at \notin {"NONE", "OK"}
          /\ session[m].ans = "OK" => over[m].at = "OK"
          /\ session[m].ans \in {"NONE", "OK"} => over[m].chan = session[m].chan
          /\ session[m].reback => ~over[m].global /\ session[m].ans \notin {"GLOBAL", "CONTENT"}
    /\ over[m].global /\ over[m].at # "NONE" => ~log[m].unit
    /\ log[m].leaked => Nowhere(m)

ChargeOK(m) ==
    /\ log[m].charged <= 1
    /\ m \in chargeReq =>
          /\ log[m].charged = 0
          /\ \/ InState(m, "CHARGE") /\ session[m].ans = "NONE"
             \/ Nowhere(m) /\ ~session[m].open
    /\ InState(m, "CHARGE") =>
          /\ session[m].ans = "NONE" => m \in chargeReq
          /\ session[m].ans = "OK" => log[m].charged = 1
    /\ InIo(m) \/ m \in auditHeld \/ Audited(m) => log[m].charged = 0 /\ ~log[m].unit
    /\ InReback(m) \/ InChannel(m) \/ log[m].delivered # NoChannel =>
          (account[m].prepaid => log[m].charged = 1)

VerdictOK(m) ==
    /\ log[m].delivered # NoChannel \/ log[m].unsent # NoChannel => Nowhere(m)
    /\ InReback(m) \/ InChannel(m) \/ log[m].delivered # NoChannel => ~session[m].open
    /\ ~Nowhere(m) /\ ~log[m].late => log[m].rep = 0
    /\ ~log[m].late => log[m].rep + (IF log[m].delivered # NoChannel THEN 1 ELSE 0) <= 1
    /\ Nowhere(m) =>
          log[m].delivered # NoChannel \/ log[m].rep > 0 \/ log[m].lost \/ log[m].unheard
    /\ \A q \in Of(m, rebackMq) : q.again => q.count >= 2

SmsInv(m) == OnePlace(m) /\ SessionOK(m) /\ OverOK(m) /\ ChargeOK(m) /\ VerdictOK(m)
AllSmsInv == \A m \in Sms : SmsInv(m)

TypeInv == MqTypeOK /\ SessionTypeOK /\ RateTypeOK(Int) /\ CountTypeOK /\ LogTypeOK

-----------------------------------------------------------------------------
(* What a step leaves alone.                                               *)
LEMMA OfAdd ==
    ASSUME NEW m, NEW n, NEW S, NEW r, r.sms = m
    PROVE  Of(n, S \cup {r}) = IF n = m THEN Of(n, S) \cup {r} ELSE Of(n, S)
BY DEF Of

LEMMA OfRemove ==
    ASSUME NEW m, NEW n, NEW S, NEW r, r.sms = m
    PROVE  Of(n, S \ {r}) = IF n = m THEN Of(n, S) \ {r} ELSE Of(n, S)
BY DEF Of

(* Nothing the invariant of n speaks of changes.                           *)
Same(n) ==
    /\ Of(n, ioMq)' = Of(n, ioMq) /\ Of(n, rebackMq)' = Of(n, rebackMq)
    /\ Of(n, channelMq)' = Of(n, channelMq)
    /\ session'[n] = session[n] /\ over'[n] = over[n] /\ log'[n] = log[n]
    /\ account'[n] = account[n]
    /\ (n \in auditReq)' = (n \in auditReq) /\ (n \in auditHeld)' = (n \in auditHeld)
    /\ (n \in chargeReq)' = (n \in chargeReq)

LEMMA SamePlace ==
    ASSUME NEW n, Same(n)
    PROVE  /\ InIo(n)' = InIo(n) /\ InReback(n)' = InReback(n) /\ InChannel(n)' = InChannel(n)
           /\ Owned(n)' = Owned(n) /\ Audited(n)' = Audited(n) /\ Nowhere(n)' = Nowhere(n)
           /\ \A stage : InState(n, stage)' = InState(n, stage)
BY DEF Same, InIo, InReback, InChannel, Owned, Audited, Awaits, Nowhere, InState

LEMMA SameKeeps ==
    ASSUME NEW n, Same(n), SmsInv(n)
    PROVE  SmsInv(n)'
<1> USE SamePlace DEF Same, SmsInv
<1>1. OnePlace(n)'
  BY DEF OnePlace, AtMostOne
<1>2. SessionOK(n)'
  BY DEF SessionOK, StageOK, AnswersOf
<1>3. OverOK(n)'
  BY DEF OverOK
<1>4. ChargeOK(n)'
  BY DEF ChargeOK
<1>5. VerdictOK(n)'
  BY DEF VerdictOK
<1>6. QED
  BY <1>1, <1>2, <1>3, <1>4, <1>5

-----------------------------------------------------------------------------
(* A handler of the session thread has m in hand: what it leaves of the    *)
(* queues is io and rb, and m is in nothing else.                          *)
InHand(m, io, rb) ==
    /\ io \subseteq ioMq /\ rb \subseteq rebackMq
    /\ Of(m, io) = {} /\ Of(m, rb) = {} /\ Of(m, channelMq) = {}
    /\ \A n \in Sms : n # m => Of(n, io) = Of(n, ioMq) /\ Of(n, rb) = Of(n, rebackMq)
    /\ m \notin auditHeld /\ m \notin auditReq /\ m \notin chargeReq
    /\ ~log[m].leaked /\ log[m].delivered = NoChannel /\ log[m].unsent = NoChannel
    /\ log[m].charged <= 1
    /\ ~log[m].late => log[m].rep = 0
    /\ over[m].global /\ over[m].at # "NONE" => ~log[m].unit

LEMMA InHandOwned ==
    ASSUME NEW m \in Sms, SmsInv(m), Owned(m),
           InState(m, "AUDIT") => session[m].ans # "NONE",
           InState(m, "CHARGE") => session[m].ans # "NONE"
    PROVE  InHand(m, ioMq, rebackMq)
<1> USE DEF SmsInv, Nowhere
<1>1. Of(m, ioMq) = {} /\ Of(m, rebackMq) = {} /\ Of(m, channelMq) = {}
  BY DEF OnePlace, InIo, InReback, InChannel
<1>2. m \notin auditHeld /\ m \notin auditReq
  BY DEF OnePlace, Audited, Awaits, SessionOK, InState, Owned
<1>3. m \notin chargeReq
  BY DEF ChargeOK
<1>4. /\ ~log[m].leaked /\ log[m].delivered = NoChannel /\ log[m].unsent = NoChannel
      /\ ~log[m].late => log[m].rep = 0
  BY DEF OverOK, VerdictOK
<1>5. QED
  BY <1>1, <1>2, <1>3, <1>4 DEF InHand, OverOK, ChargeOK

LEMMA InHandIo ==
    ASSUME NEW m \in Sms, SmsInv(m), NEW q \in ioMq, q.sms = m, ~session[m].open
    PROVE  InHand(m, ioMq \ {q}, rebackMq) /\ over[m].at = "NONE"
<1> USE DEF SmsInv, Nowhere
<1>0. q \in Of(m, ioMq) /\ InIo(m)
  BY DEF Of, InIo
<1>1. Of(m, ioMq \ {q}) = {} /\ Of(m, rebackMq) = {} /\ Of(m, channelMq) = {}
  BY <1>0 DEF OnePlace, AtMostOne, InReback, InChannel, Of
<1>2. m \notin auditHeld /\ m \notin auditReq
  BY <1>0 DEF OnePlace, Audited, Awaits, InState
<1>3. m \notin chargeReq
  BY <1>0 DEF ChargeOK, InState
<1>4. /\ ~log[m].leaked /\ log[m].delivered = NoChannel /\ log[m].unsent = NoChannel
      /\ ~log[m].late => log[m].rep = 0
  BY <1>0 DEF OverOK, VerdictOK
<1>5. \A n \in Sms : n # m => Of(n, ioMq \ {q}) = Of(n, ioMq)
  BY DEF Of
<1>6. QED
  BY <1>1, <1>2, <1>3, <1>4, <1>5 DEF InHand, OverOK, ChargeOK, InState

LEMMA InHandReback ==
    ASSUME NEW m \in Sms, SmsInv(m), NEW q \in rebackMq, q.sms = m, ~session[m].open
    PROVE  InHand(m, ioMq, rebackMq \ {q}) /\ over[m].at = "NONE"
<1> USE DEF SmsInv, Nowhere
<1>0. q \in Of(m, rebackMq) /\ InReback(m)
  BY DEF Of, InReback
<1>1. Of(m, ioMq) = {} /\ Of(m, rebackMq \ {q}) = {} /\ Of(m, channelMq) = {}
  BY <1>0 DEF OnePlace, AtMostOne, InIo, InChannel, Of
<1>2. m \notin auditHeld /\ m \notin auditReq
  BY <1>0 DEF OnePlace, Audited, Awaits, InState
<1>3. m \notin chargeReq
  BY <1>0 DEF ChargeOK, InState
<1>4. /\ ~log[m].leaked /\ log[m].delivered = NoChannel /\ log[m].unsent = NoChannel
      /\ ~log[m].late => log[m].rep = 0
  BY <1>0 DEF OverOK, VerdictOK
<1>5. \A n \in Sms : n # m => Of(n, rebackMq \ {q}) = Of(n, rebackMq)
  BY DEF Of
<1>6. QED
  BY <1>1, <1>2, <1>3, <1>4, <1>5 DEF InHand, OverOK, ChargeOK, InState

(* The session s of m may wait in stage: the hand-over of the handler.     *)
GoesOn(m, s, stage, io, rb) ==
    /\ s \in SessionType /\ InHand(m, io, rb) /\ StageOK(m, s, stage)
    /\ over[m].at # "NONE" => s.overState
    /\ stage = "CHARGE" => log[m].charged = 0
    /\ Wait(m, s, stage, io, rb)

(* A session that goes on keeps m, and moves nothing else.                 *)
LEMMA WaitMoves ==
    ASSUME TypeInv, NEW m \in Sms, NEW s, NEW stage, NEW io, NEW rb,
           GoesOn(m, s, stage, io, rb), UNCHANGED <<account, auditHeld>>
    PROVE  /\ \A n \in Sms : n # m => Same(n)
           /\ session'[m].open = s.open /\ session'[m].ans = "NONE" /\ log' = log
<1>0. /\ session \in [Sms -> SessionType] /\ over \in [Sms -> OverType(Int)]
      /\ stage \in Stages
      /\ session' = [session EXCEPT ![m] = [s EXCEPT !.stage = stage, !.ans = "NONE"]]
      /\ auditReq' = IF stage = "AUDIT" THEN auditReq \cup {m} ELSE auditReq
      /\ chargeReq' = IF stage = "CHARGE" THEN chargeReq \cup {m} ELSE chargeReq
      /\ ioMq' = io /\ rebackMq' = rb /\ channelMq' = channelMq /\ setQ' = setQ /\ log' = log
      /\ over' = IF stage = "OVERRATE"
                 THEN [over EXCEPT ![m] = [NoOver EXCEPT !.at = "POSTED", !.chan = s.chan,
                                                         !.global = s.failed = {} /\ ~s.reback]]
                 ELSE over
  BY DEF GoesOn, Wait, TypeInv, SessionTypeOK, RateTypeOK, StageOK
<1>1. ASSUME NEW n \in Sms, n # m
      PROVE  Same(n)
  BY <1>0, <1>1 DEF GoesOn, InHand, Same
<1>2. session'[m].open = s.open /\ session'[m].ans = "NONE"
  BY <1>0 DEF GoesOn, SessionType
<1>3. QED
  BY <1>0, <1>1, <1>2

LEMMA WaitKeeps ==
    ASSUME TypeInv, AllSmsInv, NEW m \in Sms, NEW s, NEW stage, NEW io, NEW rb,
           GoesOn(m, s, stage, io, rb), UNCHANGED <<account, auditHeld>>
    PROVE  AllSmsInv'
<1>0. /\ session \in [Sms -> SessionType] /\ over \in [Sms -> OverType(Int)]
      /\ stage \in Stages
      /\ session' = [session EXCEPT ![m] = [s EXCEPT !.stage = stage, !.ans = "NONE"]]
      /\ auditReq' = IF stage = "AUDIT" THEN auditReq \cup {m} ELSE auditReq
      /\ chargeReq' = IF stage = "CHARGE" THEN chargeReq \cup {m} ELSE chargeReq
      /\ ioMq' = io /\ rebackMq' = rb /\ channelMq' = channelMq /\ setQ' = setQ /\ log' = log
      /\ over' = IF stage = "OVERRATE"
                 THEN [over EXCEPT ![m] = [NoOver EXCEPT !.at = "POSTED", !.chan = s.chan,
                                                         !.global = s.failed = {} /\ ~s.reback]]
                 ELSE over
  BY DEF GoesOn, Wait, TypeInv, SessionTypeOK, RateTypeOK, StageOK
<1>1. ASSUME NEW n \in Sms, n # m
      PROVE  SmsInv(n)'
  <2>1. Same(n)
    BY <1>1, WaitMoves
  <2>2. QED
    BY <2>1, SameKeeps DEF AllSmsInv
<1>2. SmsInv(m)'
  <2>0. InHand(m, io, rb) /\ StageOK(m, s, stage) /\ (over[m].at # "NONE" => s.overState)
    BY DEF GoesOn
  <2>s. session'[m] = [s EXCEPT !.stage = stage, !.ans = "NONE"] /\ s \in SessionType
    BY <1>0 DEF GoesOn
  <2>t. /\ session'[m].stage = stage /\ session'[m].ans = "NONE"
        /\ session'[m].open = s.open /\ session'[m].reback = s.reback
        /\ session'[m].count = s.count /\ session'[m].chan = s.chan
        /\ session'[m].initial = s.initial /\ session'[m].overState = s.overState
        /\ session'[m].plan = s.plan /\ session'[m].push = s.push
        /\ session'[m].origin = s.origin
    BY <2>s DEF SessionType
  <2>a. s.open /\ s.open = TRUE
    BY <2>0, <2>s DEF StageOK, SessionType
  <2>o. \/ stage # "OVERRATE" /\ over'[m] = over[m]
        \/ /\ stage = "OVERRATE" /\ over'[m].at = "POSTED" /\ over'[m].chan = s.chan
           /\ over'[m].global = (s.failed = {} /\ ~s.reback)
    BY <1>0 DEF NoOver
  <2>p. /\ ~InIo(m)' /\ ~InReback(m)' /\ ~InChannel(m)' /\ Owned(m)' /\ ~Nowhere(m)'
        /\ (m \notin auditHeld)' /\ ~Audited(m)'
    BY <1>0, <2>0, <2>t, <2>a
       DEF InHand, InIo, InReback, InChannel, Owned, Nowhere, Audited, Awaits, InState
  <2>1. OnePlace(m)'
    BY <1>0, <2>0, <2>p DEF OnePlace, InHand, AtMostOne
  <2>2. SessionOK(m)'
    <3>1. StageOK(m, session[m], session[m].stage)'
      BY <1>0, <2>0, <2>t, <2>a, <2>o DEF StageOK
    <3>2. QED
      BY <3>1, <2>t DEF SessionOK, AnswersOf
  <2>3. OverOK(m)'
    BY <1>0, <2>0, <2>t, <2>a, <2>o, <2>p DEF OverOK, InHand, StageOK, InState, AllSmsInv, SmsInv
  <2>4. ChargeOK(m)'
    <3>1. InState(m, "CHARGE")' => m \in chargeReq' /\ stage = "CHARGE"
      BY <1>0, <2>t DEF InState
    <3>2. m \in chargeReq' => stage = "CHARGE" /\ InState(m, "CHARGE")'
      BY <1>0, <2>0, <2>t, <2>a DEF InHand, InState
    <3>3. stage = "CHARGE" => log[m].charged = 0
      BY DEF GoesOn
    <3>4. QED
      BY <1>0, <2>0, <2>t, <2>p, <3>1, <3>2, <3>3 DEF ChargeOK, InHand
  <2>5. VerdictOK(m)'
    BY <1>0, <2>0, <2>p DEF VerdictOK, InHand
  <2>6. QED
    BY <2>1, <2>2, <2>3, <2>4, <2>5 DEF SmsInv
<1>3. QED
  BY <1>1, <1>2 DEF AllSmsInv

(* The session s of m may end: what goes on to the send component was      *)
(* checked and charged, what goes back to the client side was not.         *)
EndType(s) ==
    /\ s.reback \in BOOLEAN /\ s.initial \in BOOLEAN /\ s.overState \in BOOLEAN /\ s.plan \in BOOLEAN
    /\ s.chan \in Maybe /\ s.push \in {"REPORT", "OVERFLOW", "IOREBACK"}

EndToken(m, s) ==
    /\ s.overState => ~s.plan /\ over[m].at = "OK" /\ over[m].chan = s.chan
    /\ over[m].at # "NONE" => s.overState
    /\ s.plan => ~s.initial
    /\ ~s.reback => ~log[m].unit
    /\ s.reback => ~s.overState \/ ~over[m].global

EndPlace(m, s) ==
    /\ s.initial /\ s.reback => s.count \in 1 .. MaxOverCount
    /\ s.initial /\ s.chan # NoChannel => s.overState /\ (account[m].prepaid => log[m].charged = 1)
    /\ ~s.initial /\ s.push = "OVERFLOW" =>
          ~s.reback /\ log[m].charged = 0 /\ s.routed \in 0 .. MaxSelect
    /\ ~s.initial /\ s.push = "IOREBACK" =>
          /\ s.reback /\ s.count \in 2 .. MaxOverCount /\ s.origin \in Channels
          /\ account[m].prepaid => log[m].charged = 1

EndOK(m, s) == EndType(s) /\ EndToken(m, s) /\ EndPlace(m, s)

Ends(m, s, io, rb) ==
    /\ InHand(m, io, rb) /\ EndOK(m, s)
    /\ ~session[m].open => ~s.initial /\ s.push = "REPORT"
    /\ Finish(m, s, io, rb, FALSE)

(* What Finish does to the log of m, one field at a time.                  *)
Entered(m, s, expired, queue) ==
    /\ log'[m].rep = log[m].rep + (IF ~s.initial /\ s.push = "REPORT" THEN 1 ELSE 0)
    /\ log'[m].lost <=> log[m].lost \/ (s.initial /\ ~Publishes(s, queue))
    /\ log'[m].unsent = IF s.initial /\ s.overState /\ ~Publishes(s, queue)
                        THEN over[m].chan ELSE log[m].unsent
    /\ log'[m].unheard <=> log[m].unheard
    /\ log'[m].unit <=> log[m].unit \/ (s.initial /\ s.overState /\ over[m].global)
    /\ log'[m].late <=> log[m].late \/ (expired /\ s.stage = "AUDIT")
    /\ log'[m].leaked <=> log[m].leaked \/ (expired /\ s.stage = "OVERRATE")
    /\ log'[m].charged = log[m].charged /\ log'[m].delivered = log[m].delivered
    /\ log[m] \in LogType /\ log'[m] \in LogType

LEMMA FinishLog ==
    ASSUME TypeInv, NEW m \in Sms, NEW s, NEW expired \in BOOLEAN, NEW queue,
           log' = [log EXCEPT ![m] = Logged(m, s, expired, queue)]
    PROVE  Entered(m, s, expired, queue) /\ \A n \in Sms : n # m => log'[n] = log[n]
<1>1. log \in [Sms -> LogType] /\ over[m].chan \in Maybe
  BY DEF TypeInv, LogTypeOK, RateTypeOK, OverType
<1>2. log'[m] = Logged(m, s, expired, queue) /\ \A n \in Sms : n # m => log'[n] = log[n]
  BY <1>1
<1> DEFINE rep == log[m].rep + (IF ~s.initial /\ s.push = "REPORT" THEN 1 ELSE 0)
           lost == log[m].lost \/ (s.initial /\ ~Publishes(s, queue))
           unsent == IF s.initial /\ s.overState /\ ~Publishes(s, queue)
                     THEN over[m].chan ELSE log[m].unsent
           unit == log[m].unit \/ (s.initial /\ s.overState /\ over[m].global)
           late == log[m].late \/ (expired /\ s.stage = "AUDIT")
           leaked == log[m].leaked \/ (expired /\ s.stage = "OVERRATE")
<1>3. log'[m] = [log[m] EXCEPT !.rep = rep, !.lost = lost, !.unsent = unsent, !.unit = unit,
                               !.late = late, !.leaked = leaked]
  BY <1>2 DEF Logged
<1>4. log[m].rep \in Nat /\ log[m].unsent \in Maybe
  BY <1>1 DEF LogType
<1>5. rep \in Nat /\ {lost, unit, late, leaked} \subseteq BOOLEAN /\ unsent \in Maybe
  BY <1>1, <1>4
<1> HIDE DEF rep, lost, unsent, unit, late, leaked
<1>6. /\ log'[m].rep = rep /\ log'[m].lost = lost /\ log'[m].unit = unit
      /\ log'[m].late = late /\ log'[m].leaked = leaked /\ log'[m].unsent = unsent
      /\ log'[m].unheard = log[m].unheard
      /\ log'[m].charged = log[m].charged /\ log'[m].delivered = log[m].delivered
      /\ log'[m] \in LogType
  BY <1>1, <1>3, <1>5 DEF LogType
<1>7. QED
  BY <1>1, <1>2, <1>6 DEF rep, lost, unsent, unit, late, leaked, Entered

LEMMA FinishOver ==
    ASSUME TypeInv, NEW m \in Sms, NEW s, OverRateSetPosted(m, s)
    PROVE  /\ over'[m] = IF s.overState /\ ~s.plan THEN NoOver ELSE over[m]
           /\ \A n \in Sms : n # m => over'[n] = over[n]
BY DEF TypeInv, RateTypeOK, OverRateSetPosted, rate_vars

(* What a session that ends leaves for the send component, and in the log. *)
SentOff(m, s) ==
    \E queue \in BOOLEAN :
       /\ log' = [log EXCEPT ![m] = Logged(m, s, FALSE, queue)]
       /\ \E r : r.sms = m /\ Of(m, channelMq') = IF Publishes(s, queue) THEN {r} ELSE {}

(* A session that ends moves m alone: to a queue, or nowhere.              *)
LEMMA FinishMoves ==
    ASSUME TypeInv, NEW m \in Sms, NEW s, NEW io, NEW rb,
           Ends(m, s, io, rb), UNCHANGED <<account, auditHeld>>
    PROVE  /\ \A n \in Sms : n # m => Same(n)
           /\ \E r : /\ r.sms = m
                     /\ Of(m, ioMq') = IF ~s.initial /\ s.push = "OVERFLOW" THEN {r} ELSE {}
           /\ \E r : /\ r.sms = m /\ r.count = s.count
                     /\ Of(m, rebackMq') = IF ~s.initial /\ s.push = "IOREBACK" THEN {r} ELSE {}
           /\ SentOff(m, s)
<1>q. PICK queue \in BOOLEAN : /\ channelMq' = Published(m, s, queue)
                               /\ log' = [log EXCEPT ![m] = Logged(m, s, FALSE, queue)]
  BY DEF Ends, Finish
<1>0. /\ channelMq' = Published(m, s, queue) /\ ioMq' = Requeued(m, s, io) /\ rebackMq' = SentBack(m, s, rb)
      /\ OverRateSetPosted(m, s) /\ session' = [session EXCEPT ![m] = NoSession]
      /\ log' = [log EXCEPT ![m] = Logged(m, s, FALSE, queue)]
      /\ auditReq' = auditReq /\ chargeReq' = chargeReq /\ account' = account
      /\ auditHeld' = auditHeld /\ session \in [Sms -> SessionType]
      /\ InHand(m, io, rb) /\ EndOK(m, s)
  BY <1>q DEF Ends, Finish, request_vars, TypeInv, SessionTypeOK
<1>r. \E r : r.sms = m /\ ioMq' = IF ~s.initial /\ s.push = "OVERFLOW" THEN io \cup {r} ELSE io
  BY <1>0 DEF Requeued
<1>b. \E r : /\ r.sms = m /\ r.count = s.count
             /\ rebackMq' = IF ~s.initial /\ s.push = "IOREBACK" THEN rb \cup {r} ELSE rb
  BY <1>0 DEF SentBack
<1>c. \E r : /\ r.sms = m
             /\ channelMq' = IF Publishes(s, queue) THEN channelMq \cup {r}
                             ELSE channelMq
  <2> DEFINE r == [sms |-> m, chan |-> s.chan, count |-> IF s.reback THEN s.count ELSE 1]
  <2>1. r.sms = m
    OBVIOUS
  <2>2. channelMq' = IF Publishes(s, queue) THEN channelMq \cup {r} ELSE channelMq
    BY <1>0 DEF Published
  <2>3. QED
    BY <2>1, <2>2
<1>1. ASSUME NEW n \in Sms, n # m
      PROVE  Same(n)
  <2>1. Of(n, ioMq') = Of(n, ioMq)
    BY <1>0, <1>1, <1>r DEF InHand, Of
  <2>2. Of(n, rebackMq') = Of(n, rebackMq)
    BY <1>0, <1>1, <1>b DEF InHand, Of
  <2>3. Of(n, channelMq') = Of(n, channelMq)
    BY <1>1, <1>c DEF Of
  <2>4. over'[n] = over[n] /\ log'[n] = log[n]
    BY <1>0, <1>1, FinishLog, FinishOver
  <2>5. QED
    BY <1>0, <1>1, <2>1, <2>2, <2>3, <2>4 DEF Same
<1>2. \E r : /\ r.sms = m
             /\ Of(m, ioMq') = IF ~s.initial /\ s.push = "OVERFLOW" THEN {r} ELSE {}
  BY <1>0, <1>r DEF InHand, Of
<1>3. \E r : /\ r.sms = m /\ r.count = s.count
             /\ Of(m, rebackMq') = IF ~s.initial /\ s.push = "IOREBACK" THEN {r} ELSE {}
  BY <1>0, <1>b DEF InHand, Of
<1>4. \E r : /\ r.sms = m
             /\ Of(m, channelMq') = IF Publishes(s, queue) THEN {r} ELSE {}
  BY <1>0, <1>c DEF InHand, Of
<1>5. SentOff(m, s)
  BY <1>q, <1>4 DEF SentOff
<1>6. QED
  BY <1>1, <1>2, <1>3, <1>5

LEMMA FinishKeeps ==
    ASSUME TypeInv, AllSmsInv, NEW m \in Sms, NEW s, NEW io, NEW rb,
           Ends(m, s, io, rb), UNCHANGED <<account, auditHeld>>
    PROVE  AllSmsInv'
<1>q. PICK queue \in BOOLEAN :
         /\ log' = [log EXCEPT ![m] = Logged(m, s, FALSE, queue)]
         /\ \E r : /\ r.sms = m
                   /\ Of(m, channelMq') = IF Publishes(s, queue) THEN {r} ELSE {}
  BY FinishMoves DEF SentOff
<1>0. /\ OverRateSetPosted(m, s) /\ session' = [session EXCEPT ![m] = NoSession]
      /\ log' = [log EXCEPT ![m] = Logged(m, s, FALSE, queue)]
      /\ auditReq' = auditReq /\ chargeReq' = chargeReq /\ account' = account
      /\ auditHeld' = auditHeld /\ session \in [Sms -> SessionType]
      /\ InHand(m, io, rb) /\ EndOK(m, s)
  BY <1>q DEF Ends, Finish, request_vars, TypeInv, SessionTypeOK
<1>1. ASSUME NEW n \in Sms, n # m
      PROVE  SmsInv(n)'
  <2>1. Same(n)
    BY <1>0, <1>1, FinishMoves
  <2>2. QED
    BY <2>1, SameKeeps DEF AllSmsInv
<1>2. SmsInv(m)'
  <2>1. \E r : /\ r.sms = m
               /\ Of(m, ioMq') = IF ~s.initial /\ s.push = "OVERFLOW" THEN {r} ELSE {}
    BY <1>0, FinishMoves
  <2>2. \E r : /\ r.sms = m /\ r.count = s.count
               /\ Of(m, rebackMq') = IF ~s.initial /\ s.push = "IOREBACK" THEN {r} ELSE {}
    BY <1>0, FinishMoves
  <2>3. \E r : /\ r.sms = m
               /\ Of(m, channelMq') = IF Publishes(s, queue) THEN {r} ELSE {}
    BY <1>q
  <2>4. /\ (InIo(m)' <=> ~s.initial /\ s.push = "OVERFLOW")
        /\ (InReback(m)' <=> ~s.initial /\ s.push = "IOREBACK")
        /\ (InChannel(m)' <=> Publishes(s, queue))
    BY <2>1, <2>2, <2>3 DEF InIo, InReback, InChannel
  <2>5. /\ session'[m].open = FALSE /\ ~Owned(m)' /\ ~Audited(m)' /\ m \notin auditHeld'
        /\ m \notin chargeReq' /\ \A stage : ~InState(m, stage)'
    BY <1>0 DEF NoSession, NewSession, Owned, Audited, Awaits, InState, InHand
  <2>6. over'[m].at = "NONE"
    BY <1>0, FinishOver DEF EndOK, EndType, EndToken, EndPlace, NoOver
  <2>k. log[m] \in LogType
    BY DEF TypeInv, LogTypeOK
  <2>l. /\ log'[m].rep = log[m].rep + (IF ~s.initial /\ s.push = "REPORT" THEN 1 ELSE 0)
        /\ (log'[m].lost <=> log[m].lost \/ (s.initial /\ ~Publishes(s, queue)))
        /\ log'[m].unsent = IF s.initial /\ s.overState /\ ~Publishes(s, queue)
                            THEN over[m].chan ELSE log[m].unsent
        /\ (log'[m].unit <=> log[m].unit \/ (s.initial /\ s.overState /\ over[m].global))
        /\ (log'[m].late <=> log[m].late) /\ (log'[m].leaked <=> log[m].leaked)
        /\ log'[m].charged = log[m].charged /\ log'[m].delivered = log[m].delivered
    <3>1. Entered(m, s, FALSE, queue)
      BY <1>0, FinishLog
    <3>2. QED
      BY <3>1 DEF Entered
  <2>7. OnePlace(m)'
    <3>1. /\ AtMostOne(Of(m, ioMq)') /\ AtMostOne(Of(m, rebackMq)')
          /\ AtMostOne(Of(m, channelMq)')
      BY <2>1, <2>2, <2>3 DEF AtMostOne
    <3>2. /\ InIo(m)' => ~InReback(m)' /\ ~InChannel(m)'
          /\ InReback(m)' => ~InChannel(m)'
      BY <2>4 DEF Publishes
    <3>3. QED
      BY <2>5, <3>1, <3>2 DEF OnePlace, AtMostOne
  <2>8. SessionOK(m)'
    BY <2>5 DEF SessionOK
  <2>9. OverOK(m)'
    BY <1>0, <2>5, <2>6, <2>l DEF OverOK, InHand
  <2>10. ChargeOK(m)'
    BY <1>0, <2>4, <2>5, <2>l DEF ChargeOK, Publishes, InHand, EndOK, EndType, EndToken, EndPlace
  <2>11. VerdictOK(m)'
    <3>p. Publishes(s, queue) => s.initial /\ s.chan # NoChannel
      BY DEF Publishes
    <3>u. log'[m].unsent # NoChannel => Nowhere(m)'
      BY <1>0, <2>4, <2>5, <2>l, <3>p DEF Nowhere, InHand
    <3>0. Nowhere(m)' <=> /\ s.initial => ~Publishes(s, queue)
                          /\ ~s.initial => s.push = "REPORT"
      BY <1>0, <2>4, <2>5, <3>p DEF Nowhere, EndOK, EndType, EndToken, EndPlace
    <3>1. \A q \in Of(m, rebackMq') : q.again => q.count >= 2
      BY <1>0, <2>2 DEF EndOK, EndType, EndToken, EndPlace
    <3>2. Nowhere(m)' =>
             log'[m].delivered # NoChannel \/ log'[m].rep > 0 \/ log'[m].lost
      BY <2>k, <2>l, <3>0 DEF LogType
    <3>3. ~Nowhere(m)' => log'[m].rep = log[m].rep
      BY <2>k, <2>l, <3>0 DEF LogType
    <3>4. log'[m].delivered = NoChannel /\ (~log'[m].late => log[m].rep = 0)
      BY <1>0, <2>l DEF InHand
    <3>5. log'[m].rep \in Nat /\ (~log'[m].late => log'[m].rep <= 1)
      BY <2>k, <2>l, <3>4 DEF LogType
    <3>6. QED
      BY <2>5, <3>u, <3>1, <3>2, <3>3, <3>4, <3>5, AccessAssumption DEF VerdictOK
  <2>12. QED
    BY <2>7, <2>8, <2>9, <2>10, <2>11 DEF SmsInv
<1>3. QED
  BY <1>1, <1>2 DEF AllSmsInv

-----------------------------------------------------------------------------
(* Every handler of the session thread goes on with what it has in hand or *)
(* ends it.                                                                *)
Handled(m, io, rb) ==
    (\E s, stage : GoesOn(m, s, stage, io, rb)) \/ (\E s : Ends(m, s, io, rb))

LEMMA FailHandled ==
    ASSUME NEW m \in Sms, NEW s \in SessionType, NEW io, NEW rb, InHand(m, io, rb),
           s.overState => ~s.plan /\ over[m].at = "OK" /\ over[m].chan = s.chan,
           over[m].at # "NONE" => s.overState,
           ~s.reback => ~log[m].unit, s.reback => ~s.overState,
           Fail(m, s, io, rb)
    PROVE  Handled(m, io, rb)
<1> DEFINE e == [s EXCEPT !.initial = FALSE]
<1>1. /\ e.reback = s.reback /\ e.initial = FALSE /\ e.overState = s.overState /\ e.plan = s.plan
      /\ e.chan = s.chan /\ e.push = s.push /\ e.routed = s.routed /\ e.count = s.count
      /\ {s.reback, s.overState, s.plan} \subseteq BOOLEAN /\ s.chan \in Maybe
      /\ s.push = "REPORT" /\ s.routed \in Nat /\ s.count \in Nat
  BY DEF SessionType
<1>2. Finish(m, e, io, rb, FALSE)
  BY DEF Fail, Done
<1> HIDE DEF e
<1>3. EndOK(m, e)
  <2>1. EndType(e)
    BY <1>1 DEF EndType
  <2>2. EndToken(m, e)
    BY <1>1 DEF EndToken
  <2>3. EndPlace(m, e)
    BY <1>1 DEF EndPlace
  <2>4. QED
    BY <2>1, <2>2, <2>3 DEF EndOK
<1>4. QED
  BY <1>1, <1>2, <1>3 DEF Handled, Ends

LEMMA WaitHandled ==
    ASSUME NEW m \in Sms, NEW s \in SessionType, NEW stage \in Stages, NEW io, NEW rb,
           InHand(m, io, rb), StageOK(m, s, stage),
           over[m].at # "NONE" => s.overState, stage = "CHARGE" => log[m].charged = 0,
           Wait(m, s, stage, io, rb)
    PROVE  Handled(m, io, rb)
BY DEF Handled, GoesOn

(* A session that has no channel yet, and no token of the over-rate check. *)
Early == {"BLACKLIST", "TEMPLATE", "AUDIT", "ROUTE"}

LEMMA EarlyStage ==
    ASSUME NEW m \in Sms, NEW s \in SessionType, NEW st \in Early, NEW stage \in Early,
           StageOK(m, s, st), s.reback => stage \notin {"TEMPLATE", "AUDIT"}
    PROVE  StageOK(m, s, stage)
BY DEF StageOK, Early, Stages

LEMMA NoToken ==
    ASSUME NEW m \in Sms, SmsInv(m), Owned(m),
           \/ session[m].stage \in Early
           \/ InState(m, "OVERRATE") /\ session[m].ans \notin {"NONE", "OK"}
    PROVE  over[m].at = "NONE"
BY DEF SmsInv, OverOK, Nowhere, InState, Early

LEMMA OwnedFacts ==
    ASSUME TypeInv, AllSmsInv, NEW m \in Sms, session[m].open
    PROVE  /\ session[m] \in SessionType /\ SmsInv(m)
           /\ StageOK(m, session[m], session[m].stage)
           /\ session[m].ans \in AnswersOf(session[m].stage)
           /\ session[m].stage # "AUDIT" => Owned(m)
BY DEF TypeInv, SessionTypeOK, AllSmsInv, SmsInv, SessionOK, AnswersOf, Owned

(* In the stages before the over-rate check: fail, or go on to another.    *)
LEMMA EarlyHandled ==
    ASSUME TypeInv, AllSmsInv, NEW m \in Sms, NEW st \in Early, InState(m, st), Owned(m),
           st = "AUDIT" => session[m].ans # "NONE",
           \/ Fail(m, session[m], ioMq, rebackMq)
           \/ st # "ROUTE" /\ Proceed(m, session[m])
    PROVE  Handled(m, ioMq, rebackMq)
<1> DEFINE s == session[m]
<1>1. s \in SessionType /\ SmsInv(m) /\ StageOK(m, s, st) /\ s.stage = st
  BY OwnedFacts DEF InState
<1>2. InHand(m, ioMq, rebackMq) /\ over[m].at = "NONE"
  BY <1>1, InHandOwned, NoToken DEF Early, InState
<1>3. CASE Fail(m, s, ioMq, rebackMq)
  BY <1>1, <1>2, <1>3, FailHandled DEF StageOK, Early
<1>4. CASE st # "ROUTE" /\ Proceed(m, s)
  <2>1. nextState(s) \in Early /\ (s.reback => nextState(s) \notin {"TEMPLATE", "AUDIT"})
    BY <1>1, <1>4 DEF nextState, Early, Following, StageOK
  <2>2. Wait(m, s, nextState(s), ioMq, rebackMq)
    BY <1>4, <2>1 DEF Proceed, Enter, Early
  <2>3. nextState(s) \in Stages /\ nextState(s) # "CHARGE"
    BY <2>1 DEF Early, Stages
  <2>4. QED
    BY <1>1, <1>2, <2>1, <2>2, <2>3, EarlyStage, WaitHandled
<1>5. QED
  BY <1>3, <1>4

LEMMA NewSessionType == NewSession \in SessionType /\ NoSession \in SessionType
<1>1. NewSession \in SessionType
  BY AccessAssumption DEF NewSession, SessionType, Maybe
<1>2. QED
  BY <1>1 DEF NoSession, SessionType

LEMMA MQReqHandled ==
    ASSUME TypeInv, AllSmsInv, NEW m \in Sms, NEW q \in ioMq, q.sms = m, HandleMQReqMsg(q)
    PROVE  Handled(m, ioMq \ {q}, rebackMq)
<1> DEFINE s == [NewSession EXCEPT !.audited = q.audited, !.routed = q.routed]
<1>1. q.audited \in BOOLEAN /\ q.routed \in 0 .. MaxSelect
  BY DEF TypeInv, MqTypeOK, IoMsg
<1>2. /\ s \in SessionType /\ s.open /\ ~s.reback /\ s.stage = "INIT" /\ s.push = "REPORT"
      /\ s.chan = NoChannel /\ ~s.overState /\ ~s.plan /\ s.audited = q.audited
  <2>1. s \in SessionType
    BY <1>1, NewSessionType DEF SessionType
  <2>2. QED
    BY <2>1 DEF NewSession
<1>3. InHand(m, ioMq \ {q}, rebackMq) /\ over[m].at = "NONE"
  BY InHandIo DEF AllSmsInv, HandleMQReqMsg
<1>4. log[m].charged = 0 /\ ~log[m].unit
  BY DEF AllSmsInv, SmsInv, ChargeOK, InIo, Of
<1>5. \/ Enter(m, s, nextState(s), ioMq \ {q}, rebackMq)
      \/ Fail(m, s, ioMq \ {q}, rebackMq)
  BY DEF HandleMQReqMsg
<1> HIDE DEF s
<1>6. nextState(s) \in {"BLACKLIST", "ROUTE"}
  BY <1>2 DEF nextState, Following
<1>7. StageOK(m, s, nextState(s)) /\ nextState(s) \in Stages
  BY <1>2, <1>4, <1>6 DEF StageOK, Stages
<1>8. CASE Enter(m, s, nextState(s), ioMq \ {q}, rebackMq)
  BY <1>2, <1>3, <1>6, <1>7, <1>8, WaitHandled DEF Enter
<1>9. CASE Fail(m, s, ioMq \ {q}, rebackMq)
  BY <1>2, <1>3, <1>4, <1>9, FailHandled
<1>10. QED
  BY <1>5, <1>8, <1>9

LEMMA MQRebackHandled ==
    ASSUME TypeInv, AllSmsInv, NEW m \in Sms, NEW q \in rebackMq, q.sms = m,
           HandleMQRebackReqMsg(q)
    PROVE  Handled(m, ioMq, rebackMq \ {q})
<1> DEFINE s == [NewSession EXCEPT !.reback = TRUE, !.count = q.count, !.origin = q.chan]
           t == Retried(s)
<1>1. q.count \in 1 .. MaxOverCount /\ q.chan \in Channels
  BY DEF TypeInv, MqTypeOK, RebackMsg
<1>2. /\ s \in SessionType /\ s.reback /\ ~s.overState
  <2>1. q.count \in 0 .. MaxOverCount /\ q.chan \in Maybe
    BY <1>1, AccessAssumption DEF Maybe
  <2>2. s \in SessionType
    BY <2>1, NewSessionType DEF SessionType
  <2>3. QED
    BY <2>2 DEF NewSession
<1>t. q.count < MaxOverCount => t \in SessionType
  <2>1. q.count < MaxOverCount => s.count + 1 \in 0 .. MaxOverCount
    BY <1>1, AccessAssumption DEF NewSession
  <2>2. s \in SessionType
    BY <1>2
  <2> HIDE DEF s
  <2>3. QED
    BY <2>1, <2>2 DEF Retried, SessionType
<1>u. /\ t.open /\ t.reback /\ t.push = "REPORT" /\ t.count = q.count + 1 /\ t.origin = q.chan
      /\ t.chan = NoChannel /\ ~t.overState /\ ~t.plan
  BY DEF NewSession, Retried
<1>3. InHand(m, ioMq, rebackMq \ {q}) /\ over[m].at = "NONE"
  BY InHandReback DEF AllSmsInv, HandleMQRebackReqMsg
<1>4. account[m].prepaid => log[m].charged = 1
  BY DEF AllSmsInv, SmsInv, ChargeOK, InReback, Of
<1>5. \/ q.count < MaxOverCount /\ Enter(m, t, "BLACKLIST", ioMq, rebackMq \ {q})
      \/ Fail(m, s, ioMq, rebackMq \ {q})
  BY DEF HandleMQRebackReqMsg
<1> HIDE DEF s, t
<1>6. StageOK(m, t, "BLACKLIST") /\ "BLACKLIST" \in Stages
  BY <1>1, <1>u, <1>4 DEF StageOK, Stages
<1>7. CASE q.count < MaxOverCount /\ Enter(m, t, "BLACKLIST", ioMq, rebackMq \ {q})
  BY <1>t, <1>3, <1>6, <1>7, WaitHandled DEF Enter
<1>8. CASE Fail(m, s, ioMq, rebackMq \ {q})
  BY <1>2, <1>3, <1>8, FailHandled
<1>9. QED
  BY <1>5, <1>7, <1>8

(* The session goes where its fields say: those EndOK reads.               *)
LEMMA DoneHandled ==
    ASSUME NEW m \in Sms, NEW s, NEW io, NEW rb, InHand(m, io, rb), session[m].open,
           EndOK(m, s), Done(m, s, io, rb)
    PROVE  Handled(m, io, rb)
BY DEF Handled, Ends, Done

LEMMA RouterHandled ==
    ASSUME TypeInv, AllSmsInv, NEW m \in Sms, RouterReport(m)
    PROVE  Handled(m, ioMq, rebackMq)
<1> DEFINE s == session[m]
<1>0. InState(m, "ROUTE") /\ "ROUTE" \in Early
  BY DEF RouterReport, Early
<1>1. s \in SessionType /\ SmsInv(m) /\ StageOK(m, s, "ROUTE") /\ s.stage = "ROUTE" /\ Owned(m)
  BY <1>0, OwnedFacts DEF InState
<1>2. InHand(m, ioMq, rebackMq) /\ over[m].at = "NONE" /\ s.open
  BY <1>0, <1>1, InHandOwned, NoToken DEF InState
<1>3. /\ s.chan = NoChannel /\ ~s.overState /\ ~s.plan /\ s.push = "REPORT"
      /\ s.reback => s.count >= 2 /\ s.origin \in Channels /\ (account[m].prepaid => log[m].charged = 1)
      /\ ~s.reback => ~log[m].unit /\ log[m].charged = 0
      /\ s.reback \in BOOLEAN /\ s.initial \in BOOLEAN /\ s.overState \in BOOLEAN /\ s.plan \in BOOLEAN
      /\ s.count \in 0 .. MaxOverCount /\ s.routed \in 0 .. MaxSelect
  BY <1>1 DEF StageOK, SessionType
<1>4. ASSUME NEW c \in Channels, RouteFound(m, s, c)
      PROVE  Handled(m, ioMq, rebackMq)
  <2> DEFINE t == [s EXCEPT !.chan = c, !.initial = TRUE]
             e == [s EXCEPT !.initial = s.reback /\ s.initial]
  <2>1. CASE c \in known
    <3>1. t \in SessionType
      BY <1>1 DEF SessionType, Maybe
    <3>2. /\ t.open = s.open /\ t.push = s.push /\ t.reback = s.reback /\ t.count = s.count
          /\ t.origin = s.origin /\ t.chan = c /\ t.overState = s.overState /\ t.plan = s.plan
          /\ t.stage = s.stage
      BY <1>1 DEF SessionType
    <3>3. Enter(m, t, nextState(t), ioMq, rebackMq)
      BY <1>4, <2>1 DEF RouteFound, Proceed
    <3> HIDE DEF t
    <3>4. nextState(t) = "OVERRATE"
      BY <1>1, <3>2 DEF nextState, Following
    <3>5. StageOK(m, t, "OVERRATE") /\ "OVERRATE" \in Stages
      BY <1>2, <1>3, <3>2 DEF StageOK, Stages
    <3>6. QED
      BY <1>2, <3>1, <3>3, <3>4, <3>5, WaitHandled DEF Enter
  <2>2. CASE c \notin known
    <3>1. Done(m, e, ioMq, rebackMq)
      BY <1>4, <2>2 DEF RouteFound
    <3>2. /\ e.reback = s.reback /\ e.overState = s.overState /\ e.plan = s.plan /\ e.chan = s.chan
          /\ e.push = s.push /\ e.routed = s.routed /\ e.count = s.count /\ e.origin = s.origin
          /\ e.initial \in BOOLEAN
      BY <1>1, <1>3 DEF SessionType
    <3> HIDE DEF e
    <3>3. EndOK(m, e)
      <4>1. EndType(e)
        BY <1>2, <1>3, <3>2, AccessAssumption DEF EndType, Maybe
      <4>2. EndToken(m, e)
        BY <1>2, <1>3, <3>2, AccessAssumption DEF EndToken
      <4>3. EndPlace(m, e)
        BY <1>2, <1>3, <3>2, AccessAssumption DEF EndPlace
      <4>4. QED
        BY <4>1, <4>2, <4>3 DEF EndOK
    <3>4. QED
      BY <1>2, <3>1, <3>3, DoneHandled
  <2>3. QED
    BY <2>1, <2>2
<1>5. ASSUME RouteFull(m, s)
      PROVE  Handled(m, ioMq, rebackMq)
  <2>1. CASE s.reback
    <3>1. PICK p \in {"IOREBACK", "REPORT"} :
             Done(m, [s EXCEPT !.initial = FALSE, !.push = p], ioMq, rebackMq)
      BY <1>5, <2>1, Zenon DEF RouteFull
    <3> DEFINE e == [s EXCEPT !.initial = FALSE, !.push = p]
    <3>2. /\ e.reback = s.reback /\ e.overState = s.overState /\ e.plan = s.plan /\ e.chan = s.chan
          /\ e.push = p /\ e.routed = s.routed /\ e.count = s.count /\ e.origin = s.origin
          /\ e.initial = FALSE
      BY <1>1 DEF SessionType
    <3>3. Done(m, e, ioMq, rebackMq)
      BY <3>1
    <3> HIDE DEF e
    <3>4. EndOK(m, e)
      <4>1. EndType(e)
        BY <1>2, <1>3, <2>1, <3>2, AccessAssumption DEF EndType, Maybe
      <4>2. EndToken(m, e)
        BY <1>2, <1>3, <2>1, <3>2, AccessAssumption DEF EndToken
      <4>3. EndPlace(m, e)
        BY <1>2, <1>3, <2>1, <3>2, AccessAssumption DEF EndPlace
      <4>4. QED
        BY <4>1, <4>2, <4>3 DEF EndOK
    <3>5. QED
      BY <1>2, <3>3, <3>4, DoneHandled
  <2>2. CASE ~s.reback
    <3> DEFINE e == [s EXCEPT !.initial = FALSE, !.routed = @ + 1, !.push = PushWhenFull(s)]
    <3>1. Done(m, e, ioMq, rebackMq)
      BY <1>5, <2>2 DEF RouteFull
    <3>2. /\ e.reback = s.reback /\ e.overState = s.overState /\ e.plan = s.plan /\ e.chan = s.chan
          /\ e.push = PushWhenFull(s) /\ e.routed = s.routed + 1 /\ e.count = s.count
          /\ e.initial = FALSE
      BY <1>1 DEF SessionType
    <3> HIDE DEF e
    <3>3. PushWhenFull(s) \in {"REPORT", "OVERFLOW"} /\ (PushWhenFull(s) = "OVERFLOW" => s.routed < MaxSelect)
      BY <1>3, AccessAssumption DEF PushWhenFull
    <3>4. EndOK(m, e)
      <4>1. EndType(e)
        BY <1>2, <1>3, <2>2, <3>2, <3>3, AccessAssumption DEF EndType, Maybe
      <4>2. EndToken(m, e)
        BY <1>2, <1>3, <2>2, <3>2, <3>3, AccessAssumption DEF EndToken
      <4>3. EndPlace(m, e)
        BY <1>2, <1>3, <2>2, <3>2, <3>3, AccessAssumption DEF EndPlace
      <4>4. QED
        BY <4>1, <4>2, <4>3 DEF EndOK
    <3>5. QED
      BY <1>2, <3>1, <3>4, DoneHandled
  <2>3. QED
    BY <2>1, <2>2
<1>6. ASSUME Fail(m, s, ioMq, rebackMq)
      PROVE  Handled(m, ioMq, rebackMq)
  BY <1>0, <1>1, <1>6, EarlyHandled
<1>7. QED
  BY <1>4, <1>5, <1>6 DEF RouterReport

LEMMA OverRateHandled ==
    ASSUME TypeInv, AllSmsInv, NEW m \in Sms, OverRateReport(m)
    PROVE  Handled(m, ioMq, rebackMq)
<1> DEFINE s == session[m]
<1>0. InState(m, "OVERRATE")
  BY DEF OverRateReport
<1>1. s \in SessionType /\ SmsInv(m) /\ StageOK(m, s, "OVERRATE") /\ s.stage = "OVERRATE" /\ Owned(m)
  BY <1>0, OwnedFacts DEF InState
<1>2. InHand(m, ioMq, rebackMq) /\ s.open
  BY <1>0, <1>1, InHandOwned DEF InState
<1>3. /\ s.chan \in Channels /\ ~s.overState /\ ~s.plan /\ s.push = "REPORT"
      /\ s.reback => s.count >= 2 /\ s.origin \in Channels /\ (account[m].prepaid => log[m].charged = 1)
      /\ ~s.reback => ~log[m].unit /\ log[m].charged = 0
      /\ s.reback \in BOOLEAN /\ s.initial \in BOOLEAN /\ s.overState \in BOOLEAN /\ s.plan \in BOOLEAN
      /\ s.count \in 0 .. MaxOverCount /\ s.routed \in 0 .. MaxSelect
  BY <1>1 DEF StageOK, SessionType
<1>4. CASE s.ans = "OK" /\ Proceed(m, [s EXCEPT !.overState = TRUE])
  <2> DEFINE t == [s EXCEPT !.overState = TRUE]
  <2>1. t \in SessionType
    BY <1>1 DEF SessionType
  <2>2. /\ t.open = s.open /\ t.push = s.push /\ t.reback = s.reback /\ t.count = s.count
        /\ t.origin = s.origin /\ t.chan = s.chan /\ t.overState = TRUE /\ t.plan = s.plan
        /\ t.stage = s.stage /\ t.initial = s.initial /\ t.routed = s.routed
    BY <1>1 DEF SessionType
  <2>3. Enter(m, t, nextState(t), ioMq, rebackMq)
    BY <1>4 DEF Proceed
  <2> HIDE DEF t
  <2>4. nextState(t) = IF s.reback THEN "DONE" ELSE "CHARGE"
    BY <1>1, <2>2 DEF nextState, Following
  <2>5. /\ over[m].at = "OK" /\ over[m].chan = s.chan
        /\ s.reback => ~over[m].global
    BY <1>0, <1>1, <1>4 DEF SmsInv, OverOK
  <2>6. CASE ~s.reback /\ Wait(m, t, "CHARGE", ioMq, rebackMq)
    <3>1. StageOK(m, t, "CHARGE") /\ "CHARGE" \in Stages
      BY <1>2, <1>3, <2>2, <2>5, <2>6 DEF StageOK, Stages
    <3>2. QED
      BY <1>2, <1>3, <2>1, <2>2, <2>6, <3>1, WaitHandled
  <2>7. CASE (s.reback \/ ~account[m].prepaid) /\ Done(m, t, ioMq, rebackMq)
    <3>1. EndOK(m, t)
      <4>1. EndType(t)
        BY <1>3, <2>2, <2>5, <2>7, AccessAssumption DEF EndType, Maybe
      <4>2. EndToken(m, t)
        BY <1>3, <2>2, <2>5, <2>7, AccessAssumption DEF EndToken
      <4>3. EndPlace(m, t)
        BY <1>3, <2>2, <2>5, <2>7, AccessAssumption DEF EndPlace
      <4>4. QED
        BY <4>1, <4>2, <4>3 DEF EndOK
    <3>2. QED
      BY <1>2, <2>7, <3>1, DoneHandled
  <2>8. QED
    BY <2>3, <2>4, <2>6, <2>7 DEF Enter
<1>5. CASE /\ s.ans = "CHANNEL"
           /\ Enter(m, [s EXCEPT !.failed = @ \cup {s.chan}, !.chan = NoChannel, !.initial = FALSE],
                    "ROUTE", ioMq, rebackMq)
  <2> DEFINE t == [s EXCEPT !.failed = @ \cup {s.chan}, !.chan = NoChannel, !.initial = FALSE]
  <2>1. t \in SessionType
    BY <1>1, <1>3 DEF SessionType, Maybe
  <2>2. /\ t.open = s.open /\ t.push = s.push /\ t.reback = s.reback /\ t.count = s.count
        /\ t.origin = s.origin /\ t.chan = NoChannel /\ t.overState = s.overState /\ t.plan = s.plan
    BY <1>1 DEF SessionType
  <2>3. Wait(m, t, "ROUTE", ioMq, rebackMq)
    BY <1>5 DEF Enter
  <2> HIDE DEF t
  <2>4. over[m].at = "NONE"
    BY <1>0, <1>1, <1>5, NoToken
  <2>5. StageOK(m, t, "ROUTE") /\ "ROUTE" \in Stages
    BY <1>2, <1>3, <2>2 DEF StageOK, Stages
  <2>6. QED
    BY <1>2, <2>1, <2>3, <2>4, <2>5, WaitHandled
<1>6. CASE /\ s.ans \in {"GLOBAL", "CONTENT"}
           /\ Enter(m, [s EXCEPT !.initial = FALSE, !.plan = TRUE], "CHARGE", ioMq, rebackMq)
  <2> DEFINE t == [s EXCEPT !.initial = FALSE, !.plan = TRUE]
  <2>1. t \in SessionType
    BY <1>1 DEF SessionType
  <2>2. /\ t.open = s.open /\ t.push = s.push /\ t.reback = s.reback /\ t.count = s.count
        /\ t.origin = s.origin /\ t.chan = s.chan /\ t.overState = s.overState /\ t.plan = TRUE
        /\ t.initial = FALSE /\ t.routed = s.routed
    BY <1>1 DEF SessionType
  <2>3. Enter(m, t, "CHARGE", ioMq, rebackMq)
    BY <1>6
  <2> HIDE DEF t
  <2>4. over[m].at = "NONE" /\ ~s.reback
    BY <1>0, <1>1, <1>6, NoToken DEF SmsInv, OverOK
  <2>5. CASE Wait(m, t, "CHARGE", ioMq, rebackMq)
    <3>1. StageOK(m, t, "CHARGE") /\ "CHARGE" \in Stages
      BY <1>2, <1>3, <2>2, <2>4 DEF StageOK, Stages
    <3>2. QED
      BY <1>2, <1>3, <2>1, <2>4, <2>5, <3>1, WaitHandled
  <2>6. CASE Done(m, t, ioMq, rebackMq)
    <3>1. EndOK(m, t)
      <4>1. EndType(t)
        BY <1>3, <2>2, <2>4, AccessAssumption DEF EndType, Maybe
      <4>2. EndToken(m, t)
        BY <1>3, <2>2, <2>4, AccessAssumption DEF EndToken
      <4>3. EndPlace(m, t)
        BY <1>3, <2>2, <2>4, AccessAssumption DEF EndPlace
      <4>4. QED
        BY <4>1, <4>2, <4>3 DEF EndOK
    <3>2. QED
      BY <1>2, <2>6, <3>1, DoneHandled
  <2>7. QED
    BY <2>3, <2>5, <2>6 DEF Enter
<1>7. CASE s.ans \in {"GLOBAL", "CONTENT"} /\ Fail(m, s, ioMq, rebackMq)
  <2>1. over[m].at = "NONE"
    BY <1>0, <1>1, <1>7, NoToken
  <2>2. QED
    BY <1>1, <1>2, <1>3, <1>7, <2>1, FailHandled
<1>8. QED
  BY <1>4, <1>5, <1>6, <1>7 DEF OverRateReport

LEMMA ChargeHandled ==
    ASSUME TypeInv, AllSmsInv, NEW m \in Sms, ChargeReport(m)
    PROVE  Handled(m, ioMq, rebackMq)
<1> DEFINE s == session[m]
<1>0. InState(m, "CHARGE") /\ s.ans \in {"OK", "FAIL"}
  BY DEF ChargeReport
<1>1. s \in SessionType /\ SmsInv(m) /\ StageOK(m, s, "CHARGE") /\ s.stage = "CHARGE" /\ Owned(m)
  BY <1>0, OwnedFacts DEF InState
<1>2. InHand(m, ioMq, rebackMq) /\ s.open
  BY <1>0, <1>1, InHandOwned DEF InState
<1>3. /\ s.overState => ~s.plan /\ over[m].at = "OK" /\ over[m].chan = s.chan
      /\ s.plan => ~s.initial
      /\ s.overState \/ s.plan
      /\ ~s.reback /\ ~log[m].unit /\ s.push = "REPORT"
      /\ s.reback \in BOOLEAN /\ s.initial \in BOOLEAN /\ s.overState \in BOOLEAN /\ s.plan \in BOOLEAN /\ s.chan \in Maybe
      /\ s.count \in Nat /\ s.routed \in Nat
  BY <1>1 DEF StageOK, SessionType
<1>4. over[m].at # "NONE" => s.overState
  BY <1>0, <1>1 DEF SmsInv, OverOK, Nowhere, InState
<1>5. CASE s.ans = "OK" /\ Proceed(m, s)
  <2>1. nextState(s) = "DONE"
    BY <1>1, <1>3 DEF nextState, Following
  <2>2. Done(m, s, ioMq, rebackMq)
    BY <1>5, <2>1 DEF Proceed, Enter
  <2>3. log[m].charged = 1
    BY <1>0, <1>1, <1>5 DEF SmsInv, ChargeOK
  <2>4. EndOK(m, s)
    <3>1. EndType(s)
      BY <1>3, <1>4, <2>3 DEF EndType
    <3>2. EndToken(m, s)
      BY <1>3, <1>4, <2>3 DEF EndToken
    <3>3. EndPlace(m, s)
      BY <1>3, <1>4, <2>3 DEF EndPlace
    <3>4. QED
      BY <3>1, <3>2, <3>3 DEF EndOK
  <2>5. QED
    BY <1>2, <2>2, <2>4, DoneHandled
<1>6. CASE Fail(m, s, ioMq, rebackMq)
  BY <1>1, <1>2, <1>3, <1>4, <1>6, FailHandled
<1>7. QED
  BY <1>5, <1>6 DEF ChargeReport

LEMMA AuditHandled ==
    ASSUME TypeInv, AllSmsInv, NEW m \in Sms, AuditReport(m)
    PROVE  \/ Handled(m, ioMq, rebackMq)
           \/ session[m].ans = "HELD" /\ FinishHeld(m)
<1>1. InState(m, "AUDIT") /\ "AUDIT" \in Early
  BY DEF AuditReport, Early
<1>2. CASE session[m].ans = "PASS" /\ Proceed(m, session[m])
  BY <1>1, <1>2, EarlyHandled DEF Owned, InState
<1>3. CASE session[m].ans = "FAIL" /\ Fail(m, session[m], ioMq, rebackMq)
  BY <1>1, <1>3, EarlyHandled DEF Owned, InState
<1>4. CASE session[m].ans \in AuditEnds /\ FinishHeld(m)
  BY <1>4 DEF AuditEnds
<1>5. QED
  BY <1>2, <1>3, <1>4 DEF AuditReport

(* The steps of the session thread but the timer's, by what they take.     *)
TakesNew(m) ==
    \E q \in ioMq :
        /\ q.sms = m /\ ~session[m].open /\ Handled(m, ioMq \ {q}, rebackMq)
        /\ UNCHANGED chanDay
TakesBack(m) ==
    \E q \in rebackMq :
        /\ q.sms = m /\ ~session[m].open /\ Handled(m, ioMq, rebackMq \ {q})
        /\ chanDay' = GivenBack(q)
TakesAnswer(m) ==
    /\ session[m].open /\ UNCHANGED chanDay
    /\ \/ Handled(m, ioMq, rebackMq) /\ Owned(m)
       \/ InState(m, "AUDIT") /\ session[m].ans = "HELD" /\ FinishHeld(m)

LEMMA SessionThreadCases ==
    ASSUME TypeInv, AllSmsInv, NEW m \in Sms, SessionThread(m)
    PROVE  /\ UNCHANGED <<config_vars, auditHeld, globalCount, dayCache, env_vars>>
           /\ TakesNew(m) \/ TakesBack(m) \/ TakesAnswer(m)
<1>1. ASSUME NEW q \in Of(m, ioMq), HandleMQReqMsg(q)
      PROVE  /\ UNCHANGED <<config_vars, auditHeld, globalCount, dayCache, env_vars>>
             /\ TakesNew(m)
  <2>1. q \in ioMq /\ q.sms = m
    BY DEF Of
  <2>2. ~session[m].open /\ UNCHANGED <<config_vars, auditHeld, redis_vars>>
    BY <1>1, <2>1 DEF HandleMQReqMsg
  <2>3. QED
    BY <1>1, <2>1, <2>2, MQReqHandled DEF TakesNew, redis_vars
<1>2. ASSUME NEW q \in Of(m, rebackMq), HandleMQRebackReqMsg(q)
      PROVE  /\ UNCHANGED <<config_vars, auditHeld, globalCount, dayCache, env_vars>>
             /\ TakesBack(m)
  <2>1. q \in rebackMq /\ q.sms = m
    BY DEF Of
  <2>2. /\ ~session[m].open /\ chanDay' = GivenBack(q)
        /\ UNCHANGED <<config_vars, auditHeld, globalCount, dayCache, env_vars>>
    BY <1>2, <2>1 DEF HandleMQRebackReqMsg
  <2>3. QED
    BY <1>2, <2>1, <2>2, MQRebackHandled DEF TakesBack
<1>3. ASSUME \/ BlackListReport(m) \/ TemplateReport(m) \/ RouterReport(m) \/ AuditReport(m)
             \/ OverRateReport(m) \/ ChargeReport(m)
      PROVE  /\ UNCHANGED <<config_vars, auditHeld, globalCount, dayCache, env_vars>>
             /\ TakesAnswer(m)
  <2>1. UNCHANGED <<config_vars, auditHeld, redis_vars>> /\ session[m].open
    BY <1>3 DEF BlackListReport, TemplateReport, RouterReport, AuditReport, OverRateReport,
                ChargeReport, InState
  <2>2. session[m].stage # "AUDIT" => Owned(m)
    BY <2>1, OwnedFacts
  <2>3. CASE BlackListReport(m)
    <3>1. InState(m, "BLACKLIST") /\ "BLACKLIST" \in Early
      BY <2>3 DEF BlackListReport, Early
    <3>2. Proceed(m, session[m]) \/ Fail(m, session[m], ioMq, rebackMq)
      BY <2>3 DEF BlackListReport
    <3>3. Handled(m, ioMq, rebackMq) /\ Owned(m)
      BY <2>2, <3>1, <3>2, EarlyHandled DEF InState
    <3>4. QED
      BY <2>1, <3>3 DEF TakesAnswer, redis_vars
  <2>4. CASE TemplateReport(m)
    <3>1. InState(m, "TEMPLATE") /\ "TEMPLATE" \in Early
      BY <2>4 DEF TemplateReport, Early
    <3>2. Proceed(m, session[m]) \/ Fail(m, session[m], ioMq, rebackMq)
      BY <2>4 DEF TemplateReport
    <3>3. Handled(m, ioMq, rebackMq) /\ Owned(m)
      BY <2>2, <3>1, <3>2, EarlyHandled DEF InState
    <3>4. QED
      BY <2>1, <3>3 DEF TakesAnswer, redis_vars
  <2>5. CASE RouterReport(m)
    BY <2>1, <2>2, <2>5, RouterHandled DEF TakesAnswer, redis_vars, RouterReport, InState
  <2>6. CASE AuditReport(m)
    <3>1. InState(m, "AUDIT")
      BY <2>6 DEF AuditReport
    <3>2. CASE session[m].ans = "HELD"
      <4>1. FinishHeld(m)
        BY <2>6, <3>2 DEF AuditReport, AuditEnds
      <4>2. QED
        BY <2>1, <3>1, <3>2, <4>1 DEF TakesAnswer, redis_vars
    <3>3. CASE session[m].ans # "HELD"
      <4>1. Handled(m, ioMq, rebackMq)
        BY <2>6, <3>3, AuditHandled
      <4>2. QED
        BY <2>1, <3>3, <4>1 DEF TakesAnswer, redis_vars, Owned
    <3>4. QED
      BY <3>2, <3>3
  <2>7. CASE OverRateReport(m)
    BY <2>1, <2>2, <2>7, OverRateHandled DEF TakesAnswer, redis_vars, OverRateReport, InState
  <2>8. CASE ChargeReport(m)
    BY <2>1, <2>2, <2>8, ChargeHandled DEF TakesAnswer, redis_vars, ChargeReport, InState
  <2>9. QED
    BY <1>3, <2>1, <2>3, <2>4, <2>5, <2>6, <2>7, <2>8 DEF redis_vars
<1>4. QED
  BY <1>1, <1>2, <1>3 DEF SessionThread

LEMMA HandledKeeps ==
    ASSUME TypeInv, AllSmsInv, NEW m \in Sms, NEW io, NEW rb, Handled(m, io, rb),
           UNCHANGED <<account, auditHeld>>
    PROVE  AllSmsInv'
BY WaitKeeps, FinishKeeps DEF Handled

(* The session of an SMS the audit keeps ends.                             *)
LEMMA HeldKeeps ==
    ASSUME TypeInv, AllSmsInv, NEW m \in Sms, InState(m, "AUDIT"), session[m].ans = "HELD",
           FinishHeld(m), UNCHANGED <<account, auditHeld>>
    PROVE  AllSmsInv'
<1>0. /\ session \in [Sms -> SessionType] /\ session' = [session EXCEPT ![m] = NoSession]
      /\ UNCHANGED <<ioMq, rebackMq, channelMq, auditReq, chargeReq, over, log, account, auditHeld>>
  BY DEF FinishHeld, TypeInv, SessionTypeOK, mq_vars, request_vars, rate_vars
<1>1. ASSUME NEW n \in Sms, n # m
      PROVE  SmsInv(n)'
  <2>1. Same(n)
    BY <1>0, <1>1 DEF Same
  <2>2. QED
    BY <2>1, SameKeeps DEF AllSmsInv
<1>2. SmsInv(m)'
  <2>0. SmsInv(m)
    BY DEF AllSmsInv
  <2>1. ~session'[m].open /\ \A stage : ~InState(m, stage)'
    BY <1>0 DEF NoSession, NewSession, InState
  <2>2. m \notin chargeReq
    BY <2>0 DEF SmsInv, ChargeOK, InState
  <2>3. /\ InIo(m)' = InIo(m) /\ InReback(m)' = InReback(m) /\ InChannel(m)' = InChannel(m)
        /\ ~Owned(m)' /\ ~Owned(m) /\ Audited(m)' = Audited(m) /\ Nowhere(m)' = Nowhere(m)
    BY <1>0, <2>1 DEF InIo, InReback, InChannel, Owned, Audited, Awaits, Nowhere
  <2>4. OnePlace(m)'
    BY <1>0, <2>0, <2>3 DEF SmsInv, OnePlace, AtMostOne
  <2>5. SessionOK(m)'
    BY <2>1 DEF SessionOK
  <2>6. OverOK(m)'
    BY <1>0, <2>0, <2>1, <2>3 DEF SmsInv, OverOK, InState
  <2>7. ChargeOK(m)'
    BY <1>0, <2>0, <2>1, <2>2, <2>3 DEF SmsInv, ChargeOK
  <2>8. VerdictOK(m)'
    BY <1>0, <2>0, <2>1, <2>3 DEF SmsInv, VerdictOK
  <2>9. QED
    BY <2>4, <2>5, <2>6, <2>7, <2>8 DEF SmsInv
<1>3. QED
  BY <1>1, <1>2 DEF AllSmsInv

-----------------------------------------------------------------------------
(* The timer.  The SMS is reported; the audit or the over-rate check may   *)
(* still be at work on it.                                                 *)
TimedOut(m) ==
    /\ session[m].open /\ ~session[m].reback
    /\ session' = [session EXCEPT ![m] = NoSession]
    /\ UNCHANGED <<config_vars, ioMq, rebackMq, channelMq, auditReq, chargeReq, auditHeld,
                   redis_vars>>
    /\ over'[m] = IF session[m].overState /\ ~session[m].plan THEN NoOver ELSE over[m]
    /\ OverRateSetPosted(m, [session[m] EXCEPT !.initial = FALSE])
    /\ \A n \in Sms : n # m => over'[n] = over[n] /\ log'[n] = log[n]
    /\ log'[m].rep = log[m].rep + 1 /\ log[m].rep \in Nat /\ log'[m] \in LogType
    /\ log'[m].lost <=> log[m].lost
    /\ log'[m].unsent = log[m].unsent
    /\ log'[m].unheard <=> log[m].unheard
    /\ log'[m].unit <=> log[m].unit
    /\ log'[m].late <=> log[m].late \/ session[m].stage = "AUDIT"
    /\ log'[m].leaked <=> log[m].leaked \/ session[m].stage = "OVERRATE"
    /\ log'[m].charged = log[m].charged /\ log'[m].delivered = log[m].delivered

LEMMA TimeOutFacts ==
    ASSUME TypeInv, NEW m \in Sms, HandleTimeOut(m)
    PROVE  TimedOut(m)
<1> DEFINE s == [session[m] EXCEPT !.initial = FALSE]
<1>1. /\ Finish(m, s, ioMq, rebackMq, TRUE) /\ UNCHANGED <<config_vars, auditHeld, redis_vars>>
      /\ session[m].open /\ ~session[m].reback
  BY DEF HandleTimeOut
<1>2. session[m] \in SessionType /\ log[m] \in LogType
  BY DEF TypeInv, SessionTypeOK, LogTypeOK
<1>3. /\ s.initial = FALSE /\ s.push = "REPORT" /\ s.overState = session[m].overState
      /\ s.plan = session[m].plan /\ s.stage = session[m].stage
  BY <1>2 DEF SessionType
<1>q. PICK queue \in BOOLEAN : /\ channelMq' = Published(m, s, queue)
                               /\ log' = [log EXCEPT ![m] = Logged(m, s, TRUE, queue)]
  BY <1>1 DEF Finish
<1>4. OverRateSetPosted(m, s) /\ log' = [log EXCEPT ![m] = Logged(m, s, TRUE, queue)]
  BY <1>1, <1>q DEF Finish
<1> HIDE DEF s
<1>p. ~Publishes(s, queue)
  BY <1>3 DEF Publishes
<1>5. UNCHANGED <<ioMq, rebackMq, channelMq, auditReq, chargeReq>>
  BY <1>1, <1>3, <1>q, <1>p DEF Finish, Published, Requeued, SentBack, request_vars
<1>6. /\ over'[m] = IF session[m].overState /\ ~session[m].plan THEN NoOver ELSE over[m]
      /\ \A n \in Sms : n # m => over'[n] = over[n]
  BY <1>3, <1>4, FinishOver
<1>7. /\ log'[m].rep = log[m].rep + 1 /\ log'[m] \in LogType
      /\ log'[m].lost <=> log[m].lost
      /\ log'[m].unsent = log[m].unsent
      /\ log'[m].unheard <=> log[m].unheard
      /\ log'[m].unit <=> log[m].unit
      /\ log'[m].late <=> log[m].late \/ session[m].stage = "AUDIT"
      /\ log'[m].leaked <=> log[m].leaked \/ session[m].stage = "OVERRATE"
      /\ log'[m].charged = log[m].charged /\ log'[m].delivered = log[m].delivered
      /\ \A n \in Sms : n # m => log'[n] = log[n]
  <2>1. Entered(m, s, TRUE, queue) /\ \A n \in Sms : n # m => log'[n] = log[n]
    BY <1>4, FinishLog
  <2>2. QED
    BY <1>3, <2>1 DEF Entered
<1>8. log[m].rep \in Nat /\ session' = [session EXCEPT ![m] = NoSession]
  BY <1>1, <1>2 DEF LogType, Finish
<1>9. OverRateSetPosted(m, [session[m] EXCEPT !.initial = FALSE])
  BY <1>4 DEF s
<1>10. QED
  BY <1>1, <1>5, <1>6, <1>7, <1>8, <1>9 DEF TimedOut

LEMMA TimeOutKeeps ==
    ASSUME TypeInv, AllSmsInv, NEW m \in Sms, HandleTimeOut(m)
    PROVE  AllSmsInv'
<1>t. TimedOut(m)
  BY TimeOutFacts
<1>0. /\ session \in [Sms -> SessionType] /\ session' = [session EXCEPT ![m] = NoSession]
      /\ UNCHANGED <<account, ioMq, rebackMq, channelMq, auditReq, chargeReq, auditHeld>>
  BY <1>t DEF TypeInv, SessionTypeOK, config_vars, TimedOut
<1>l. /\ log'[m].rep = log[m].rep + 1 /\ log[m].rep \in Nat /\ log'[m] \in LogType
      /\ log'[m].lost <=> log[m].lost
      /\ log'[m].unsent = log[m].unsent
      /\ log'[m].unheard <=> log[m].unheard
      /\ log'[m].unit <=> log[m].unit
      /\ log'[m].late <=> log[m].late \/ session[m].stage = "AUDIT"
      /\ log'[m].leaked <=> log[m].leaked \/ session[m].stage = "OVERRATE"
      /\ log'[m].charged = log[m].charged /\ log'[m].delivered = log[m].delivered
  BY <1>t DEF TimedOut
<1>s. /\ session[m].open /\ ~session[m].reback
      /\ over'[m] = IF session[m].overState /\ ~session[m].plan THEN NoOver ELSE over[m]
  BY <1>t DEF TimedOut
<1>1. ASSUME NEW n \in Sms, n # m
      PROVE  SmsInv(n)'
  <2>1. Same(n)
    BY <1>0, <1>1, <1>t DEF Same, TimedOut
  <2>2. QED
    BY <2>1, SameKeeps DEF AllSmsInv
<1>2. SmsInv(m)'
  <2> DEFINE st == session[m].stage
  <2>0. SmsInv(m) /\ StageOK(m, session[m], st) /\ session[m].ans \in AnswersOf(st)
    BY <1>s, OwnedFacts
  <2>1. ~session'[m].open /\ \A stage : ~InState(m, stage)'
    BY <1>0 DEF NoSession, NewSession, InState
  <2>2. /\ (InIo(m)' <=> InIo(m)) /\ (InReback(m)' <=> InReback(m))
        /\ (InChannel(m)' <=> InChannel(m)) /\ ~Owned(m)' /\ (Audited(m)' <=> m \in auditReq)
    BY <1>0, <2>1 DEF InIo, InReback, InChannel, Owned, Audited, Awaits
  <2>3. m \in auditReq /\ Owned(m) => st = "AUDIT"
    BY <2>0 DEF SmsInv, OnePlace, Audited, Awaits, InState
  <2>4. CASE Owned(m)
    <3>1. ~InIo(m) /\ ~InReback(m) /\ ~InChannel(m) /\ m \notin auditHeld
      BY <2>0, <2>4 DEF SmsInv, OnePlace
    <3>2. Nowhere(m)' <=> m \notin auditReq
      BY <1>0, <2>2, <3>1 DEF Nowhere
    <3>3. ~Nowhere(m) /\ ~log[m].leaked /\ log[m].delivered = NoChannel
          /\ log[m].unsent = NoChannel /\ (~log[m].late => log[m].rep = 0)
      BY <2>0, <2>4 DEF SmsInv, Nowhere, OverOK, VerdictOK
    <3>4. OnePlace(m)'
      BY <1>0, <2>0, <2>2, <3>1 DEF SmsInv, OnePlace, AtMostOne
    <3>5. SessionOK(m)'
      BY <2>1 DEF SessionOK
    <3>6. OverOK(m)'
      <4>1. st = "OVERRATE" => m \notin auditReq
        BY <2>3, <2>4
      <4>2. over'[m].at # "NONE" => over'[m] = over[m] /\ st = "OVERRATE"
        BY <1>s, <2>0, <3>3 DEF SmsInv, OverOK, NoOver, InState, StageOK
      <4>3. over'[m].at # "NONE" => log'[m].leaked
        BY <1>l, <4>2
      <4>4. log'[m].leaked => Nowhere(m)'
        BY <1>l, <3>2, <3>3, <4>1
      <4>5. /\ over'[m].at # "NONE" => over'[m].chan \in Channels
            /\ over'[m].at \in {"GLOBAL", "CONTENT"} => over'[m].global
            /\ over'[m].global /\ over'[m].at # "NONE" => ~log'[m].unit
        BY <1>l, <2>0, <4>2 DEF SmsInv, OverOK
      <4>6. QED
        BY <2>1, <4>3, <4>4, <4>5 DEF OverOK
    <3>7. ChargeOK(m)'
      <4>1. Audited(m)' => log[m].charged = 0 /\ ~log[m].unit
        BY <1>s, <2>0, <2>2, <2>3, <2>4 DEF StageOK
      <4>2. m \in chargeReq => log[m].charged = 0 /\ m \notin auditReq
        BY <2>0, <2>3, <2>4, <3>3 DEF SmsInv, ChargeOK, InState
      <4>3. log[m].charged <= 1
        BY <2>0 DEF SmsInv, ChargeOK
      <4>4. QED
        BY <1>0, <1>l, <2>1, <2>2, <3>1, <3>2, <3>3, <4>1, <4>2, <4>3 DEF ChargeOK
    <3>8. VerdictOK(m)'
      <4>1. \A q \in Of(m, rebackMq)' : q.again => q.count >= 2
        BY <1>0, <2>0 DEF SmsInv, VerdictOK
      <4>2. log'[m].rep > 0 /\ log'[m].rep \in Nat
        BY <1>l DEF LogType
      <4>3. ~log'[m].late => log'[m].rep = 1 /\ Nowhere(m)'
        BY <1>l, <2>3, <2>4, <3>2, <3>3
      <4>4. QED
        BY <1>0, <1>l, <2>1, <2>2, <3>2, <3>3, <4>1, <4>2, <4>3, AccessAssumption DEF VerdictOK
    <3>9. QED
      BY <3>4, <3>5, <3>6, <3>7, <3>8 DEF SmsInv
  <2>5. CASE ~Owned(m)
    <3>1. session[m].ans = "HELD" /\ st = "AUDIT"
      BY <1>s, <2>0, <2>5 DEF Owned, AnswersOf, StageOK, Stages
    <3>2. m \notin chargeReq /\ (Audited(m) <=> m \in auditReq)
      BY <1>s, <2>0, <3>1 DEF SmsInv, ChargeOK, InState, Audited, Awaits
    <3>3. Nowhere(m)' <=> Nowhere(m)
      BY <1>0, <2>2, <2>5, <3>2 DEF Nowhere
    <3>4. OnePlace(m)'
      BY <1>0, <2>0, <2>2, <3>2 DEF SmsInv, OnePlace, AtMostOne
    <3>5. SessionOK(m)'
      BY <2>1 DEF SessionOK
    <3>6. OverOK(m)'
      <4>1. over'[m] = over[m]
        BY <1>s, <2>0, <3>1 DEF StageOK
      <4>2. log'[m].leaked <=> log[m].leaked
        BY <1>l, <3>1
      <4>3. QED
        BY <1>l, <2>0, <2>1, <3>1, <3>3, <4>1, <4>2 DEF SmsInv, OverOK, InState
    <3>7. ChargeOK(m)'
      BY <1>0, <1>l, <2>0, <2>1, <2>2, <3>2, <3>3 DEF SmsInv, ChargeOK
    <3>8. VerdictOK(m)'
      <4>1. log'[m].late /\ log'[m].rep > 0
        BY <1>l, <3>1
      <4>2. QED
        BY <1>0, <1>l, <2>0, <2>1, <2>2, <3>2, <3>3, <4>1 DEF SmsInv, VerdictOK
    <3>9. QED
      BY <3>4, <3>5, <3>6, <3>7, <3>8 DEF SmsInv
  <2>6. QED
    BY <2>4, <2>5
<1>3. QED
  BY <1>1, <1>2 DEF AllSmsInv

-----------------------------------------------------------------------------
(* The audit, the charge server, the send component.                       *)
LEMMA AnsweredFacts ==
    ASSUME TypeInv, NEW m \in Sms, NEW stage, NEW r, Answered(m, stage, r)
    PROVE  /\ \A n \in Sms : n # m => session'[n] = session[n]
           /\ ~(InState(m, stage) /\ session[m].ans = "NONE") => session'[m] = session[m]
           /\ InState(m, stage) /\ session[m].ans = "NONE" => session'[m].ans = r
           /\ session'[m].open = session[m].open /\ session'[m].stage = session[m].stage
           /\ session'[m].reback = session[m].reback /\ session'[m].count = session[m].count
           /\ session'[m].chan = session[m].chan /\ session'[m].initial = session[m].initial
           /\ session'[m].overState = session[m].overState /\ session'[m].plan = session[m].plan
           /\ session'[m].push = session[m].push /\ session'[m].origin = session[m].origin
<1>1. session \in [Sms -> SessionType]
  BY DEF TypeInv, SessionTypeOK
<1>2. CASE InState(m, stage) /\ session[m].ans = "NONE"
  <2>1. session' = [session EXCEPT ![m] = [session[m] EXCEPT !.ans = r]]
    BY <1>2 DEF Answered
  <2>2. QED
    BY <1>1, <1>2, <2>1 DEF SessionType
<1>3. CASE ~(InState(m, stage) /\ session[m].ans = "NONE")
  BY <1>3 DEF Answered
<1>4. QED
  BY <1>2, <1>3

(* The stage of a session does not depend on the answer it waits for.      *)
LEMMA AnsweredStage ==
    ASSUME TypeInv, NEW m \in Sms, NEW stage, NEW r, Answered(m, stage, r),
           UNCHANGED account, over'[m] = over[m] \/ ~session[m].overState,
           log'[m].unit = log[m].unit,
           log'[m].charged = log[m].charged \/ session[m].stage = "CHARGE",
           session[m].stage = "CHARGE" => ~session[m].reback,
           StageOK(m, session[m], session[m].stage)
    PROVE  StageOK(m, session[m], session[m].stage)'
BY AnsweredFacts DEF StageOK

(* What the audit thread's answer leaves in the log.                       *)
HeardLog(m, r) ==
    /\ \A n \in Sms : n # m => log'[n] = log[n]
    /\ log'[m].rep = log[m].rep /\ log'[m].charged = log[m].charged
    /\ log'[m].delivered = log[m].delivered /\ log'[m].unsent = log[m].unsent
    /\ log'[m].lost = log[m].lost /\ log'[m].unit = log[m].unit
    /\ log'[m].late = log[m].late /\ log'[m].leaked = log[m].leaked
    /\ log'[m].unheard <=> log[m].unheard \/ (r # "HELD" /\ ~Awaits(m))
    /\ log[m] \in LogType /\ log'[m] \in LogType

LEMMA HeardOrNot ==
    ASSUME TypeInv, NEW m \in Sms, NEW r, AuditThread(m, r)
    PROVE  HeardLog(m, r)
<1> DEFINE b == log[m].unheard \/ (r # "HELD" /\ ~Awaits(m))
<1>1. log \in [Sms -> LogType]
  BY DEF TypeInv, LogTypeOK
<1>2. log' = [log EXCEPT ![m] = [log[m] EXCEPT !.unheard = b]] /\ b \in BOOLEAN
  BY <1>1 DEF AuditThread
<1> HIDE DEF b
<1>3. /\ log'[m] = [log[m] EXCEPT !.unheard = b] /\ \A n \in Sms : n # m => log'[n] = log[n]
      /\ log[m] \in LogType
  BY <1>1, <1>2
<1>4. /\ log'[m].rep = log[m].rep /\ log'[m].charged = log[m].charged
      /\ log'[m].delivered = log[m].delivered /\ log'[m].unsent = log[m].unsent
      /\ log'[m].lost = log[m].lost /\ log'[m].unit = log[m].unit
      /\ log'[m].late = log[m].late /\ log'[m].leaked = log[m].leaked
      /\ log'[m].unheard = b /\ log'[m] \in LogType
  BY <1>2, <1>3 DEF LogType
<1>5. QED
  BY <1>3, <1>4 DEF HeardLog, b

LEMMA AuditKeeps ==
    ASSUME TypeInv, AllSmsInv, NEW m \in Sms, NEW r, AuditThread(m, r)
    PROVE  AllSmsInv'
<1>0. /\ m \in auditReq /\ r \in {"PASS", "FAIL", "HELD"} /\ auditReq' = auditReq \ {m}
      /\ auditHeld' = IF r = "HELD" THEN auditHeld \cup {m} ELSE auditHeld
      /\ Answered(m, "AUDIT", r)
      /\ UNCHANGED <<account, ioMq, rebackMq, channelMq, chargeReq, over>>
  BY DEF AuditThread, Kept, mq_vars, config_vars, rate_vars
<1>a. /\ \A n \in Sms : n # m => session'[n] = session[n]
      /\ ~(InState(m, "AUDIT") /\ session[m].ans = "NONE") => session'[m] = session[m]
      /\ InState(m, "AUDIT") /\ session[m].ans = "NONE" => session'[m].ans = r
      /\ session'[m].open = session[m].open /\ session'[m].stage = session[m].stage
      /\ session'[m].overState = session[m].overState /\ session'[m].reback = session[m].reback
  BY <1>0, AnsweredFacts
<1>l. HeardLog(m, r)
  BY HeardOrNot
<1>1. ASSUME NEW n \in Sms, n # m
      PROVE  SmsInv(n)'
  <2>1. Same(n)
    BY <1>0, <1>1, <1>a, <1>l DEF Same, HeardLog
  <2>2. QED
    BY <2>1, SameKeeps DEF AllSmsInv
<1>2. SmsInv(m)'
  <2>0. SmsInv(m)
    BY DEF AllSmsInv
  <2>l. /\ log'[m].rep = log[m].rep /\ log'[m].charged = log[m].charged
        /\ log'[m].delivered = log[m].delivered /\ log'[m].unsent = log[m].unsent
        /\ (log'[m].lost <=> log[m].lost) /\ log'[m].unit = log[m].unit
        /\ (log'[m].late <=> log[m].late) /\ (log'[m].leaked <=> log[m].leaked)
        /\ (log'[m].unheard <=> log[m].unheard \/ (r # "HELD" /\ ~Awaits(m)))
    BY <1>l DEF HeardLog
  <2>2. /\ (InIo(m)' <=> InIo(m)) /\ (InReback(m)' <=> InReback(m))
        /\ (InChannel(m)' <=> InChannel(m)) /\ ~Audited(m)' /\ m \notin auditReq'
        /\ \A stage : InState(m, stage)' <=> InState(m, stage)
    BY <1>0, <1>a DEF InIo, InReback, InChannel, Audited, Awaits, InState
  <2>3. CASE Awaits(m)
    <3>1. /\ Owned(m) /\ session'[m].ans = r /\ session[m].open /\ session[m].stage = "AUDIT"
          /\ InState(m, "AUDIT")
      BY <1>a, <2>3 DEF Owned, Awaits, InState
    <3>2. ~InIo(m) /\ ~InReback(m) /\ ~InChannel(m) /\ m \notin auditHeld
      BY <2>0, <3>1 DEF SmsInv, OnePlace
    <3>3. (Owned(m)' <=> r # "HELD") /\ (m \in auditHeld' <=> r = "HELD")
      BY <1>0, <1>a, <3>1, <3>2 DEF Owned
    <3>4. ~Nowhere(m)' /\ ~Nowhere(m)
      BY <3>1, <3>3 DEF Nowhere
    <3>5. OnePlace(m)'
      BY <1>0, <2>0, <2>2, <3>2, <3>3 DEF SmsInv, OnePlace, AtMostOne
    <3>6. SessionOK(m)'
      <4>1. StageOK(m, session[m], session[m].stage)'
        BY <1>0, <2>0, <2>l, <3>1, AnsweredStage DEF SmsInv, SessionOK, StageOK
      <4>2. QED
        BY <1>0, <1>a, <2>2, <3>1, <4>1 DEF SessionOK, AnswersOf
    <3>7. OverOK(m)'
      BY <1>0, <2>0, <2>2, <2>l, <3>1, <3>4 DEF SmsInv, OverOK, InState
    <3>8. ChargeOK(m)'
      <4>1. log[m].charged = 0 /\ ~log[m].unit /\ m \notin chargeReq
        BY <2>0, <3>1, <3>4 DEF SmsInv, SessionOK, StageOK, ChargeOK, InState
      <4>2. QED
        BY <1>0, <2>0, <2>2, <2>l, <3>1, <4>1 DEF SmsInv, ChargeOK, InState
    <3>9. VerdictOK(m)'
      BY <1>0, <1>a, <2>0, <2>2, <2>l, <3>4 DEF SmsInv, VerdictOK
    <3>10. QED
      BY <3>5, <3>6, <3>7, <3>8, <3>9 DEF SmsInv
  <2>4. CASE ~Awaits(m)
    <3>1. Audited(m) /\ ~Nowhere(m) /\ session'[m] = session[m]
      BY <1>0, <1>a, <2>4 DEF Audited, Awaits, Nowhere
    <3>2. ~InIo(m) /\ ~InReback(m) /\ ~InChannel(m) /\ ~Owned(m) /\ m \notin auditHeld
      BY <2>0, <3>1 DEF SmsInv, OnePlace
    <3>3. ~Owned(m)' /\ (m \in auditHeld' <=> r = "HELD")
      BY <1>0, <3>1, <3>2 DEF Owned
    <3>4. session[m].open => session[m].stage = "AUDIT"
      BY <2>0, <3>2 DEF SmsInv, SessionOK, AnswersOf, Owned, StageOK, Stages
    <3>5. OnePlace(m)'
      BY <1>0, <2>0, <2>2, <3>2, <3>3 DEF SmsInv, OnePlace, AtMostOne
    <3>6. SessionOK(m)'
      <4>1. StageOK(m, session[m], session[m].stage)' <=> StageOK(m, session[m], session[m].stage)
        BY <1>0, <2>l, <3>1 DEF StageOK
      <4>2. QED
        BY <2>0, <2>2, <3>1, <4>1 DEF SmsInv, SessionOK
    <3>7. OverOK(m)'
      BY <1>0, <2>0, <2>2, <2>l, <3>1 DEF SmsInv, OverOK
    <3>8. ChargeOK(m)'
      BY <1>0, <2>0, <2>2, <2>l, <3>1, <3>3, <3>4 DEF SmsInv, ChargeOK, InState
    <3>9. VerdictOK(m)'
      <4>1. Nowhere(m)' => log'[m].unheard
        BY <2>4, <2>l, <3>3 DEF Nowhere
      <4>2. log[m].delivered = NoChannel /\ log[m].unsent = NoChannel
        BY <2>0, <3>1 DEF SmsInv, VerdictOK
      <4>3. QED
        BY <1>0, <2>0, <2>2, <2>l, <3>1, <4>1, <4>2 DEF SmsInv, VerdictOK
    <3>10. QED
      BY <3>5, <3>6, <3>7, <3>8, <3>9 DEF SmsInv
  <2>5. QED
    BY <2>3, <2>4
<1>3. QED
  BY <1>1, <1>2 DEF AllSmsInv

LEMMA AuditResultKeeps ==
    ASSUME TypeInv, AllSmsInv, NEW m \in Sms, AuditResult(m)
    PROVE  AllSmsInv'
<1>0. /\ m \in auditHeld /\ auditHeld' = auditHeld \ {m}
      /\ UNCHANGED <<account, session, rebackMq, channelMq, chargeReq, over>>
      /\ log \in [Sms -> LogType]
  BY DEF AuditResult, config_vars, rate_vars, TypeInv, LogTypeOK
<1>1. \/ auditReq' = auditReq /\ log' = log /\ \E q : q.sms = m /\ ioMq' = ioMq \cup {q}
      \/ auditReq' = auditReq /\ ioMq' = ioMq /\ log' = [log EXCEPT ![m].rep = @ + 1]
      \/ auditReq' = auditReq \cup {m} /\ ioMq' = ioMq /\ log' = log
  <2> DEFINE q == [sms |-> m, audited |-> TRUE, routed |-> 0]
  <2>1. q.sms = m
    OBVIOUS
  <2>2. \/ auditReq' = auditReq /\ log' = log /\ ioMq' = ioMq \cup {q}
        \/ auditReq' = auditReq /\ ioMq' = ioMq /\ log' = [log EXCEPT ![m].rep = @ + 1]
        \/ auditReq' = auditReq \cup {m} /\ ioMq' = ioMq /\ log' = log
    BY DEF AuditResult, Reaudited
  <2>3. QED
    BY <2>1, <2>2
<1>2. ASSUME NEW n \in Sms, n # m
      PROVE  SmsInv(n)'
  <2>1. Same(n)
    BY <1>0, <1>1, <1>2 DEF Same, Of
  <2>2. QED
    BY <2>1, SameKeeps DEF AllSmsInv
<1>3. SmsInv(m)'
  <2>0. SmsInv(m) /\ ~Nowhere(m)
    BY <1>0 DEF AllSmsInv, Nowhere
  <2>1. ~InIo(m) /\ ~InReback(m) /\ ~InChannel(m) /\ ~Owned(m) /\ ~Audited(m)
    BY <1>0, <2>0 DEF SmsInv, OnePlace
  <2>2. session[m].open => session[m].stage = "AUDIT" /\ session[m].ans = "HELD"
    BY <2>0, <2>1 DEF SmsInv, SessionOK, StageOK, Stages, AnswersOf, Owned
  <2>3. m \notin chargeReq /\ m \notin auditReq
    BY <2>0, <2>1, <2>2 DEF SmsInv, ChargeOK, SessionOK, Audited, Awaits, InState
  <2>4. /\ log[m].charged = 0 /\ ~log[m].unit /\ log[m].delivered = NoChannel
        /\ log[m].unsent = NoChannel
        /\ (~log[m].late => log[m].rep = 0) /\ ~log[m].leaked /\ over[m].at = "NONE"
    BY <1>0, <2>0, <2>2 DEF SmsInv, ChargeOK, OverOK, VerdictOK, InState
  <2>5. /\ ~InReback(m)' /\ ~InChannel(m)' /\ ~Owned(m)' /\ m \notin auditHeld'
        /\ (Audited(m)' <=> m \in auditReq') /\ (InIo(m)' <=> ioMq' # ioMq)
        /\ m \notin chargeReq' /\ \A stage : InState(m, stage)' <=> InState(m, stage)
    <3>1. ~Awaits(m)
      BY <2>2 DEF Awaits, InState
    <3>2. InIo(m)' <=> ioMq' # ioMq
      BY <1>1, <2>1 DEF InIo, Of
    <3>3. QED
      BY <1>0, <2>1, <2>3, <3>1, <3>2 DEF InReback, InChannel, Owned, Audited, Awaits, InState
  <2>6. log[m] \in LogType /\ log[m].rep \in Nat
    BY <1>0 DEF LogType
  <2>7. CASE auditReq' = auditReq /\ log' = log /\ \E q : q.sms = m /\ ioMq' = ioMq \cup {q}
    <3>1. PICK q : q.sms = m /\ ioMq' = ioMq \cup {q}
      BY <2>7
    <3>2. Of(m, ioMq)' = {q} /\ InIo(m)' /\ ~Nowhere(m)'
      BY <2>1, <3>1 DEF Of, InIo, Nowhere
    <3>3. OnePlace(m)'
      BY <1>0, <2>0, <2>3, <2>5, <2>7, <3>2 DEF SmsInv, OnePlace, AtMostOne
    <3>4. SessionOK(m)'
      BY <1>0, <2>0, <2>7 DEF SmsInv, SessionOK, StageOK, AnswersOf
    <3>5. OverOK(m)'
      BY <1>0, <2>0, <2>2, <2>4, <2>5, <2>7 DEF SmsInv, OverOK, InState
    <3>6. ChargeOK(m)'
      BY <1>0, <2>2, <2>4, <2>5, <2>7 DEF SmsInv, ChargeOK, InState
    <3>7. VerdictOK(m)'
      BY <1>0, <2>0, <2>4, <2>5, <2>7, <3>2 DEF SmsInv, VerdictOK
    <3>8. QED
      BY <3>3, <3>4, <3>5, <3>6, <3>7 DEF SmsInv
  <2>8. CASE auditReq' = auditReq /\ ioMq' = ioMq /\ log' = [log EXCEPT ![m].rep = @ + 1]
    <3>1. /\ log'[m].rep = log[m].rep + 1 /\ log'[m].lost = log[m].lost
          /\ log'[m].unit = log[m].unit /\ log'[m].charged = log[m].charged
          /\ log'[m].delivered = log[m].delivered /\ log'[m].late = log[m].late
          /\ log'[m].leaked = log[m].leaked /\ log'[m].unsent = log[m].unsent
      BY <1>0, <2>6, <2>8 DEF LogType
    <3>2. Nowhere(m)' /\ ~InIo(m)' /\ ~Audited(m)'
      BY <2>1, <2>3, <2>5, <2>8 DEF InIo, Nowhere
    <3>3. OnePlace(m)'
      BY <1>0, <2>0, <2>5, <2>8, <3>2 DEF SmsInv, OnePlace, AtMostOne
    <3>4. SessionOK(m)'
      BY <1>0, <2>0, <2>8, <3>1 DEF SmsInv, SessionOK, StageOK, AnswersOf
    <3>5. OverOK(m)'
      BY <1>0, <2>0, <2>2, <2>4, <2>5, <3>1, <3>2 DEF SmsInv, OverOK, InState
    <3>6. ChargeOK(m)'
      BY <1>0, <2>2, <2>4, <2>5, <3>1, <3>2 DEF SmsInv, ChargeOK, InState
    <3>7. VerdictOK(m)'
      BY <1>0, <2>0, <2>4, <2>5, <2>6, <3>1, <3>2 DEF SmsInv, VerdictOK
    <3>8. QED
      BY <3>3, <3>4, <3>5, <3>6, <3>7 DEF SmsInv
  <2>9. CASE auditReq' = auditReq \cup {m} /\ ioMq' = ioMq /\ log' = log
    <3>1. Audited(m)' /\ ~Nowhere(m)' /\ ~InIo(m)'
      BY <2>5, <2>9 DEF Nowhere
    <3>2. OnePlace(m)'
      BY <1>0, <2>0, <2>5, <2>9, <3>1 DEF SmsInv, OnePlace, AtMostOne
    <3>3. SessionOK(m)'
      BY <1>0, <2>0, <2>2, <2>9 DEF SmsInv, SessionOK, StageOK, AnswersOf
    <3>4. OverOK(m)'
      BY <1>0, <2>0, <2>2, <2>4, <2>5, <2>9 DEF SmsInv, OverOK, InState
    <3>5. ChargeOK(m)'
      BY <1>0, <2>2, <2>4, <2>5, <2>9, <3>1 DEF SmsInv, ChargeOK, InState
    <3>6. VerdictOK(m)'
      BY <1>0, <2>0, <2>4, <2>5, <2>9, <3>1 DEF SmsInv, VerdictOK
    <3>7. QED
      BY <3>2, <3>3, <3>4, <3>5, <3>6 DEF SmsInv
  <2>10. QED
    BY <1>1, <2>7, <2>8, <2>9
<1>4. QED
  BY <1>2, <1>3 DEF AllSmsInv

LEMMA ChargeServerKeeps ==
    ASSUME TypeInv, AllSmsInv, NEW m \in Sms, ChargeServer(m)
    PROVE  AllSmsInv'
<1>1. PICK paid \in BOOLEAN, r \in {"OK", "FAIL"} :
         /\ r = "OK" => paid
         /\ log' = [log EXCEPT ![m].charged = IF paid THEN @ + 1 ELSE @]
         /\ Answered(m, "CHARGE", r)
  BY DEF ChargeServer
<1>0. /\ m \in chargeReq /\ chargeReq' = chargeReq \ {m} /\ log \in [Sms -> LogType]
      /\ UNCHANGED <<account, ioMq, rebackMq, channelMq, auditReq, auditHeld, over>>
  BY DEF ChargeServer, mq_vars, config_vars, rate_vars, TypeInv, LogTypeOK
<1>a. /\ \A n \in Sms : n # m => session'[n] = session[n]
      /\ ~(InState(m, "CHARGE") /\ session[m].ans = "NONE") => session'[m] = session[m]
      /\ InState(m, "CHARGE") /\ session[m].ans = "NONE" => session'[m].ans = r
      /\ session'[m].open = session[m].open /\ session'[m].stage = session[m].stage
      /\ session'[m].overState = session[m].overState /\ session'[m].reback = session[m].reback
  BY <1>1, AnsweredFacts
<1>2. ASSUME NEW n \in Sms, n # m
      PROVE  SmsInv(n)'
  <2>1. Same(n)
    BY <1>0, <1>1, <1>2, <1>a DEF Same
  <2>2. QED
    BY <2>1, SameKeeps DEF AllSmsInv
<1>3. SmsInv(m)'
  <2>0. SmsInv(m) /\ log[m].charged = 0
    BY <1>0 DEF AllSmsInv, SmsInv, ChargeOK
  <2>1. /\ log'[m].charged \in {0, 1} /\ (r = "OK" => log'[m].charged = 1)
        /\ log'[m].rep = log[m].rep /\ log'[m].lost = log[m].lost /\ log'[m].unit = log[m].unit
        /\ log'[m].delivered = log[m].delivered /\ log'[m].late = log[m].late
        /\ log'[m].leaked = log[m].leaked /\ log'[m].unsent = log[m].unsent
        /\ log'[m].unheard = log[m].unheard
    <3>1. log[m] \in LogType
      BY <1>0
    <3>2. CASE paid
      BY <1>0, <1>1, <2>0, <3>1, <3>2 DEF LogType
    <3>3. CASE ~paid
      BY <1>0, <1>1, <2>0, <3>1, <3>3 DEF LogType
    <3>4. QED
      BY <3>2, <3>3
  <2>2. /\ (InIo(m)' <=> InIo(m)) /\ (InReback(m)' <=> InReback(m))
        /\ (InChannel(m)' <=> InChannel(m)) /\ (Audited(m)' <=> Audited(m)) /\ m \notin chargeReq'
        /\ \A stage : InState(m, stage)' <=> InState(m, stage)
    BY <1>0, <1>a DEF InIo, InReback, InChannel, Audited, Awaits, InState
  <2>3. Owned(m)' <=> Owned(m)
    BY <1>1, <1>a DEF Owned
  <2>4. Nowhere(m)' <=> Nowhere(m)
    BY <1>0, <2>2, <2>3 DEF Nowhere
  <2>5. OnePlace(m)'
    BY <1>0, <2>0, <2>2, <2>3 DEF SmsInv, OnePlace, AtMostOne
  <2>6. CASE InState(m, "CHARGE") /\ session[m].ans = "NONE"
    <3>1. Owned(m) /\ ~Nowhere(m) /\ session'[m].ans = r /\ session[m].open
          /\ session[m].stage = "CHARGE"
      BY <1>a, <2>6 DEF Owned, Nowhere, InState
    <3>2. ~InIo(m) /\ ~InReback(m) /\ ~InChannel(m) /\ m \notin auditHeld /\ ~Audited(m)
      BY <2>0, <3>1 DEF SmsInv, OnePlace
    <3>3. SessionOK(m)'
      <4>1. StageOK(m, session[m], session[m].stage) /\ ~session[m].reback
        BY <2>0, <3>1 DEF SmsInv, SessionOK, StageOK
      <4>2. StageOK(m, session[m], session[m].stage)'
        BY <1>0, <1>1, <2>1, <3>1, <4>1, AnsweredStage
      <4>3. QED
        BY <1>0, <1>a, <3>1, <4>2 DEF SessionOK, AnswersOf
    <3>4. OverOK(m)'
      BY <1>0, <1>a, <2>0, <2>1, <2>2, <2>4, <2>6, <3>1 DEF SmsInv, OverOK, InState
    <3>5. ChargeOK(m)'
      BY <1>0, <2>0, <2>1, <2>2, <3>1, <3>2 DEF SmsInv, ChargeOK, VerdictOK
    <3>6. VerdictOK(m)'
      BY <1>0, <1>a, <2>0, <2>1, <2>2, <2>4, <3>1 DEF SmsInv, VerdictOK
    <3>7. QED
      BY <2>5, <3>3, <3>4, <3>5, <3>6 DEF SmsInv
  <2>7. CASE ~(InState(m, "CHARGE") /\ session[m].ans = "NONE")
    <3>1. Nowhere(m) /\ ~session[m].open /\ session'[m] = session[m]
      BY <1>0, <1>a, <2>0, <2>7 DEF SmsInv, ChargeOK
    <3>2. SessionOK(m)'
      BY <3>1 DEF SessionOK
    <3>3. OverOK(m)'
      BY <1>0, <2>0, <2>1, <2>2, <2>4, <3>1 DEF SmsInv, OverOK, InState
    <3>4. ChargeOK(m)'
      <4>1. ~InIo(m)' /\ ~InReback(m)' /\ ~InChannel(m)' /\ m \notin auditHeld' /\ ~Audited(m)'
            /\ ~InState(m, "CHARGE")'
        BY <1>0, <2>2, <3>1 DEF Nowhere, InState
      <4>2. log[m].delivered # NoChannel => ~account[m].prepaid
        BY <2>0 DEF SmsInv, ChargeOK
      <4>3. QED
        BY <1>0, <2>1, <2>2, <4>1, <4>2 DEF ChargeOK
    <3>5. VerdictOK(m)'
      BY <1>0, <1>a, <2>0, <2>1, <2>2, <2>4 DEF SmsInv, VerdictOK
    <3>6. QED
      BY <2>5, <3>2, <3>3, <3>4, <3>5 DEF SmsInv
  <2>8. QED
    BY <2>6, <2>7
<1>4. QED
  BY <1>2, <1>3 DEF AllSmsInv

LEMMA DeliverKeeps ==
    ASSUME TypeInv, AllSmsInv, NEW m \in Sms, NEW q \in Of(m, channelMq), Deliver(q)
    PROVE  AllSmsInv'
<1>0. /\ q \in channelMq /\ q.sms = m /\ q.chan \in Channels /\ channelMq' = channelMq \ {q}
      /\ log \in [Sms -> LogType] /\ log' = [log EXCEPT ![m].delivered = q.chan]
      /\ UNCHANGED <<account, ioMq, rebackMq, session, auditReq, chargeReq, auditHeld, over>>
  BY DEF Deliver, Of, config_vars, request_vars, rate_vars, TypeInv, LogTypeOK, MqTypeOK, ChannelMsg
<1>1. ASSUME NEW n \in Sms, n # m
      PROVE  SmsInv(n)'
  <2>1. Same(n)
    BY <1>0, <1>1 DEF Same, Of
  <2>2. QED
    BY <2>1, SameKeeps DEF AllSmsInv
<1>2. SmsInv(m)'
  <2>0. SmsInv(m) /\ InChannel(m) /\ ~Nowhere(m)
    BY DEF AllSmsInv, InChannel, Nowhere
  <2>1. /\ ~InIo(m) /\ ~InReback(m) /\ ~Owned(m) /\ m \notin auditHeld /\ ~Audited(m)
        /\ Of(m, channelMq') = {}
    BY <1>0, <2>0 DEF SmsInv, OnePlace, AtMostOne, Of
  <2>2. /\ ~InIo(m)' /\ ~InReback(m)' /\ ~InChannel(m)' /\ ~Owned(m)' /\ ~Audited(m)'
        /\ Nowhere(m)' /\ \A stage : InState(m, stage)' <=> InState(m, stage)
    BY <1>0, <2>1 DEF InIo, InReback, InChannel, Owned, Audited, Awaits, InState, Nowhere
  <2>3. session[m].open => session[m].stage = "AUDIT" /\ session[m].ans = "HELD"
    BY <2>0, <2>1 DEF SmsInv, SessionOK, StageOK, Stages, AnswersOf, Owned
  <2>4. /\ m \notin chargeReq /\ log[m].delivered = NoChannel /\ (~log[m].late => log[m].rep = 0)
        /\ ~log[m].leaked /\ over[m].at = "NONE" /\ log[m].charged <= 1
        /\ account[m].prepaid => log[m].charged = 1
    BY <2>0, <2>3 DEF SmsInv, ChargeOK, OverOK, VerdictOK, InState
  <2>5. /\ log'[m].delivered = q.chan /\ log'[m].rep = log[m].rep /\ log'[m].lost = log[m].lost
        /\ log'[m].unit = log[m].unit /\ log'[m].charged = log[m].charged
        /\ log'[m].late = log[m].late /\ log'[m].leaked = log[m].leaked
        /\ log[m].rep \in Nat /\ q.chan # NoChannel
    BY <1>0, AccessAssumption DEF LogType
  <2>6. OnePlace(m)'
    BY <1>0, <2>0, <2>1, <2>2 DEF SmsInv, OnePlace, AtMostOne
  <2>7. SessionOK(m)'
    BY <1>0, <2>0, <2>5 DEF SmsInv, SessionOK, StageOK, AnswersOf
  <2>8. OverOK(m)'
    BY <1>0, <2>2, <2>3, <2>4, <2>5 DEF OverOK, InState
  <2>9. ChargeOK(m)'
    BY <1>0, <2>1, <2>2, <2>3, <2>4, <2>5 DEF ChargeOK, InState
  <2>10. VerdictOK(m)'
    BY <1>0, <2>0, <2>2, <2>4, <2>5 DEF SmsInv, VerdictOK
  <2>11. QED
    BY <2>6, <2>7, <2>8, <2>9, <2>10 DEF SmsInv
<1>3. QED
  BY <1>1, <1>2 DEF AllSmsInv

LEMMA SendRebackKeeps ==
    ASSUME TypeInv, AllSmsInv, NEW m \in Sms, NEW q \in Of(m, channelMq), SendReback(q)
    PROVE  AllSmsInv'
<1> DEFINE r == [sms |-> m, count |-> q.count, chan |-> q.chan, again |-> FALSE]
<1>0. /\ q \in channelMq /\ q.sms = m /\ channelMq' = channelMq \ {q} /\ rebackMq' = rebackMq \cup {r}
      /\ UNCHANGED <<account, ioMq, session, auditReq, chargeReq, auditHeld, over, log>>
  BY DEF SendReback, Of, config_vars, request_vars, rate_vars
<1>r. r.sms = m /\ r.again = FALSE
  OBVIOUS
<1> HIDE DEF r
<1>1. ASSUME NEW n \in Sms, n # m
      PROVE  SmsInv(n)'
  <2>1. Same(n)
    BY <1>0, <1>1, <1>r DEF Same, Of
  <2>2. QED
    BY <2>1, SameKeeps DEF AllSmsInv
<1>2. SmsInv(m)'
  <2>0. SmsInv(m) /\ InChannel(m) /\ ~Nowhere(m)
    BY DEF AllSmsInv, InChannel, Nowhere
  <2>1. /\ ~InIo(m) /\ ~InReback(m) /\ ~Owned(m) /\ m \notin auditHeld /\ ~Audited(m)
        /\ Of(m, channelMq') = {} /\ Of(m, rebackMq') = {r}
    BY <1>0, <1>r, <2>0 DEF SmsInv, OnePlace, AtMostOne, Of, InReback
  <2>2. /\ ~InIo(m)' /\ InReback(m)' /\ ~InChannel(m)' /\ ~Owned(m)' /\ ~Audited(m)'
        /\ ~Nowhere(m)' /\ \A stage : InState(m, stage)' <=> InState(m, stage)
    BY <1>0, <2>1 DEF InIo, InReback, InChannel, Owned, Audited, Awaits, InState, Nowhere
  <2>3. session[m].open => session[m].stage = "AUDIT" /\ session[m].ans = "HELD"
    BY <2>0, <2>1 DEF SmsInv, SessionOK, StageOK, Stages, AnswersOf, Owned
  <2>4. /\ m \notin chargeReq /\ log[m].delivered = NoChannel /\ (~log[m].late => log[m].rep = 0)
        /\ ~log[m].leaked /\ over[m].at = "NONE" /\ log[m].charged <= 1
        /\ account[m].prepaid => log[m].charged = 1
    BY <2>0, <2>3 DEF SmsInv, ChargeOK, OverOK, VerdictOK, InState
  <2>6. OnePlace(m)'
    BY <1>0, <2>0, <2>1, <2>2 DEF SmsInv, OnePlace, AtMostOne
  <2>7. SessionOK(m)'
    BY <1>0, <2>0 DEF SmsInv, SessionOK, StageOK, AnswersOf
  <2>8. OverOK(m)'
    BY <1>0, <2>2, <2>3, <2>4 DEF OverOK, InState
  <2>9. ChargeOK(m)'
    BY <1>0, <2>1, <2>2, <2>3, <2>4 DEF ChargeOK, InState
  <2>10. VerdictOK(m)'
    BY <1>0, <1>r, <2>0, <2>1, <2>2, <2>4 DEF SmsInv, VerdictOK
  <2>11. QED
    BY <2>6, <2>7, <2>8, <2>9, <2>10 DEF SmsInv
<1>3. QED
  BY <1>1, <1>2 DEF AllSmsInv

-----------------------------------------------------------------------------
(* The over-rate thread.  Its session goes one step on, ends with a        *)
(* verdict against the SMS, or waits for its end with an OK.               *)
OverMoves(m) ==
    /\ UNCHANGED session
    /\ over[m].at \notin {"NONE", "OK"} /\ over'[m].at \notin {"NONE", "OK"}
    /\ over'[m].global = over[m].global /\ over'[m].chan = over[m].chan
    /\ over'[m].at \in {"GLOBAL", "CONTENT"} => over[m].global
    /\ over'[m].val \in {0, over[m].val, globalCount}
    /\ Holds(over[m]) => Holds(over'[m])
    /\ globalCount' = globalCount + (IF Holds(over'[m]) /\ ~Holds(over[m]) THEN 1 ELSE 0)
    /\ over'[m] \in OverType(Int)

OverRefuses(m) ==
    \E r \in {"GLOBAL", "CONTENT", "CHANNEL"} :
        /\ Answered(m, "OVERRATE", r) /\ over' = [over EXCEPT ![m] = NoOver]
        /\ over[m].at \notin {"NONE", "OK"} /\ (r # "CHANNEL" => over[m].global)
        /\ globalCount' = globalCount - (IF Holds(over[m]) THEN 1 ELSE 0)

OverPasses(m) ==
    /\ Answered(m, "OVERRATE", "OK") /\ over[m].at = "CHANNEL"
    /\ over'[m].at = "OK" /\ over'[m] \in OverType(Int)
    /\ over'[m].global = over[m].global /\ over'[m].chan = over[m].chan
    /\ over'[m].val = over[m].val
    /\ globalCount' = globalCount

OverSteps(m) ==
    /\ UNCHANGED <<mq_vars, config_vars, request_vars, auditHeld, setQ, chanDay, others, otherDay, log>>
    /\ faults' \in 0 .. MaxFaults /\ dayCache' \subseteq Channels
    /\ over' = [over EXCEPT ![m] = over'[m]]
    /\ OverMoves(m) \/ OverRefuses(m) \/ OverPasses(m)

LEMMA OverStepsOn ==
    ASSUME over \in [Sms -> OverType(Int)], NEW m \in Sms, NEW v \in Int,
           NEW at \in {"GLOBAL", "CONTENT"},
           over' = [over EXCEPT ![m].at = at, ![m].val = v]
    PROVE  /\ over'[m].at = at /\ over'[m].global = over[m].global
           /\ over'[m].chan = over[m].chan /\ over'[m].val = v
           /\ over'[m] \in OverType(Int) /\ over' = [over EXCEPT ![m] = over'[m]]
BY DEF OverType

LEMMA OverRateThreadCases ==
    ASSUME TypeInv, AllSmsInv, NEW m \in Sms, OverRateThread(m) \/ ReplyLost(m)
    PROVE  OverSteps(m)
<1>0. /\ over \in [Sms -> OverType(Int)] /\ over[m] \in OverType(Int) /\ globalCount \in Int
      /\ dayCache \subseteq Channels /\ faults \in 0 .. MaxFaults
      /\ over[m].at \in {"GLOBAL", "CONTENT"} => over[m].global
      /\ over[m].at # "NONE" => over[m].chan \in Channels
  BY DEF TypeInv, RateTypeOK, CountTypeOK, AllSmsInv, SmsInv, OverOK
<1> DEFINE Frame == UNCHANGED <<mq_vars, config_vars, request_vars, auditHeld, setQ, chanDay,
                                others, otherDay, log>>
<1>r. ASSUME NEW r \in {"GLOBAL", "CONTENT", "CHANNEL"}, OverRate(m, r),
             over[m].at \notin {"NONE", "OK"}, r = "GLOBAL" <=> over[m].at = "GLOBAL",
             r = "CONTENT" => over[m].at = "CONTENT",
             over[m].at = "POSTED" => ~over[m].global
      PROVE  OverRefuses(m) /\ over' = [over EXCEPT ![m] = over'[m]]
  <2>1. Holds(over[m]) <=> r # "GLOBAL" /\ over[m].global
    BY <1>0, <1>r DEF Holds, OverType
  <2>2. globalCount' = globalCount - (IF Holds(over[m]) THEN 1 ELSE 0)
    BY <1>0, <1>r, <2>1 DEF OverRate
  <2>3. QED
    BY <1>0, <1>r, <2>2 DEF OverRefuses, OverRate
<1>c. ASSUME ChannelCheck(m), over[m].at = "CONTENT" \/ (over[m].at = "POSTED" /\ ~over[m].global)
      PROVE  (OverMoves(m) \/ OverRefuses(m)) /\ over' = [over EXCEPT ![m] = over'[m]]
  <2>1. CASE over[m].chan \in dayCache
    BY <1>c, <1>r, <2>1 DEF ChannelCheck
  <2>2. CASE over[m].chan \notin dayCache
    <3>1. /\ over' = [over EXCEPT ![m].at = "CHANNEL"] /\ UNCHANGED <<session, globalCount>>
      BY <1>c, <2>2 DEF ChannelCheck
    <3>2. /\ over'[m].at = "CHANNEL" /\ over'[m].global = over[m].global
          /\ over'[m].chan = over[m].chan /\ over'[m].val = over[m].val
          /\ over'[m] \in OverType(Int) /\ over' = [over EXCEPT ![m] = over'[m]]
      BY <1>0, <3>1 DEF OverType
    <3>3. Holds(over'[m]) <=> Holds(over[m])
      BY <1>c, <3>2 DEF Holds
    <3>4. QED
      BY <1>0, <1>c, <3>1, <3>2, <3>3 DEF OverMoves
  <2>3. QED
    BY <2>1, <2>2
<1>1. CASE OverRateCheckReq(m)
  <2>1. Frame /\ over[m].at = "POSTED" /\ UNCHANGED <<dayCache, faults>>
    BY <1>1 DEF OverRateCheckReq, env_vars
  <2>2. CASE over[m].global
    <3>1. /\ over' = [over EXCEPT ![m].at = "GLOBAL", ![m].val = globalCount]
          /\ UNCHANGED <<session, globalCount>>
      BY <1>1, <2>2 DEF OverRateCheckReq
    <3>2. /\ over'[m].at = "GLOBAL" /\ over'[m].global = over[m].global
          /\ over'[m].chan = over[m].chan /\ over'[m].val = globalCount
          /\ over'[m] \in OverType(Int) /\ over' = [over EXCEPT ![m] = over'[m]]
      BY <1>0, <3>1 DEF OverType
    <3>3. ~Holds(over'[m]) /\ ~Holds(over[m])
      BY <2>1, <3>2 DEF Holds
    <3>g. globalCount' = globalCount + (IF Holds(over'[m]) /\ ~Holds(over[m]) THEN 1 ELSE 0)
      BY <1>0, <3>1, <3>3
    <3>4. OverMoves(m)
      BY <2>1, <2>2, <3>1, <3>2, <3>3, <3>g DEF OverMoves
    <3>5. QED
      BY <1>0, <2>1, <3>2, <3>4 DEF OverSteps
  <2>3. CASE ~over[m].global
    <3>1. ChannelCheck(m)
      BY <1>1, <2>3 DEF OverRateCheckReq
    <3>2. QED
      BY <1>0, <1>c, <2>1, <2>3, <3>1 DEF OverSteps
  <2>4. QED
    BY <2>2, <2>3
<1>2. CASE GlobalReply(m)
  <2>1. Frame /\ over[m].at = "GLOBAL" /\ UNCHANGED <<dayCache, faults>>
    BY <1>2 DEF GlobalReply, env_vars
  <2>2. CASE OverRate(m, "GLOBAL")
    BY <1>0, <1>r, <2>1, <2>2 DEF OverSteps
  <2>3. CASE /\ over' = [over EXCEPT ![m].at = "CONTENT", ![m].val = 0]
             /\ globalCount' = globalCount + 1 /\ UNCHANGED session
    <3>1. /\ over'[m].at = "CONTENT" /\ over'[m].global = over[m].global
          /\ over'[m].chan = over[m].chan /\ over'[m].val = 0
          /\ over'[m] \in OverType(Int) /\ over' = [over EXCEPT ![m] = over'[m]]
      <4>1. PICK v \in Int : v = 0
        OBVIOUS
      <4>2. over' = [over EXCEPT ![m].at = "CONTENT", ![m].val = v]
        BY <2>3, <4>1
      <4>3. "CONTENT" \in {"GLOBAL", "CONTENT"}
        OBVIOUS
      <4> HIDE <2>3
      <4>4. QED
        BY <1>0, <4>1, <4>2, <4>3, OverStepsOn, ZenonT(60)
    <3>2. Holds(over'[m]) /\ ~Holds(over[m])
      BY <1>0, <2>1, <3>1 DEF Holds
    <3>g. globalCount' = globalCount + (IF Holds(over'[m]) /\ ~Holds(over[m]) THEN 1 ELSE 0)
      BY <2>3, <3>2
    <3>3. OverMoves(m)
      BY <1>0, <2>1, <2>3, <3>1, <3>2, <3>g DEF OverMoves
    <3>4. QED
      BY <1>0, <2>1, <3>1, <3>3 DEF OverSteps
  <2>4. QED
    BY <1>2, <2>2, <2>3 DEF GlobalReply
<1>3. CASE ContentReply(m)
  <2>1. Frame /\ over[m].at = "CONTENT" /\ UNCHANGED <<dayCache, faults>>
    BY <1>3 DEF ContentReply, env_vars
  <2>2. CASE OverRate(m, "CONTENT")
    BY <1>0, <1>r, <2>1, <2>2 DEF OverSteps
  <2>3. CASE ChannelCheck(m)
    BY <1>0, <1>c, <2>1, <2>3 DEF OverSteps
  <2>4. QED
    BY <1>3, <2>2, <2>3 DEF ContentReply
<1>4. CASE ChannelReply(m)
  <2>0. Frame /\ over[m].at = "CHANNEL" /\ UNCHANGED faults
    BY <1>4 DEF ChannelReply, env_vars
  <2>d. dayCache' = dayCache \/ dayCache' = dayCache \cup {over[m].chan}
    BY <1>4 DEF ChannelReply
  <2>1. /\ Frame /\ over[m].at = "CHANNEL" /\ UNCHANGED faults /\ dayCache' \subseteq Channels
    BY <1>0, <2>0, <2>d
  <2>2. CASE OverRate(m, "CHANNEL")
    BY <1>0, <1>r, <2>1, <2>2 DEF OverSteps
  <2>3. CASE /\ Answered(m, "OVERRATE", "OK") /\ over' = [over EXCEPT ![m].at = "OK"]
             /\ UNCHANGED globalCount
    <3>1. /\ over'[m].at = "OK" /\ over'[m].global = over[m].global
          /\ over'[m].chan = over[m].chan /\ over'[m].val = over[m].val
          /\ over'[m] \in OverType(Int) /\ over' = [over EXCEPT ![m] = over'[m]]
      BY <1>0, <2>3 DEF OverType
    <3>2. OverPasses(m)
      BY <2>1, <2>3, <3>1 DEF OverPasses
    <3>3. QED
      BY <1>0, <2>1, <3>1, <3>2 DEF OverSteps
  <2>4. QED
    BY <1>4, <2>2, <2>3 DEF ChannelReply
<1>5. CASE ReplyLost(m)
  <2>0. faults < MaxFaults /\ faults' = faults + 1
    BY <1>5 DEF ReplyLost
  <2>f. faults' \in 0 .. MaxFaults
    BY <1>0, <2>0, AccessAssumption
  <2>1. /\ Frame /\ over[m].at \in {"GLOBAL", "CONTENT", "CHANNEL"} /\ faults' \in 0 .. MaxFaults
        /\ UNCHANGED <<dayCache, session, globalCount>> /\ over' = [over EXCEPT ![m].lost = TRUE]
    BY <1>5, <2>f DEF ReplyLost
  <2>2. /\ over'[m].at = over[m].at /\ over'[m].global = over[m].global
        /\ over'[m].chan = over[m].chan /\ over'[m].val = over[m].val
        /\ over'[m] \in OverType(Int) /\ over' = [over EXCEPT ![m] = over'[m]]
    BY <1>0, <2>1 DEF OverType
  <2>3. Holds(over'[m]) <=> Holds(over[m])
    BY <2>2 DEF Holds
  <2>4. OverMoves(m)
    BY <1>0, <2>1, <2>2, <2>3 DEF OverMoves
  <2>5. QED
    BY <1>0, <2>1, <2>2, <2>4 DEF OverSteps
<1>6. QED
  BY <1>1, <1>2, <1>3, <1>4, <1>5 DEF OverRateThread

LEMMA OverRateKeeps ==
    ASSUME TypeInv, AllSmsInv, NEW m \in Sms, OverSteps(m)
    PROVE  AllSmsInv'
<1>0. /\ over \in [Sms -> OverType(Int)] /\ over' = [over EXCEPT ![m] = over'[m]]
      /\ UNCHANGED <<account, ioMq, rebackMq, channelMq, auditReq, chargeReq, auditHeld, log>>
  BY DEF OverSteps, TypeInv, RateTypeOK, config_vars, mq_vars, request_vars
<1>a. /\ \A n \in Sms : n # m => session'[n] = session[n]
      /\ ~(InState(m, "OVERRATE") /\ session[m].ans = "NONE") => session'[m] = session[m]
      /\ session'[m].open = session[m].open /\ session'[m].stage = session[m].stage
      /\ session'[m].overState = session[m].overState /\ session'[m].reback = session[m].reback
      /\ session'[m].chan = session[m].chan
      /\ OverMoves(m) => session'[m] = session[m]
      /\ OverRefuses(m) /\ InState(m, "OVERRATE") /\ session[m].ans = "NONE" =>
            session'[m].ans \in {"GLOBAL", "CONTENT", "CHANNEL"}
            /\ (session'[m].ans # "CHANNEL" => over[m].global)
      /\ OverPasses(m) /\ InState(m, "OVERRATE") /\ session[m].ans = "NONE" =>
            session'[m].ans = "OK"
  <2>1. CASE OverMoves(m)
    <3>1. session' = session /\ over'[m].at \notin {"NONE", "OK"}
      BY <2>1 DEF OverMoves
    <3>2. ~OverRefuses(m) /\ ~OverPasses(m)
      BY <1>0, <3>1 DEF OverRefuses, OverPasses, NoOver
    <3>3. QED
      BY <3>1, <3>2
  <2>2. CASE OverRefuses(m)
    <3>1. PICK r \in {"GLOBAL", "CONTENT", "CHANNEL"} :
             Answered(m, "OVERRATE", r) /\ (r # "CHANNEL" => over[m].global)
             /\ over'[m] = NoOver
      BY <1>0, <2>2 DEF OverRefuses
    <3>2. ~OverMoves(m) /\ ~OverPasses(m)
      BY <3>1 DEF OverMoves, OverPasses, NoOver
    <3>3. QED
      BY <3>1, <3>2, AnsweredFacts
  <2>3. CASE OverPasses(m)
    <3>1. Answered(m, "OVERRATE", "OK") /\ over'[m].at = "OK"
      BY <2>3 DEF OverPasses
    <3>2. ~OverMoves(m) /\ ~OverRefuses(m)
      BY <1>0, <3>1 DEF OverMoves, OverRefuses, NoOver
    <3>3. QED
      BY <3>1, <3>2, AnsweredFacts
  <2>4. QED
    BY <2>1, <2>2, <2>3 DEF OverSteps
<1>1. ASSUME NEW n \in Sms, n # m
      PROVE  SmsInv(n)'
  <2>1. Same(n)
    BY <1>0, <1>1, <1>a DEF Same
  <2>2. QED
    BY <2>1, SameKeeps DEF AllSmsInv
<1>2. SmsInv(m)'
  <2> DEFINE Waits == InState(m, "OVERRATE") /\ session[m].ans = "NONE"
  <2>0. SmsInv(m) /\ over[m].at \notin {"NONE", "OK"}
    BY DEF AllSmsInv, OverSteps, OverMoves, OverRefuses, OverPasses
  <2>1. Waits \/ (log[m].leaked /\ Nowhere(m))
    <3>1. OverOK(m) /\ over[m].at # "NONE" /\ over[m].at # "OK"
      BY <2>0 DEF SmsInv
    <3>2. \/ InState(m, "OVERRATE") /\ session[m].ans \in {"NONE", "OK"}
          \/ log[m].leaked
      BY <3>1 DEF OverOK
    <3>3. InState(m, "OVERRATE") => session[m].ans # "OK"
      BY <3>1 DEF OverOK
    <3>4. log[m].leaked => Nowhere(m)
      BY <3>1 DEF OverOK
    <3>5. QED
      BY <3>2, <3>3, <3>4
  <2>2. /\ (InIo(m)' <=> InIo(m)) /\ (InReback(m)' <=> InReback(m))
        /\ (InChannel(m)' <=> InChannel(m)) /\ (Audited(m)' <=> Audited(m))
        /\ \A stage : InState(m, stage)' <=> InState(m, stage)
    BY <1>0, <1>a DEF InIo, InReback, InChannel, Audited, Awaits, InState
  <2>3. Owned(m)' <=> Owned(m)
    BY <1>a DEF Owned, OverSteps
  <2>4. Nowhere(m)' <=> Nowhere(m)
    BY <1>0, <2>2, <2>3 DEF Nowhere
  <2>5. OnePlace(m)'
    BY <1>0, <2>0, <2>2, <2>3 DEF SmsInv, OnePlace, AtMostOne
  <2>6. ChargeOK(m)' /\ VerdictOK(m)'
    <3>1. ~InState(m, "CHARGE") \/ session'[m] = session[m]
      BY <1>a DEF InState
    <3>2. m \in chargeReq => session'[m] = session[m]
      BY <1>a, <2>0 DEF SmsInv, ChargeOK, InState
    <3>3. ChargeOK(m)'
      BY <1>0, <1>a, <2>0, <2>2, <2>4, <3>1, <3>2 DEF SmsInv, ChargeOK
    <3>4. VerdictOK(m)'
      BY <1>0, <1>a, <2>0, <2>2, <2>4 DEF SmsInv, VerdictOK
    <3>5. QED
      BY <3>3, <3>4
  <2>7. SessionOK(m)'
    <3>1. CASE Waits
      <4>1. session[m].open /\ session[m].stage = "OVERRATE" /\ StageOK(m, session[m], "OVERRATE")
        BY <2>0, <3>1 DEF SmsInv, SessionOK, InState
      <4>2. ~session[m].overState
        BY <4>1 DEF StageOK
      <4>3. CASE OverMoves(m)
        <5>1. session'[m] = session[m]
          BY <1>a, <4>3
        <5>2. QED
          BY <1>0, <2>0, <4>1, <4>2, <5>1 DEF SmsInv, SessionOK, StageOK, AnswersOf
      <4>4. ASSUME NEW r \in {"OK", "GLOBAL", "CONTENT", "CHANNEL"}, Answered(m, "OVERRATE", r)
            PROVE  SessionOK(m)'
        <5>1. StageOK(m, session[m], session[m].stage)'
          BY <1>0, <4>1, <4>2, <4>4, AnsweredStage
        <5>2. session'[m].ans = r /\ session'[m].stage = "OVERRATE"
          BY <3>1, <4>1, <4>4, AnsweredFacts
        <5>3. QED
          BY <5>1, <5>2 DEF SessionOK, AnswersOf
      <4>5. QED
        BY <4>3, <4>4 DEF OverSteps, OverRefuses, OverPasses
    <3>2. CASE log[m].leaked /\ Nowhere(m)
      <4>1. CASE Waits
        BY <3>1, <4>1
      <4>2. CASE ~Waits
        <5>1. session'[m] = session[m]
          BY <1>a, <4>2
        <5>2. session[m].open => session[m].stage = "AUDIT"
          BY <2>0, <3>2 DEF SmsInv, SessionOK, StageOK, Stages, AnswersOf, Owned, Nowhere
        <5>3. QED
          BY <1>0, <2>0, <5>1, <5>2 DEF SmsInv, SessionOK, StageOK, AnswersOf
      <4>3. QED
        BY <4>1, <4>2
    <3>3. QED
      BY <2>1, <3>1, <3>2
  <2>8. OverOK(m)'
    <3>1. CASE OverMoves(m)
      BY <1>0, <1>a, <2>0, <2>1, <2>2, <2>4, <3>1 DEF SmsInv, OverOK, OverMoves
    <3>2. CASE OverRefuses(m)
      <4>1. over'[m].at = "NONE"
        BY <1>0, <3>2 DEF OverRefuses, NoOver
      <4>2. CASE Waits
        <5>1. session'[m].ans \in {"GLOBAL", "CONTENT", "CHANNEL"}
              /\ (session'[m].ans # "CHANNEL" => over[m].global)
          BY <1>a, <3>2, <4>2
        <5>2. session[m].reback => ~over[m].global
          BY <2>0, <4>2 DEF SmsInv, OverOK
        <5>3. log'[m].leaked => Nowhere(m)'
          BY <1>0, <2>0, <2>4 DEF SmsInv, OverOK
        <5>4. over'[m] = NoOver
          BY <1>0, <3>2 DEF OverRefuses
        <5>5. QED
          BY <1>a, <4>1, <5>1, <5>2, <5>3, <5>4 DEF OverOK, NoOver
      <4>3. CASE ~Waits
        <5>1. ~InState(m, "OVERRATE")'
          BY <2>0, <2>1, <2>2, <4>3 DEF SmsInv, SessionOK, AnswersOf, InState, Owned, Nowhere
        <5>2. log'[m].leaked => Nowhere(m)'
          BY <1>0, <2>0, <2>4 DEF SmsInv, OverOK
        <5>3. QED
          BY <4>1, <5>1, <5>2 DEF OverOK
      <4>4. QED
        BY <4>2, <4>3
    <3>3. CASE OverPasses(m)
      <4>1. /\ over'[m].at = "OK" /\ over'[m].global = over[m].global /\ over'[m].chan = over[m].chan
        BY <3>3 DEF OverPasses
      <4>2. Waits => session'[m].ans = "OK"
        BY <1>a, <3>3
      <4>3. ~Waits => ~InState(m, "OVERRATE")
        BY <2>0, <2>1 DEF SmsInv, SessionOK, AnswersOf, InState, Owned, Nowhere
      <4>4. QED
        BY <1>0, <1>a, <2>0, <2>1, <2>2, <2>4, <4>1, <4>2, <4>3 DEF SmsInv, OverOK
    <3>4. QED
      BY <3>1, <3>2, <3>3 DEF OverSteps
  <2>9. QED
    BY <2>5, <2>6, <2>7, <2>8 DEF SmsInv
<1>3. QED
  BY <1>1, <1>2 DEF AllSmsInv

(* The steps that leave every SMS alone.                                   *)
LEMMA FrameKeeps ==
    ASSUME AllSmsInv, UNCHANGED <<account, mq_vars, session, request_vars, auditHeld, over, log>>
    PROVE  AllSmsInv'
<1>1. \A m \in Sms : Same(m)
  BY DEF Same, mq_vars, request_vars, Of
<1>2. QED
  BY <1>1, SameKeeps DEF AllSmsInv

LEMMA SmsInvStep ==
    ASSUME TypeInv, AllSmsInv, [AccessNext]_access_vars
    PROVE  AllSmsInv'
<1>1. ASSUME NEW m \in Sms, SessionThread(m)
      PROVE  AllSmsInv'
  <2>1. UNCHANGED <<account, auditHeld>> /\ (TakesNew(m) \/ TakesBack(m) \/ TakesAnswer(m))
    BY <1>1, SessionThreadCases DEF config_vars
  <2>2. QED
    BY <2>1, HandledKeeps, HeldKeeps DEF TakesNew, TakesBack, TakesAnswer
<1>2. ASSUME NEW m \in Sms, HandleTimeOut(m)
      PROVE  AllSmsInv'
  BY <1>2, TimeOutKeeps
<1>3. ASSUME NEW m \in Sms, AuditAnswer(m) \/ AuditResult(m)
      PROVE  AllSmsInv'
  BY <1>3, AuditKeeps, AuditResultKeeps DEF AuditAnswer
<1>4. ASSUME NEW m \in Sms, OverRateThread(m) \/ ReplyLost(m)
      PROVE  AllSmsInv'
  BY <1>4, OverRateThreadCases, OverRateKeeps
<1>5. ASSUME NEW m \in Sms, ChargeServer(m)
      PROVE  AllSmsInv'
  BY <1>5, ChargeServerKeeps
<1>6. ASSUME NEW m \in Sms, SendComponent(m)
      PROVE  AllSmsInv'
  BY <1>6, DeliverKeeps, SendRebackKeeps DEF SendComponent
<1>7. CASE OverRateSetReq \/ CleanOverRateMap \/ OtherSms
  BY <1>7, FrameKeeps DEF OverRateSetReq, CleanOverRateMap, OtherSms, config_vars, rate_vars
<1>8. CASE \E c \in Closing : ChannelUpdate(c)
  BY <1>8, FrameKeeps DEF ChannelUpdate, rate_vars
<1>9. CASE UNCHANGED access_vars
  BY <1>9, FrameKeeps DEF access_vars, config_vars, rate_vars
<1>10. QED
  BY <1>1, <1>2, <1>3, <1>4, <1>5, <1>6, <1>7, <1>8, <1>9 DEF AccessNext

-----------------------------------------------------------------------------
(* Types.                                                                  *)
LEMMA WaitType ==
    ASSUME TypeInv, NEW m \in Sms, NEW s, NEW stage, NEW io, NEW rb,
           GoesOn(m, s, stage, io, rb), UNCHANGED <<account, auditHeld>>
    PROVE  MqTypeOK' /\ SessionTypeOK' /\ RateTypeOK(Int)' /\ LogTypeOK'
<1>1. /\ s \in SessionType /\ stage \in Stages /\ io \subseteq ioMq /\ rb \subseteq rebackMq
      /\ Wait(m, s, stage, io, rb)
  BY DEF GoesOn, StageOK, InHand
<1>2. MqTypeOK' /\ LogTypeOK'
  BY <1>1 DEF Wait, TypeInv, MqTypeOK, LogTypeOK
<1>3. SessionTypeOK'
  <2>1. [s EXCEPT !.stage = stage, !.ans = "NONE"] \in SessionType
    BY <1>1 DEF SessionType
  <2>2. session' \in [Sms -> SessionType]
    BY <1>1, <2>1 DEF Wait, TypeInv, SessionTypeOK
  <2>3. QED
    BY <1>1, <2>2 DEF Wait, TypeInv, SessionTypeOK
<1>4. RateTypeOK(Int)'
  <2>1. [NoOver EXCEPT !.at = "POSTED", !.chan = s.chan, !.global = s.failed = {} /\ ~s.reback]
           \in OverType(Int)
    <3> DEFINE g == s.failed = {} /\ ~s.reback
    <3>1. g \in BOOLEAN /\ s.chan \in Maybe
      BY <1>1 DEF SessionType
    <3>2. NoOver \in OverType(Int)
      BY DEF NoOver, OverType, Maybe
    <3> HIDE DEF g
    <3>3. [NoOver EXCEPT !.at = "POSTED", !.chan = s.chan, !.global = g] \in OverType(Int)
      BY <3>1, <3>2 DEF OverType
    <3>4. QED
      BY <3>3 DEF g
  <2>2. over' \in [Sms -> OverType(Int)]
    BY <1>1, <2>1 DEF Wait, TypeInv, RateTypeOK
  <2>3. QED
    BY <1>1, <2>2 DEF Wait, TypeInv, RateTypeOK
<1>5. QED
  BY <1>2, <1>3, <1>4

LEMMA PostedType ==
    ASSUME TypeInv, NEW m \in Sms, NEW s, s.initial \in BOOLEAN,
           s.overState /\ ~s.plan => over[m].chan \in Channels, OverRateSetPosted(m, s)
    PROVE  RateTypeOK(Int)'
<1>1. over \in [Sms -> OverType(Int)] /\ setQ \in Seq(SetMsg) /\ NoOver \in OverType(Int)
  BY DEF TypeInv, RateTypeOK, NoOver, OverType, Maybe
<1>2. CASE s.overState /\ ~s.plan
  <2>1. [ok |-> s.initial, global |-> over[m].global, chan |-> over[m].chan] \in SetMsg
    BY <1>1, <1>2 DEF SetMsg, OverType
  <2>2. over' \in [Sms -> OverType(Int)] /\ setQ' \in Seq(SetMsg)
    BY <1>1, <1>2, <2>1 DEF OverRateSetPosted
  <2>3. QED
    BY <2>2 DEF RateTypeOK
<1>3. CASE ~(s.overState /\ ~s.plan)
  BY <1>1, <1>3 DEF OverRateSetPosted, RateTypeOK, rate_vars
<1>4. QED
  BY <1>2, <1>3

LEMMA FinishType ==
    ASSUME TypeInv, AllSmsInv, NEW m \in Sms, NEW s, NEW io, NEW rb,
           Ends(m, s, io, rb), UNCHANGED <<account, auditHeld>>
    PROVE  MqTypeOK' /\ SessionTypeOK' /\ RateTypeOK(Int)' /\ LogTypeOK'
<1>1. /\ io \subseteq ioMq /\ rb \subseteq rebackMq /\ EndType(s) /\ EndToken(m, s) /\ EndPlace(m, s)
      /\ Finish(m, s, io, rb, FALSE) /\ MqTypeOK
  BY DEF Ends, InHand, EndOK, TypeInv
<1>q. PICK queue \in BOOLEAN : /\ channelMq' = Published(m, s, queue)
                               /\ log' = [log EXCEPT ![m] = Logged(m, s, FALSE, queue)]
  BY <1>1 DEF Finish
<1>2. MqTypeOK'
  <2>1. ioMq' \subseteq IoMsg
    <3>1. CASE ~s.initial /\ s.push = "OVERFLOW"
      <4>1. [sms |-> m, audited |-> TRUE, routed |-> s.routed] \in IoMsg
        BY <1>1, <3>1 DEF EndPlace, IoMsg
      <4>2. QED
        BY <1>1, <3>1, <4>1 DEF Finish, Requeued, MqTypeOK
    <3>2. CASE ~(~s.initial /\ s.push = "OVERFLOW")
      BY <1>1, <3>2 DEF Finish, Requeued, MqTypeOK
    <3>3. QED
      BY <3>1, <3>2
  <2>2. rebackMq' \subseteq RebackMsg
    <3>1. CASE ~s.initial /\ s.push = "IOREBACK"
      <4>0. s.count \in 2 .. MaxOverCount /\ s.origin \in Channels
        BY <1>1, <3>1 DEF EndPlace
      <4>1. s.count \in 1 .. MaxOverCount
        BY <4>0, AccessAssumption
      <4>2. [sms |-> m, count |-> s.count, chan |-> s.origin, again |-> TRUE] \in RebackMsg
        BY <4>0, <4>1 DEF RebackMsg
      <4>3. QED
        BY <1>1, <3>1, <4>2 DEF Finish, SentBack, MqTypeOK
    <3>2. CASE ~(~s.initial /\ s.push = "IOREBACK")
      BY <1>1, <3>2 DEF Finish, SentBack, MqTypeOK
    <3>3. QED
      BY <3>1, <3>2
  <2>3. channelMq' \subseteq ChannelMsg
    <3>1. CASE Publishes(s, queue)
      <4> DEFINE n == IF s.reback THEN s.count ELSE 1
      <4>0. s.chan \in Channels
        BY <1>1, <3>1 DEF EndType, Maybe, Publishes
      <4>1. n \in 1 .. MaxOverCount
        <5>1. 1 \in 1 .. MaxOverCount
          BY AccessAssumption
        <5>2. QED
          BY <1>1, <3>1, <5>1 DEF EndPlace, Publishes
      <4>2. channelMq' = channelMq \cup {[sms |-> m, chan |-> s.chan, count |-> n]}
        BY <1>q, <3>1 DEF Published
      <4> HIDE DEF n
      <4>3. [sms |-> m, chan |-> s.chan, count |-> n] \in ChannelMsg
        BY <4>0, <4>1 DEF ChannelMsg
      <4>4. QED
        BY <1>1, <4>2, <4>3 DEF MqTypeOK
    <3>2. CASE ~Publishes(s, queue)
      BY <1>1, <1>q, <3>2 DEF Published, MqTypeOK
    <3>3. QED
      BY <3>1, <3>2
  <2>4. QED
    BY <2>1, <2>2, <2>3 DEF MqTypeOK
<1>3. SessionTypeOK'
  <2>1. session' \in [Sms -> SessionType]
    BY <1>1, NewSessionType DEF Finish, TypeInv, SessionTypeOK
  <2>2. QED
    BY <1>1, <2>1 DEF Finish, TypeInv, SessionTypeOK, request_vars
<1>4. RateTypeOK(Int)'
  <2>1. s.overState => over[m].chan \in Channels
    BY <1>1 DEF EndToken, AllSmsInv, SmsInv, OverOK
  <2>2. QED
    BY <1>1, <2>1, PostedType DEF EndType, Finish
<1>5. LogTypeOK'
  <2>1. log \in [Sms -> LogType]
    BY DEF TypeInv, LogTypeOK
  <2>2. log'[m] \in LogType
    BY <1>q, FinishLog DEF Entered
  <2>3. QED
    BY <1>q, <2>1, <2>2 DEF LogTypeOK
<1>6. QED
  BY <1>2, <1>3, <1>4, <1>5

LEMMA HandledType ==
    ASSUME TypeInv, AllSmsInv, NEW m \in Sms, NEW io, NEW rb, Handled(m, io, rb),
           UNCHANGED <<account, auditHeld>>
    PROVE  MqTypeOK' /\ SessionTypeOK' /\ RateTypeOK(Int)' /\ LogTypeOK'
BY WaitType, FinishType DEF Handled

LEMMA AnsweredType ==
    ASSUME TypeInv, NEW m \in Sms, NEW stage,
           NEW r \in {"PASS", "FAIL", "HELD", "OK", "GLOBAL", "CONTENT", "CHANNEL"},
           Answered(m, stage, r)
    PROVE  session' \in [Sms -> SessionType]
<1>1. session \in [Sms -> SessionType] /\ [session[m] EXCEPT !.ans = r] \in SessionType
  <2>1. session \in [Sms -> SessionType] /\ session[m] \in SessionType
    BY DEF TypeInv, SessionTypeOK
  <2>2. QED
    BY <2>1 DEF SessionType
<1>2. session' = session \/ session' = [session EXCEPT ![m] = [session[m] EXCEPT !.ans = r]]
  BY DEF Answered
<1>3. QED
  BY <1>1, <1>2

(* The counters, when only the session thread or the timer moves.          *)
LEMMA GivenBackType ==
    ASSUME TypeInv, NEW q \in rebackMq, chanDay' = GivenBack(q)
    PROVE  chanDay' \in [Channels -> Int]
BY DEF TypeInv, CountTypeOK, MqTypeOK, RebackMsg, GivenBack

LEMMA TypeStep ==
    ASSUME TypeInv, AllSmsInv, [AccessNext]_access_vars
    PROVE  TypeInv'
<1>0. MqTypeOK /\ SessionTypeOK /\ RateTypeOK(Int) /\ CountTypeOK /\ LogTypeOK
  BY DEF TypeInv
<1>1. ASSUME NEW m \in Sms, SessionThread(m)
      PROVE  TypeInv'
  <2>1. /\ UNCHANGED <<config_vars, auditHeld, globalCount, dayCache, env_vars>>
        /\ TakesNew(m) \/ TakesBack(m) \/ TakesAnswer(m)
    BY <1>1, SessionThreadCases
  <2>2. MqTypeOK' /\ SessionTypeOK' /\ RateTypeOK(Int)' /\ LogTypeOK'
    <3>1. CASE InState(m, "AUDIT") /\ FinishHeld(m)
      <4>1. session' \in [Sms -> SessionType]
        BY <1>0, <3>1, NewSessionType DEF FinishHeld, SessionTypeOK
      <4>2. QED
        BY <1>0, <2>1, <3>1, <4>1 DEF FinishHeld, MqTypeOK, SessionTypeOK, RateTypeOK, LogTypeOK,
                                      mq_vars, request_vars, rate_vars, config_vars
    <3>2. CASE \E io, rb : Handled(m, io, rb)
      BY <2>1, <3>2, HandledType DEF config_vars
    <3>3. QED
      BY <2>1, <3>1, <3>2 DEF TakesNew, TakesBack, TakesAnswer
  <2>3. chanDay' \in [Channels -> Int]
    BY <1>0, <2>1, GivenBackType DEF TakesNew, TakesBack, TakesAnswer, CountTypeOK
  <2>4. CountTypeOK'
    BY <1>0, <2>1, <2>3 DEF CountTypeOK, config_vars, env_vars
  <2>5. QED
    BY <2>2, <2>4 DEF TypeInv
<1>2. ASSUME NEW m \in Sms, HandleTimeOut(m)
      PROVE  TypeInv'
  <2>1. TimedOut(m)
    BY <1>2, TimeOutFacts
  <2>2. MqTypeOK' /\ CountTypeOK'
    BY <1>0, <2>1 DEF TimedOut, MqTypeOK, CountTypeOK, redis_vars, env_vars, config_vars
  <2>3. SessionTypeOK'
    <3>1. session' \in [Sms -> SessionType]
      BY <1>0, <2>1, NewSessionType DEF TimedOut, SessionTypeOK
    <3>2. QED
      BY <1>0, <2>1, <3>1 DEF TimedOut, SessionTypeOK, config_vars
  <2>4. RateTypeOK(Int)'
    <3> DEFINE s == [session[m] EXCEPT !.initial = FALSE]
    <3>1. s.initial = FALSE /\ s.overState = session[m].overState
      BY <1>0 DEF SessionTypeOK, SessionType
    <3>2. s.overState => over[m].chan \in Channels
      BY <2>1, <3>1, OwnedFacts DEF TimedOut, StageOK, SmsInv, OverOK
    <3>3. OverRateSetPosted(m, s)
      BY <2>1 DEF TimedOut
    <3>4. s.initial \in BOOLEAN /\ (s.overState /\ ~s.plan => over[m].chan \in Channels)
      BY <3>1, <3>2
    <3> HIDE DEF s
    <3>5. QED
      BY <3>3, <3>4, PostedType
  <2>5. LogTypeOK'
    <3>1. log' = [log EXCEPT ![m] = log'[m]] /\ log'[m] \in LogType
      <4>1. \E queue \in BOOLEAN :
               log' = [log EXCEPT ![m] = Logged(m, [session[m] EXCEPT !.initial = FALSE], TRUE, queue)]
        BY <1>2 DEF HandleTimeOut, Finish
      <4>2. QED
        BY <1>0, <2>1, <4>1 DEF TimedOut, LogTypeOK
    <3>2. QED
      BY <1>0, <3>1 DEF LogTypeOK
  <2>6. QED
    BY <2>2, <2>3, <2>4, <2>5 DEF TypeInv
<1>3. ASSUME NEW m \in Sms, NEW r \in {"PASS", "FAIL", "HELD"}, AuditThread(m, r)
      PROVE  TypeInv'
  <2>1. session' \in [Sms -> SessionType]
    BY <1>3, AnsweredType DEF AuditThread
  <2>2. SessionTypeOK'
    BY <1>0, <1>3, <2>1 DEF AuditThread, Kept, SessionTypeOK, config_vars
  <2>3. MqTypeOK' /\ RateTypeOK(Int)' /\ CountTypeOK'
    BY <1>0, <1>3 DEF AuditThread, MqTypeOK, RateTypeOK, CountTypeOK, config_vars,
                      mq_vars, rate_vars, redis_vars, env_vars
  <2>4. LogTypeOK'
    <3>1. log' = [log EXCEPT ![m] = log'[m]]
      BY <1>0, <1>3 DEF AuditThread, LogTypeOK
    <3>2. HeardLog(m, r)
      BY <1>3, HeardOrNot
    <3>3. log'[m] \in LogType
      BY <3>2 DEF HeardLog
    <3>4. QED
      BY <1>0, <3>1, <3>3 DEF LogTypeOK
  <2>5. QED
    BY <2>2, <2>3, <2>4 DEF TypeInv
<1>4. ASSUME NEW m \in Sms, AuditResult(m)
      PROVE  TypeInv'
  <2>1. MqTypeOK'
    <3>1. [sms |-> m, audited |-> TRUE, routed |-> 0] \in IoMsg
      BY AccessAssumption DEF IoMsg
    <3>2. QED
      BY <1>0, <1>4, <3>1 DEF AuditResult, Reaudited, MqTypeOK
  <2>2. SessionTypeOK' /\ RateTypeOK(Int)' /\ CountTypeOK'
    <3>1. auditReq' \subseteq Sms
      BY <1>0, <1>4 DEF AuditResult, Reaudited, SessionTypeOK
    <3>2. QED
      BY <1>0, <1>4, <3>1 DEF AuditResult, SessionTypeOK, RateTypeOK, CountTypeOK, config_vars,
                              rate_vars, redis_vars, env_vars
  <2>3. LogTypeOK'
    <3>1. log' = log \/ log' = [log EXCEPT ![m].rep = @ + 1]
      BY <1>4 DEF AuditResult, Reaudited
    <3>2. QED
      BY <1>0, <3>1 DEF LogTypeOK, LogType
  <2>4. QED
    BY <2>1, <2>2, <2>3 DEF TypeInv
<1>5. ASSUME NEW m \in Sms, OverRateThread(m) \/ ReplyLost(m)
      PROVE  TypeInv'
  <2>1. OverSteps(m)
    BY <1>5, OverRateThreadCases
  <2>2. over'[m] \in OverType(Int)
    <3>1. NoOver \in OverType(Int)
      BY DEF NoOver, OverType, Maybe
    <3>2. QED
      BY <1>0, <2>1, <3>1 DEF OverSteps, OverMoves, OverRefuses, OverPasses, RateTypeOK
  <2>3. over' \in [Sms -> OverType(Int)]
    BY <1>0, <2>1, <2>2 DEF OverSteps, RateTypeOK
  <2>4. session' \in [Sms -> SessionType]
    BY <1>0, <2>1, AnsweredType DEF OverSteps, OverMoves, OverRefuses, OverPasses, SessionTypeOK
  <2>5. globalCount' \in Int
    BY <1>0, <2>1 DEF OverSteps, OverMoves, OverRefuses, OverPasses, CountTypeOK
  <2>6. CountTypeOK'
    BY <1>0, <2>1, <2>5 DEF OverSteps, CountTypeOK, config_vars
  <2>7. MqTypeOK' /\ SessionTypeOK' /\ RateTypeOK(Int)' /\ LogTypeOK'
    BY <1>0, <2>1, <2>3, <2>4 DEF OverSteps, MqTypeOK, SessionTypeOK, RateTypeOK, LogTypeOK,
                                  config_vars, mq_vars, request_vars
  <2>8. QED
    BY <2>6, <2>7 DEF TypeInv
<1>6. ASSUME NEW m \in Sms, ChargeServer(m)
      PROVE  TypeInv'
  <2>1. PICK paid \in BOOLEAN, r \in {"OK", "FAIL"} :
           /\ log' = [log EXCEPT ![m].charged = IF paid THEN @ + 1 ELSE @]
           /\ Answered(m, "CHARGE", r)
    BY <1>6 DEF ChargeServer
  <2>2. session' \in [Sms -> SessionType]
    BY <2>1, AnsweredType
  <2>3. SessionTypeOK'
    BY <1>0, <1>6, <2>2 DEF ChargeServer, SessionTypeOK, config_vars
  <2>4. LogTypeOK'
    <3>1. CASE paid
      BY <1>0, <2>1, <3>1 DEF LogTypeOK, LogType
    <3>2. CASE ~paid
      BY <1>0, <2>1, <3>2 DEF LogTypeOK, LogType
    <3>3. QED
      BY <3>1, <3>2
  <2>5. MqTypeOK' /\ RateTypeOK(Int)' /\ CountTypeOK'
    BY <1>0, <1>6 DEF ChargeServer, MqTypeOK, RateTypeOK, CountTypeOK, config_vars,
                      mq_vars, rate_vars, redis_vars, env_vars
  <2>6. QED
    BY <2>3, <2>4, <2>5 DEF TypeInv
<1>7. ASSUME NEW q \in channelMq, Deliver(q) \/ SendReback(q)
      PROVE  TypeInv'
  <2>1. q.sms \in Sms /\ q.chan \in Channels /\ q.count \in 1 .. MaxOverCount
    BY <1>0 DEF MqTypeOK, ChannelMsg
  <2>2. [sms |-> q.sms, count |-> q.count, chan |-> q.chan, again |-> FALSE] \in RebackMsg
    BY <2>1 DEF RebackMsg
  <2>3. MqTypeOK'
    BY <1>0, <1>7, <2>2 DEF Deliver, SendReback, MqTypeOK
  <2>4. LogTypeOK'
    BY <1>0, <1>7, <2>1 DEF Deliver, SendReback, LogTypeOK, LogType, Maybe
  <2>5. SessionTypeOK' /\ RateTypeOK(Int)' /\ CountTypeOK'
    BY <1>0, <1>7 DEF Deliver, SendReback, SessionTypeOK, RateTypeOK, CountTypeOK, config_vars,
                      request_vars, rate_vars, redis_vars, env_vars
  <2>6. QED
    BY <2>3, <2>4, <2>5 DEF TypeInv
<1>8. CASE OverRateSetReq
  <2> DEFINE q == Head(setQ)
  <2>1. setQ # <<>> /\ setQ \in Seq(SetMsg) /\ setQ' = Tail(setQ)
    BY <1>0, <1>8 DEF OverRateSetReq, RateTypeOK
  <2>2. q \in SetMsg /\ setQ' \in Seq(SetMsg)
    BY <2>1
  <2>3. /\ chanDay' = IF q.ok THEN [chanDay EXCEPT ![q.chan] = @ + 1] ELSE chanDay
        /\ globalCount' = IF ~q.ok /\ q.global THEN globalCount - 1 ELSE globalCount
    BY <1>8 DEF OverRateSetReq
  <2> HIDE DEF q
  <2>4. chanDay' \in [Channels -> Int] /\ globalCount' \in Int
    BY <1>0, <2>2, <2>3 DEF CountTypeOK, SetMsg
  <2>5. MqTypeOK' /\ SessionTypeOK' /\ RateTypeOK(Int)' /\ LogTypeOK'
    BY <1>0, <1>8, <2>2 DEF OverRateSetReq, MqTypeOK, SessionTypeOK, RateTypeOK, LogTypeOK,
                      config_vars, mq_vars, request_vars
  <2>6. CountTypeOK'
    BY <1>0, <1>8, <2>4 DEF OverRateSetReq, CountTypeOK, config_vars, env_vars
  <2>7. QED
    BY <2>5, <2>6 DEF TypeInv
<1>9. CASE CleanOverRateMap
  BY <1>0, <1>9 DEF CleanOverRateMap, TypeInv, MqTypeOK, SessionTypeOK, RateTypeOK, CountTypeOK,
                    LogTypeOK, config_vars, mq_vars, request_vars, rate_vars, env_vars
<1>10. CASE OtherSms
  <2>1. MqTypeOK' /\ SessionTypeOK' /\ RateTypeOK(Int)' /\ LogTypeOK'
    BY <1>0, <1>10 DEF OtherSms, MqTypeOK, SessionTypeOK, RateTypeOK, LogTypeOK,
                       config_vars, mq_vars, request_vars, rate_vars
  <2>2. CountTypeOK'
    <3>1. known' = known /\ faults' = faults
      BY <1>10 DEF OtherSms, config_vars
    <3>2. CASE \E n \in 0 .. MaxOthers :
                  /\ others' = n /\ globalCount' = globalCount + n - others
                  /\ UNCHANGED <<otherDay, chanDay, dayCache>>
      BY <1>0, <3>1, <3>2 DEF CountTypeOK
    <3>3. CASE \E c \in Channels, n \in 0 .. MaxOthers :
                  /\ otherDay' = [otherDay EXCEPT ![c] = n]
                  /\ chanDay' = [chanDay EXCEPT ![c] = @ + n - otherDay[c]]
                  /\ UNCHANGED <<others, globalCount, dayCache>>
      BY <1>0, <3>1, <3>3 DEF CountTypeOK
    <3>4. CASE \E c \in Channels \ dayCache :
                  /\ dayCache' = dayCache \cup {c}
                  /\ UNCHANGED <<others, otherDay, globalCount, chanDay>>
      BY <1>0, <3>1, <3>4 DEF CountTypeOK
    <3>5. QED
      BY <1>10, <3>2, <3>3, <3>4 DEF OtherSms
  <2>3. QED
    BY <2>1, <2>2 DEF TypeInv
<1>11. ASSUME NEW c \in Closing, ChannelUpdate(c)
       PROVE  TypeInv'
  BY <1>0, <1>11 DEF ChannelUpdate, TypeInv, MqTypeOK, SessionTypeOK, RateTypeOK, CountTypeOK,
                     LogTypeOK, mq_vars, request_vars, rate_vars, redis_vars, env_vars
<1>12. CASE UNCHANGED access_vars
  BY <1>0, <1>12 DEF access_vars, TypeInv, MqTypeOK, SessionTypeOK, RateTypeOK, CountTypeOK,
                     LogTypeOK, config_vars, mq_vars, request_vars, rate_vars, redis_vars, env_vars
<1>13. QED
  BY <1>1, <1>2, <1>3, <1>4, <1>5, <1>6, <1>7, <1>8, <1>9, <1>10, <1>11, <1>12
     DEF AccessNext, AuditAnswer, SendComponent, Of

LEMMA InitInv == AccessInit => TypeInv /\ AllSmsInv
<1> SUFFICES ASSUME AccessInit
             PROVE  TypeInv /\ AllSmsInv
  OBVIOUS
<1> USE AccessAssumption
<1>1. MqTypeOK
  <2>1. \A m \in Sms : [sms |-> m, audited |-> FALSE, routed |-> 0] \in IoMsg
    BY DEF IoMsg
  <2>2. QED
    BY <2>1 DEF AccessInit, MqTypeOK
<1>2. SessionTypeOK
  BY NewSessionType DEF AccessInit, SessionTypeOK
<1>3. RateTypeOK(Int)
  BY DEF AccessInit, RateTypeOK, NoOver, OverType, Maybe
<1>4. CountTypeOK
  BY DEF AccessInit, CountTypeOK
<1>5. LogTypeOK
  BY DEF AccessInit, LogTypeOK, LogType, NewLog, Maybe
<1>6. ASSUME NEW m \in Sms
      PROVE  SmsInv(m)
  <2>1. /\ Of(m, ioMq) = {[sms |-> m, audited |-> FALSE, routed |-> 0]}
        /\ Of(m, rebackMq) = {} /\ Of(m, channelMq) = {}
        /\ ~session[m].open /\ m \notin auditReq /\ m \notin auditHeld /\ m \notin chargeReq
    BY DEF AccessInit, Of, NoSession, NewSession
  <2>2. over[m].at = "NONE" /\ ~over[m].global
    BY DEF AccessInit, NoOver
  <2>3. /\ log[m].rep = 0 /\ ~log[m].unit /\ log[m].charged = 0 /\ log[m].delivered = NoChannel
        /\ ~log[m].leaked /\ log[m].unsent = NoChannel
    BY DEF AccessInit, NewLog
  <2>4. /\ InIo(m) /\ ~InReback(m) /\ ~InChannel(m) /\ ~Owned(m) /\ ~Audited(m) /\ ~Nowhere(m)
        /\ \A stage : ~InState(m, stage)
    BY <2>1 DEF InIo, InReback, InChannel, Owned, Audited, Awaits, Nowhere, InState
  <2>5. OnePlace(m)
    BY <2>1, <2>4 DEF OnePlace, AtMostOne
  <2>6. SessionOK(m)
    BY <2>1 DEF SessionOK
  <2>7. OverOK(m)
    BY <2>2, <2>3, <2>4 DEF OverOK
  <2>8. ChargeOK(m)
    BY <2>1, <2>3, <2>4 DEF ChargeOK
  <2>9. VerdictOK(m)
    BY <2>1, <2>3, <2>4 DEF VerdictOK
  <2>10. QED
    BY <2>5, <2>6, <2>7, <2>8, <2>9 DEF SmsInv
<1>7. QED
  BY <1>1, <1>2, <1>3, <1>4, <1>5, <1>6 DEF TypeInv, AllSmsInv

(* The inductive invariant: every variable has its type, and each SMS is   *)
(* in one place, its session, its over-rate session, its charge and what   *)
(* the client was told in agreement with that place.                       *)
THEOREM AccessInductive == AccessSpec => [](TypeInv /\ AllSmsInv)
<1>1. AccessInit => TypeInv /\ AllSmsInv
  BY InitInv
<1>2. TypeInv /\ AllSmsInv /\ [AccessNext]_access_vars => (TypeInv /\ AllSmsInv)'
  BY TypeStep, SmsInvStep
<1>3. QED
  BY <1>1, <1>2, PTL DEF AccessSpec

-----------------------------------------------------------------------------
(* What the invariant says of the places of one SMS.                       *)
LEMMA NoCarrier ==
    ASSUME NEW m \in Sms
    PROVE  Carriers(m) = {} <=> Nowhere(m)
BY DEF Carriers, Nowhere, InIo, InReback, InChannel, Owned, Audited, Awaits

LEMMA OneOrNone ==
    ASSUME NEW S, AtMostOne(S)
    PROVE  IsFiniteSet(S) /\ Cardinality(S) <= 1
<1>1. CASE S = {}
  BY <1>1, FS_EmptySet
<1>2. CASE S # {}
  <2>1. PICK x : x \in S
    BY <1>2
  <2>2. \A y : y \in S <=> y = x
    BY <2>1 DEF AtMostOne
  <2>3. S = {x}
    BY <2>2
  <2>4. IsFiniteSet({x}) /\ Cardinality({x}) = 1
    BY FS_Singleton, Zenon
  <2>5. QED
    BY <2>3, <2>4
<1>3. QED
  BY <1>1, <1>2

LEMMA CarriersAtMostOne ==
    ASSUME NEW m \in Sms, OnePlace(m)
    PROVE  AtMostOne(Carriers(m))
<1>1. ASSUME NEW p \in Carriers(m)
      PROVE  \/ InIo(m) /\ \E q \in Of(m, ioMq) : p = <<"io", q>>
             \/ InReback(m) /\ \E q \in Of(m, rebackMq) : p = <<"reback", q>>
             \/ InChannel(m) /\ \E q \in Of(m, channelMq) : p = <<"channel", q>>
             \/ Owned(m) /\ p = <<"session", m>>
             \/ m \in auditHeld /\ p = <<"held", m>>
             \/ Audited(m) /\ p = <<"audit", m>>
  BY DEF Carriers, InIo, InReback, InChannel, Owned, Audited, Awaits
<1>2. SUFFICES ASSUME NEW p \in Carriers(m), NEW q \in Carriers(m)
               PROVE  p = q
  BY DEF AtMostOne
<1>3. QED
  BY <1>1 DEF OnePlace, AtMostOne

(* Once an SMS is nowhere, only its report or its delivery is left of it:  *)
(* what each listed theorem needs of the inductive invariant.              *)
LEMMA InvOneCarrier == ASSUME TypeInv, AllSmsInv PROVE OneCarrier
BY CarriersAtMostOne, OneOrNone DEF AllSmsInv, SmsInv, OneCarrier

LEMMA InvNotForgotten == ASSUME TypeInv, AllSmsInv PROVE NotForgotten
BY NoCarrier DEF AllSmsInv, SmsInv, VerdictOK, NotForgotten

LEMMA InvTokenOwned == ASSUME TypeInv, AllSmsInv PROVE TokenOwned
<1>1. ASSUME NEW m \in Sms
      PROVE  /\ over[m].at # "NONE" =>
                   \/ InState(m, "OVERRATE")
                   \/ over[m].at = "OK" /\ InState(m, "CHARGE") /\ session[m].overState
                   \/ log[m].leaked
             /\ InState(m, "OVERRATE") /\ session[m].ans = "NONE" => over[m].at \notin {"NONE", "OK"}
  BY DEF AllSmsInv, SmsInv, OverOK
<1>2. QED
  BY <1>1 DEF TokenOwned

LEMMA InvChargedOnce == ASSUME TypeInv, AllSmsInv PROVE ChargedOnce
<1>1. ASSUME NEW m \in Sms
      PROVE  /\ log[m].charged <= 1
             /\ account[m].prepaid /\ (Of(m, channelMq) # {} \/ log[m].delivered # NoChannel)
                   => log[m].charged = 1
  BY DEF AllSmsInv, SmsInv, ChargeOK, InChannel
<1>2. QED
  BY <1>1 DEF ChargedOnce

LEMMA InvOneVerdict == ASSUME TypeInv, AllSmsInv PROVE OneVerdict
BY DEF AllSmsInv, SmsInv, VerdictOK, OneVerdict

(* An SMS is in one place at a time, for any number of SMS and channels:   *)
(* no hand-over between the queues, the session, the audit and the send    *)
(* component leaves it in two, whenever its timer fires (HandleTimeOut).   *)
THEOREM InOneCarrier == AccessSpec => []OneCarrier
<1>1. TypeInv /\ AllSmsInv => OneCarrier
  BY InvOneCarrier
<1>2. QED
  BY <1>1, AccessInductive, PTL

(* An SMS that is nowhere any more was delivered, reported as failed,      *)
(* recorded as submitted though nothing was published, or checked by the   *)
(* audit when no session could hear the verdict: on all other paths of     *)
(* sessionDone, of the audit and of the send component somebody has it.    *)
THEOREM NoneForgotten == AccessSpec => []NotForgotten
<1>1. TypeInv /\ AllSmsInv => NotForgotten
  BY InvNotForgotten
<1>2. QED
  BY <1>1, AccessInductive, PTL

(* Every session of the over-rate thread has a session that will end it,   *)
(* but for one whose SMS timed out while the check was under way.          *)
THEOREM EveryTokenOwned == AccessSpec => []TokenOwned
<1>1. TypeInv /\ AllSmsInv => TokenOwned
  BY InvTokenOwned
<1>2. QED
  BY <1>1, AccessInductive, PTL

(* No SMS is charged twice, and none of a prepaid account goes out         *)
(* uncharged, however often it is requeued or sent back (nextState).       *)
THEOREM NoneChargedTwice == AccessSpec => []ChargedOnce
<1>1. TypeInv /\ AllSmsInv => ChargedOnce
  BY InvChargedOnce
<1>2. QED
  BY <1>1, AccessInductive, PTL

(* The client hears one verdict on an SMS, unless the SMS timed out while  *)
(* the audit thread still had it.                                          *)
THEOREM OneVerdictEach == AccessSpec => []OneVerdict
<1>1. TypeInv /\ AllSmsInv => OneVerdict
  BY InvOneVerdict
<1>2. QED
  BY <1>1, AccessInductive, PTL

-----------------------------------------------------------------------------
(* Counting.                                                               *)
Bit(b) == IF b THEN 1 ELSE 0

(* Two finite sets that differ in one element at most.                     *)
LEMMA CountDiffers ==
    ASSUME NEW S, NEW T, NEW x, IsFiniteSet(S), \A y : y # x => (y \in S <=> y \in T)
    PROVE  /\ IsFiniteSet(T) /\ Cardinality(S) \in Nat /\ Cardinality(T) \in Nat
           /\ Cardinality(T) - Bit(x \in T) = Cardinality(S) - Bit(x \in S)
<1>1. S \ {x} = T \ {x}
  OBVIOUS
<1>2. /\ IsFiniteSet(S \ {x})
      /\ Cardinality(S \ {x}) = IF x \in S THEN Cardinality(S) - 1 ELSE Cardinality(S)
  BY FS_RemoveElement
<1>3. IsFiniteSet(T)
  <2>1. IsFiniteSet((T \ {x}) \cup {x}) /\ T \subseteq (T \ {x}) \cup {x}
    BY <1>1, <1>2, FS_AddElement
  <2>2. QED
    BY <2>1, FS_Subset
<1>4. Cardinality(T \ {x}) = IF x \in T THEN Cardinality(T) - 1 ELSE Cardinality(T)
  BY <1>3, FS_RemoveElement
<1>5. Cardinality(S) \in Nat /\ Cardinality(T) \in Nat
  BY <1>3, FS_CardinalityType
<1>6. QED
  BY <1>1, <1>2, <1>3, <1>4, <1>5 DEF Bit

(* How many elements of a queue are in S.                                  *)
Places(q, S) == {i \in DOMAIN q : q[i] \in S}

LEMMA PlacesFinite ==
    ASSUME NEW X, NEW q \in Seq(X), NEW S
    PROVE  IsFiniteSet(Places(q, S)) /\ Cardinality(Places(q, S)) \in Nat
<1>1. Len(q) \in Nat /\ Places(q, S) \in SUBSET (1 .. Len(q))
  BY DEF Places
<1>2. IsFiniteSet(1 .. Len(q))
  BY <1>1, FS_Interval
<1>3. QED
  BY <1>1, <1>2, FS_Subset, FS_CardinalityType

LEMMA AppendCount ==
    ASSUME NEW X, NEW q \in Seq(X), NEW e \in X, NEW S
    PROVE  Cardinality(Places(Append(q, e), S)) = Cardinality(Places(q, S)) + Bit(e \in S)
<1> DEFINE n == Len(q) + 1
           p == Append(q, e)
<1>1. /\ n \in Nat /\ DOMAIN p = 1 .. n /\ DOMAIN q = 1 .. Len(q) /\ p[n] = e
      /\ \A i \in 1 .. Len(q) : p[i] = q[i]
  OBVIOUS
<1>2. /\ \A i : i # n => (i \in Places(q, S) <=> i \in Places(p, S))
      /\ n \notin Places(q, S) /\ (n \in Places(p, S) <=> e \in S)
  BY <1>1 DEF Places
<1> HIDE DEF n, p
<1>3. /\ Cardinality(Places(p, S)) - Bit(n \in Places(p, S))
            = Cardinality(Places(q, S)) - Bit(n \in Places(q, S))
      /\ Cardinality(Places(p, S)) \in Nat /\ Cardinality(Places(q, S)) \in Nat
  BY <1>2, PlacesFinite, CountDiffers
<1>4. Cardinality(Places(p, S)) = Cardinality(Places(q, S)) + Bit(e \in S)
  BY <1>2, <1>3 DEF Bit
<1>5. QED
  BY <1>4 DEF p

LEMMA TailCount ==
    ASSUME NEW X, NEW q \in Seq(X), q # <<>>, NEW S
    PROVE  Cardinality(Places(q, S)) = Cardinality(Places(Tail(q), S)) + Bit(Head(q) \in S)
<1> DEFINE A == Places(q, S) \ {1}
           T == Places(Tail(q), S)
           f == [i \in A |-> i - 1]
<1>1. /\ Len(q) \in Nat \ {0} /\ DOMAIN q = 1 .. Len(q) /\ DOMAIN Tail(q) = 1 .. (Len(q) - 1)
      /\ \A i \in 1 .. (Len(q) - 1) : Tail(q)[i] = q[i + 1]
      /\ Head(q) = q[1]
  OBVIOUS
<1>2. A = {i \in 2 .. Len(q) : q[i] \in S}
  BY <1>1 DEF Places
<1>3. T = {i \in 1 .. (Len(q) - 1) : q[i + 1] \in S}
  BY <1>1 DEF Places
<1> HIDE DEF A, T
<1>4. f \in Bijection(A, T)
  <2>1. f \in [A -> T]
    BY <1>1, <1>2, <1>3
  <2>2. \A i, j \in A : f[i] = f[j] => i = j
    BY <1>1, <1>2
  <2>3. \A j \in T : \E i \in A : f[i] = j
    <3>1. SUFFICES ASSUME NEW j \in T
                   PROVE  j + 1 \in A /\ f[j + 1] = j
      OBVIOUS
    <3>2. QED
      BY <1>1, <1>2, <1>3
  <2>4. QED
    BY <2>1, <2>2, <2>3 DEF Bijection, Injection, Surjection, IsInjective
<1>5. IsFiniteSet(Places(q, S)) /\ IsFiniteSet(A)
      /\ Cardinality(A) = Cardinality(Places(q, S)) - Bit(1 \in Places(q, S))
  BY PlacesFinite, FS_RemoveElement DEF A, Bit
<1>6. Cardinality(T) = Cardinality(A)
  BY <1>4, <1>5, FS_Bijection DEF ExistsBijection
<1>7. 1 \in Places(q, S) <=> Head(q) \in S
  BY <1>1 DEF Places
<1>8. Cardinality(Places(q, S)) \in Nat
  BY PlacesFinite
<1>9. QED
  BY <1>5, <1>6, <1>7, <1>8 DEF T, Bit

(* What handleOverRateSetReqMsg has still to do to the two counters.       *)
GivesBack == {r \in SetMsg : ~r.ok /\ r.global}
Takes(c) == {r \in SetMsg : r.ok /\ r.chan = c}
Pending(S) == Cardinality(Places(setQ, S))

Holding == {m \in Sms : Holds(over[m])}
Units == {m \in Sms : log[m].unit}

GlobalCounts ==
    /\ GlobalConserved <=> globalCount = Cardinality(Holding) + Pending(GivesBack)
                                         + Cardinality(Units) + others
    /\ IsFiniteSet(Holding) /\ IsFiniteSet(Units)
    /\ Cardinality(Holding) \in Nat /\ Cardinality(Units) \in Nat
    /\ Pending(GivesBack) \in Nat /\ \A c : Pending(Takes(c)) \in Nat
    /\ globalCount \in Int /\ others \in Int

LEMMA GlobalAsCounts == TypeInv => GlobalCounts
<1> SUFFICES ASSUME TypeInv
             PROVE  GlobalCounts
  OBVIOUS
<1>1. setQ \in Seq(SetMsg) /\ globalCount \in Int /\ others \in Int
  BY DEF TypeInv, RateTypeOK, CountTypeOK
<1>2. \A i \in DOMAIN setQ : setQ[i] \in SetMsg
  BY <1>1
<1>3. {i \in DOMAIN setQ : ~setQ[i].ok /\ setQ[i].global} = Places(setQ, GivesBack)
  BY <1>2 DEF Places, GivesBack
<1>4. GlobalConserved <=> globalCount = Cardinality(Holding) + Pending(GivesBack)
                                        + Cardinality(Units) + others
  BY <1>3 DEF GlobalConserved, Holding, Units, Pending
<1>5. IsFiniteSet(Holding) /\ IsFiniteSet(Units)
  BY AccessAssumption, FS_Subset DEF Holding, Units
<1>6. \A S : Pending(S) \in Nat
  BY <1>1, PlacesFinite DEF Pending
<1>7. QED
  BY <1>1, <1>4, <1>5, <1>6, FS_CardinalityType DEF GlobalCounts

LEMMA GlobalAsCountsNext == TypeInv' => GlobalCounts'
BY GlobalAsCounts, PTL

LEMMA PostedCount ==
    ASSUME TypeInv, NEW m \in Sms, NEW s, s.initial \in BOOLEAN, s.overState \in BOOLEAN,
           s.plan \in BOOLEAN, s.overState /\ ~s.plan => over[m].chan \in Channels,
           OverRateSetPosted(m, s)
    PROVE  /\ Pending(GivesBack)' = Pending(GivesBack)
                 + Bit(s.overState /\ ~s.plan /\ ~s.initial /\ over[m].global)
           /\ \A c \in Channels : Pending(Takes(c))' = Pending(Takes(c))
                 + Bit(s.overState /\ ~s.plan /\ s.initial /\ over[m].chan = c)
<1>1. /\ over[m] \in OverType(Int) /\ setQ \in Seq(SetMsg)
      /\ Pending(GivesBack) \in Nat /\ \A c : Pending(Takes(c)) \in Nat
  BY GlobalAsCounts DEF GlobalCounts, TypeInv, RateTypeOK
<1>2. CASE s.overState /\ ~s.plan
  <2> DEFINE r == [ok |-> s.initial, global |-> over[m].global, chan |-> over[m].chan]
  <2>1. r \in SetMsg /\ r.ok = s.initial /\ r.global = over[m].global /\ r.chan = over[m].chan
    BY <1>1, <1>2 DEF SetMsg, OverType
  <2>2. setQ' = Append(setQ, r)
    BY <1>2 DEF OverRateSetPosted
  <2> HIDE DEF r
  <2>3. \A S : Cardinality(Places(setQ', S)) = Cardinality(Places(setQ, S)) + Bit(r \in S)
    BY <1>1, <2>1, <2>2, AppendCount
  <2>4. /\ r \in GivesBack <=> ~s.initial /\ over[m].global
        /\ \A c \in Channels : r \in Takes(c) <=> s.initial /\ over[m].chan = c
    BY <2>1 DEF GivesBack, Takes
  <2>5. /\ Pending(GivesBack)' = Cardinality(Places(setQ', GivesBack))
        /\ \A c \in Channels : Pending(Takes(c))' = Cardinality(Places(setQ', Takes(c)))
    BY DEF Pending, GivesBack, Takes, Places
  <2>6. QED
    BY <1>2, <2>3, <2>4, <2>5 DEF Pending, Bit
<1>3. CASE ~(s.overState /\ ~s.plan)
  <2>1. setQ' = setQ
    BY <1>3 DEF OverRateSetPosted, rate_vars
  <2>2. /\ Pending(GivesBack)' = Pending(GivesBack)
        /\ \A c \in Channels : Pending(Takes(c))' = Pending(Takes(c))
    BY <2>1 DEF Pending, GivesBack, Takes, Places
  <2>3. QED
    BY <1>1, <1>3, <2>2 DEF Bit
<1>4. QED
  BY <1>2, <1>3

(* The balance of the global counter over a step that touches one SMS.     *)
LEMMA GlobalBalance ==
    ASSUME TypeInv, TypeInv', GlobalConserved, NEW m \in Sms,
           \A n \in Sms : n # m => over'[n] = over[n] /\ log'[n].unit = log[n].unit,
           NEW d \in Int, Pending(GivesBack)' = Pending(GivesBack) + d, others' = others,
           globalCount' - globalCount = Bit(Holds(over'[m])) - Bit(Holds(over[m])) + d
                                        + Bit(log'[m].unit) - Bit(log[m].unit)
    PROVE  GlobalConserved'
<1>1. /\ globalCount = Cardinality(Holding) + Pending(GivesBack) + Cardinality(Units) + others
      /\ IsFiniteSet(Holding) /\ IsFiniteSet(Units)
      /\ Cardinality(Holding) \in Nat /\ Cardinality(Units) \in Nat /\ Pending(GivesBack) \in Nat
      /\ globalCount \in Int /\ others \in Int
  BY GlobalAsCounts DEF GlobalCounts
<1>2. /\ GlobalConserved' <=> (globalCount = Cardinality(Holding) + Pending(GivesBack)
                                             + Cardinality(Units) + others)'
      /\ globalCount' \in Int
  BY GlobalAsCountsNext DEF GlobalCounts
<1>3. /\ Cardinality(Holding') - Bit(m \in Holding') = Cardinality(Holding) - Bit(m \in Holding)
      /\ Cardinality(Holding') \in Nat
  <2>1. \A y : y # m => (y \in Holding <=> y \in Holding')
    BY DEF Holding
  <2>2. QED
    BY <1>1, <2>1, CountDiffers
<1>4. /\ Cardinality(Units') - Bit(m \in Units') = Cardinality(Units) - Bit(m \in Units)
      /\ Cardinality(Units') \in Nat
  <2>1. \A y : y # m => (y \in Units <=> y \in Units')
    BY DEF Units
  <2>2. QED
    BY <1>1, <2>1, CountDiffers
<1>5. /\ m \in Holding <=> Holds(over[m])
      /\ m \in Holding' <=> Holds(over'[m])
      /\ m \in Units <=> log[m].unit
      /\ m \in Units' <=> log'[m].unit
  BY DEF Holding, Units, Holds
<1> DEFINE h == Cardinality(Holding)
           hp == Cardinality(Holding')
           u == Cardinality(Units)
           up == Cardinality(Units')
           g == Pending(GivesBack)
           gp == Pending(GivesBack)'
<1>6. hp - h = Bit(Holds(over'[m])) - Bit(Holds(over[m]))
  BY <1>1, <1>3, <1>5 DEF Bit
<1>7. up - u = Bit(log'[m].unit) - Bit(log[m].unit)
  BY <1>1, <1>4, <1>5 DEF Bit
<1>8. globalCount' - globalCount = (hp - h) + d + (up - u)
  BY <1>6, <1>7 DEF Bit
<1>9. h \in Nat /\ hp \in Nat /\ u \in Nat /\ up \in Nat /\ g \in Nat /\ gp = g + d
      /\ globalCount = h + g + u + others
  BY <1>1, <1>3, <1>4
<1> HIDE DEF h, hp, u, up, g, gp
<1>10. globalCount' = hp + gp + up + others'
  BY <1>1, <1>2, <1>8, <1>9
<1>11. QED
  BY <1>2, <1>10 DEF hp, gp, up

(* The handlers of the session thread keep the balance: the unit of an     *)
(* over-rate session becomes a message that gives it back or a unit sent.  *)
LEMMA HandledGlobal ==
    ASSUME TypeInv, TypeInv', AllSmsInv, GlobalConserved, NEW m \in Sms, NEW io, NEW rb,
           Handled(m, io, rb), UNCHANGED <<globalCount, others>>
    PROVE  GlobalConserved'
<1>0. /\ over \in [Sms -> OverType(Int)] /\ log \in [Sms -> LogType] /\ globalCount \in Int
      /\ Pending(GivesBack) \in Nat
  BY GlobalAsCounts DEF TypeInv, RateTypeOK, LogTypeOK, CountTypeOK, GlobalCounts
<1>1. ASSUME NEW s, NEW stage, GoesOn(m, s, stage, io, rb)
      PROVE  GlobalConserved'
  <2>1. /\ StageOK(m, s, stage) /\ (over[m].at # "NONE" => s.overState)
        /\ Wait(m, s, stage, io, rb)
    BY <1>1 DEF GoesOn
  <2>2. log' = log /\ setQ' = setQ
    BY <2>1 DEF Wait
  <2>3. CASE stage = "OVERRATE"
    <3>1. over' = [over EXCEPT ![m] = [NoOver EXCEPT !.at = "POSTED", !.chan = s.chan,
                                            !.global = s.failed = {} /\ ~s.reback]]
      BY <2>1, <2>3 DEF Wait
    <3>2. ~Holds(over[m]) /\ ~Holds(over'[m]) /\ \A n \in Sms : n # m => over'[n] = over[n]
      BY <1>0, <2>1, <2>3, <3>1 DEF StageOK, Holds, NoOver
    <3>3. Pending(GivesBack)' = Pending(GivesBack) + 0
      BY <1>0, <2>2 DEF Pending, GivesBack, Places
    <3>4. globalCount' - globalCount = Bit(Holds(over'[m])) - Bit(Holds(over[m])) + 0
                                       + Bit(log'[m].unit) - Bit(log[m].unit)
      BY <1>0, <2>2, <3>2 DEF Bit
    <3>5. QED
      BY <2>2, <3>2, <3>3, <3>4, GlobalBalance
  <2>4. CASE stage # "OVERRATE"
    <3>1. over' = over
      BY <2>1, <2>4 DEF Wait
    <3>2. QED
      BY <2>2, <3>1 DEF GlobalConserved
  <2>5. QED
    BY <2>3, <2>4
<1>2. ASSUME NEW s, Ends(m, s, io, rb)
      PROVE  GlobalConserved'
  <2> DEFINE d == Bit(s.overState /\ ~s.plan /\ ~s.initial /\ over[m].global)
  <2>q. PICK queue \in BOOLEAN : log' = [log EXCEPT ![m] = Logged(m, s, FALSE, queue)]
    BY <1>2 DEF Ends, Finish
  <2>1. /\ EndType(s) /\ EndToken(m, s) /\ OverRateSetPosted(m, s)
        /\ over[m].global /\ over[m].at # "NONE" => ~log[m].unit
    BY <1>2 DEF Ends, EndOK, Finish, InHand
  <2>2. s.overState => over[m].chan \in Channels
    BY <2>1 DEF EndToken, AllSmsInv, SmsInv, OverOK
  <2>3. Pending(GivesBack)' = Pending(GivesBack) + d
    BY <2>1, <2>2, PostedCount DEF EndType
  <2>4. /\ over'[m] = IF s.overState /\ ~s.plan THEN NoOver ELSE over[m]
        /\ \A n \in Sms : n # m => over'[n] = over[n]
    BY <2>1, FinishOver
  <2>5. /\ log'[m].unit <=> log[m].unit \/ (s.initial /\ s.overState /\ over[m].global)
        /\ \A n \in Sms : n # m => log'[n] = log[n]
    <3>1. Entered(m, s, FALSE, queue) /\ \A n \in Sms : n # m => log'[n] = log[n]
      BY <2>q, FinishLog
    <3>2. QED
      BY <3>1 DEF Entered
  <2>6. Bit(Holds(over'[m])) - Bit(Holds(over[m])) + d + Bit(log'[m].unit) - Bit(log[m].unit) = 0
    <3>1. CASE s.overState
      <4>1. over[m].at = "OK" /\ ~s.plan /\ over'[m] = NoOver
        BY <2>1, <2>4, <3>1 DEF EndToken
      <4>2. ~Holds(over'[m]) /\ (Holds(over[m]) <=> over[m].global)
        BY <1>0, <4>1 DEF Holds, NoOver, OverType
      <4>3. Bit(Holds(over'[m])) = 0 /\ Bit(Holds(over[m])) = Bit(over[m].global)
        BY <4>2 DEF Bit
      <4>4. Bit(log'[m].unit) - Bit(log[m].unit) = Bit(s.initial /\ over[m].global)
        <5>1. CASE over[m].global
          <6>1. ~log[m].unit /\ (log'[m].unit <=> s.initial /\ over[m].global)
            BY <2>1, <2>5, <3>1, <4>1, <5>1
          <6>2. QED
            BY <6>1 DEF Bit
        <5>2. CASE ~over[m].global
          <6>1. (log'[m].unit <=> log[m].unit) /\ ~(s.initial /\ over[m].global)
            BY <2>5, <5>2
          <6>2. QED
            BY <6>1 DEF Bit
        <5>3. QED
          BY <5>1, <5>2
      <4>5. d = Bit(~s.initial /\ over[m].global)
        BY <3>1, <4>1 DEF Bit
      <4>6. /\ Bit(log'[m].unit) \in Int /\ Bit(log[m].unit) \in Int /\ Bit(over[m].global) \in Int
            /\ Bit(over[m].global) = Bit(~s.initial /\ over[m].global) + Bit(s.initial /\ over[m].global)
            /\ Bit(~s.initial /\ over[m].global) \in Int /\ Bit(s.initial /\ over[m].global) \in Int
        BY DEF Bit
      <4>7. QED
        BY <4>3, <4>4, <4>5, <4>6
    <3>2. CASE ~s.overState
      <4>1. over[m].at = "NONE" /\ over'[m] = over[m]
        BY <2>1, <2>4, <3>2 DEF EndToken
      <4>2. ~Holds(over'[m]) /\ ~Holds(over[m]) /\ (log'[m].unit <=> log[m].unit)
        BY <2>5, <3>2, <4>1 DEF Holds
      <4>3. QED
        BY <3>2, <4>2 DEF Bit
    <3>3. QED
      BY <3>1, <3>2
  <2>7. d \in Int
    BY DEF Bit
  <2> HIDE DEF d
  <2>8. globalCount' - globalCount = Bit(Holds(over'[m])) - Bit(Holds(over[m])) + d
                                     + Bit(log'[m].unit) - Bit(log[m].unit)
    BY <1>0, <2>6
  <2>9. QED
    BY <2>3, <2>4, <2>5, <2>7, <2>8, GlobalBalance
<1>3. QED
  BY <1>1, <1>2 DEF Handled

LEMMA TimeOutGlobal ==
    ASSUME TypeInv, TypeInv', AllSmsInv, GlobalConserved, NEW m \in Sms, HandleTimeOut(m)
    PROVE  GlobalConserved'
<1> DEFINE s == [session[m] EXCEPT !.initial = FALSE]
           d == Bit(session[m].overState /\ ~session[m].plan /\ over[m].global)
<1>0. /\ over \in [Sms -> OverType(Int)] /\ log \in [Sms -> LogType] /\ globalCount \in Int
      /\ session[m] \in SessionType
  BY DEF TypeInv, RateTypeOK, LogTypeOK, CountTypeOK, SessionTypeOK
<1>1. TimedOut(m)
  BY TimeOutFacts
<1>2. /\ OverRateSetPosted(m, s) /\ session[m].open
      /\ over'[m] = IF session[m].overState /\ ~session[m].plan THEN NoOver ELSE over[m]
      /\ \A n \in Sms : n # m => over'[n] = over[n] /\ log'[n] = log[n]
      /\ log'[m].unit <=> log[m].unit
      /\ globalCount' = globalCount /\ others' = others
  BY <1>1 DEF TimedOut, redis_vars, env_vars
<1>3. /\ s.initial = FALSE /\ s.overState = session[m].overState /\ s.plan = session[m].plan
      /\ s.overState \in BOOLEAN /\ s.plan \in BOOLEAN /\ s.initial \in BOOLEAN
  BY <1>0 DEF SessionType
<1>4. session[m].overState => over[m].chan \in Channels /\ over[m].at = "OK"
  BY <1>2, OwnedFacts DEF StageOK, SmsInv, OverOK
<1>p. s.overState /\ ~s.plan => over[m].chan \in Channels
  BY <1>3, <1>4
<1>o. OverRateSetPosted(m, s)
  BY <1>2
<1> HIDE DEF s
<1>5. Pending(GivesBack)' = Pending(GivesBack) + Bit(s.overState /\ ~s.plan /\ ~s.initial /\ over[m].global)
  BY <1>3, <1>p, <1>o, PostedCount
<1>6. Pending(GivesBack)' = Pending(GivesBack) + d
  BY <1>3, <1>5 DEF Bit
<1>7. Bit(Holds(over'[m])) - Bit(Holds(over[m])) + d + Bit(log'[m].unit) - Bit(log[m].unit) = 0
  <2>1. CASE session[m].overState /\ ~session[m].plan
    <3>1. ~Holds(over'[m]) /\ (Holds(over[m]) <=> over[m].global)
      BY <1>0, <1>2, <1>4, <2>1 DEF Holds, NoOver, OverType
    <3>2. QED
      BY <1>2, <2>1, <3>1 DEF Bit
  <2>2. CASE ~(session[m].overState /\ ~session[m].plan)
    BY <1>2, <2>2 DEF Bit
  <2>3. QED
    BY <2>1, <2>2
<1>8. d \in Int
  BY DEF Bit
<1> HIDE DEF d
<1>9. globalCount' - globalCount = Bit(Holds(over'[m])) - Bit(Holds(over[m])) + d
                                   + Bit(log'[m].unit) - Bit(log[m].unit)
  BY <1>0, <1>2, <1>7
<1>10. QED
  BY <1>2, <1>6, <1>8, <1>9, GlobalBalance

LEMMA OverRateGlobal ==
    ASSUME TypeInv, TypeInv', GlobalConserved, NEW m \in Sms, OverSteps(m)
    PROVE  GlobalConserved'
<1>0. /\ over \in [Sms -> OverType(Int)] /\ globalCount \in Int /\ Pending(GivesBack) \in Nat
      /\ over' = [over EXCEPT ![m] = over'[m]] /\ log' = log /\ setQ' = setQ /\ others' = others
  BY GlobalAsCounts DEF TypeInv, RateTypeOK, CountTypeOK, GlobalCounts, OverSteps
<1>1. globalCount' - globalCount = Bit(Holds(over'[m])) - Bit(Holds(over[m]))
  <2>1. CASE OverMoves(m)
    BY <1>0, <2>1 DEF OverMoves, Bit
  <2>2. CASE OverRefuses(m)
    <3>1. ~Holds(over'[m])
      BY <1>0, <2>2 DEF OverRefuses, Holds, NoOver
    <3>2. QED
      BY <1>0, <2>2, <3>1 DEF OverRefuses, Bit
  <2>3. CASE OverPasses(m)
    <3>1. Holds(over'[m]) <=> Holds(over[m])
      BY <2>3 DEF OverPasses, Holds
    <3>2. QED
      BY <1>0, <2>3, <3>1 DEF OverPasses, Bit
  <2>4. QED
    BY <2>1, <2>2, <2>3 DEF OverSteps
<1>2. Pending(GivesBack)' = Pending(GivesBack) + 0
  BY <1>0 DEF Pending, GivesBack, Places
<1>3. globalCount' - globalCount = Bit(Holds(over'[m])) - Bit(Holds(over[m])) + 0
                                   + Bit(log'[m].unit) - Bit(log[m].unit)
  BY <1>0, <1>1 DEF Bit
<1>4. QED
  BY <1>0, <1>2, <1>3, GlobalBalance

LEMMA SetReqCounts ==
    ASSUME TypeInv, OverRateSetReq
    PROVE  /\ setQ # <<>> /\ Head(setQ) \in SetMsg
           /\ Pending(GivesBack) = Pending(GivesBack)' + Bit(~Head(setQ).ok /\ Head(setQ).global)
           /\ \A c \in Channels : Pending(Takes(c)) = Pending(Takes(c))'
                                     + Bit(Head(setQ).ok /\ Head(setQ).chan = c)
<1>1. setQ \in Seq(SetMsg) /\ setQ # <<>> /\ setQ' = Tail(setQ)
  BY DEF TypeInv, RateTypeOK, OverRateSetReq
<1>2. Head(setQ) \in SetMsg
  BY <1>1
<1>3. \A S : Cardinality(Places(setQ, S)) = Cardinality(Places(setQ', S)) + Bit(Head(setQ) \in S)
  BY <1>1, TailCount
<1>4. /\ Pending(GivesBack)' = Cardinality(Places(setQ', GivesBack))
      /\ \A c : Pending(Takes(c))' = Cardinality(Places(setQ', Takes(c)))
  BY DEF Pending, GivesBack, Takes, Places
<1>5. /\ Head(setQ) \in GivesBack <=> ~Head(setQ).ok /\ Head(setQ).global
      /\ \A c : Head(setQ) \in Takes(c) <=> Head(setQ).ok /\ Head(setQ).chan = c
  BY <1>2 DEF GivesBack, Takes
<1>6. QED
  BY <1>1, <1>2, <1>3, <1>4, <1>5 DEF Pending, Bit

(* A step that leaves all the terms but the pending messages and what is   *)
(* of other SMS alone.                                                     *)
LEMMA GlobalFrame ==
    ASSUME TypeInv, TypeInv', GlobalConserved, NEW d \in Int, NEW e \in Int,
           UNCHANGED <<over, log>>, Pending(GivesBack)' = Pending(GivesBack) + d,
           others' = others + e, globalCount' = globalCount + d + e
    PROVE  GlobalConserved'
<1>1. GlobalCounts /\ GlobalCounts'
  BY GlobalAsCounts, GlobalAsCountsNext
<1>2. Cardinality(Holding)' = Cardinality(Holding) /\ Cardinality(Units)' = Cardinality(Units)
  BY DEF Holding, Units, Holds
<1>3. globalCount = Cardinality(Holding) + Pending(GivesBack) + Cardinality(Units) + others
  BY <1>1 DEF GlobalCounts
<1>4. globalCount' = Cardinality(Holding)' + Pending(GivesBack)' + Cardinality(Units)' + others'
  BY <1>1, <1>2, <1>3 DEF GlobalCounts
<1>5. QED
  BY <1>1, <1>4 DEF GlobalCounts

LEMMA GlobalStep ==
    ASSUME TypeInv, TypeInv', AllSmsInv, GlobalConserved, [AccessNext]_access_vars
    PROVE  GlobalConserved'
<1>0. GlobalCounts
  BY GlobalAsCounts
<1>s. ASSUME UNCHANGED <<over, setQ, globalCount, others>>,
             \A n \in Sms : log'[n].unit = log[n].unit
      PROVE  GlobalConserved'
  BY <1>s DEF GlobalConserved
<1>1. ASSUME NEW m \in Sms, SessionThread(m)
      PROVE  GlobalConserved'
  <2>1. /\ UNCHANGED <<globalCount, others>>
        /\ TakesNew(m) \/ TakesBack(m) \/ TakesAnswer(m)
    BY <1>1, SessionThreadCases DEF env_vars
  <2>2. CASE \E io, rb : Handled(m, io, rb)
    BY <2>1, <2>2, HandledGlobal
  <2>3. CASE FinishHeld(m)
    BY <1>s, <2>1, <2>3 DEF FinishHeld, rate_vars
  <2>4. QED
    BY <2>1, <2>2, <2>3 DEF TakesNew, TakesBack, TakesAnswer
<1>2. ASSUME NEW m \in Sms, HandleTimeOut(m)
      PROVE  GlobalConserved'
  BY <1>2, TimeOutGlobal
<1>3. ASSUME NEW m \in Sms, AuditAnswer(m) \/ AuditResult(m)
      PROVE  GlobalConserved'
  <2>1. UNCHANGED <<over, setQ, globalCount, others>>
    BY <1>3 DEF AuditAnswer, AuditThread, AuditResult, rate_vars, redis_vars, env_vars
  <2>2. \A n \in Sms : log'[n].unit = log[n].unit
    <3>1. CASE AuditAnswer(m)
      <4>1. PICK r : AuditThread(m, r)
        BY <3>1 DEF AuditAnswer
      <4>2. QED
        BY <4>1, HeardOrNot DEF HeardLog
    <3>2. CASE AuditResult(m)
      BY <3>2 DEF AuditResult, Reaudited, TypeInv, LogTypeOK, LogType
    <3>3. QED
      BY <1>3, <3>1, <3>2
  <2>3. QED
    BY <1>s, <2>1, <2>2
<1>4. ASSUME NEW m \in Sms, OverRateThread(m) \/ ReplyLost(m)
      PROVE  GlobalConserved'
  BY <1>4, OverRateThreadCases, OverRateGlobal
<1>5. ASSUME NEW m \in Sms, ChargeServer(m)
      PROVE  GlobalConserved'
  <2>1. UNCHANGED <<over, setQ, globalCount, others>>
    BY <1>5 DEF ChargeServer, rate_vars, redis_vars, env_vars
  <2>2. \A n \in Sms : log'[n].unit = log[n].unit
    BY <1>5 DEF ChargeServer, TypeInv, LogTypeOK, LogType
  <2>3. QED
    BY <1>s, <2>1, <2>2
<1>6. ASSUME NEW q \in channelMq, Deliver(q) \/ SendReback(q)
      PROVE  GlobalConserved'
  <2>1. UNCHANGED <<over, setQ, globalCount, others>>
    BY <1>6 DEF Deliver, SendReback, rate_vars, redis_vars, env_vars
  <2>2. \A n \in Sms : log'[n].unit = log[n].unit
    BY <1>6 DEF Deliver, SendReback, TypeInv, LogTypeOK, LogType
  <2>3. QED
    BY <1>s, <2>1, <2>2
<1>7. CASE OverRateSetReq
  <2> DEFINE q == Head(setQ)
             b == Bit(~q.ok /\ q.global)
  <2>1. Pending(GivesBack) = Pending(GivesBack)' + b /\ q \in SetMsg
    BY <1>7, SetReqCounts
  <2>2. /\ UNCHANGED <<over, log, others>>
        /\ globalCount' = IF ~q.ok /\ q.global THEN globalCount - 1 ELSE globalCount
    BY <1>7 DEF OverRateSetReq, env_vars
  <2>3. globalCount' = globalCount - b /\ b \in {0, 1}
    BY <1>0, <2>2 DEF Bit, GlobalCounts
  <2> HIDE DEF q, b
  <2>4. Pending(GivesBack)' \in Nat
    BY GlobalAsCountsNext DEF GlobalCounts
  <2>5. /\ Pending(GivesBack)' = Pending(GivesBack) + (-b) /\ others' = others + 0
        /\ globalCount' = globalCount + (-b) + 0 /\ -b \in Int
    BY <1>0, <2>1, <2>2, <2>3, <2>4 DEF GlobalCounts
  <2>6. QED
    BY <2>2, <2>5, GlobalFrame
<1>8. CASE CleanOverRateMap
  BY <1>s, <1>8 DEF CleanOverRateMap, rate_vars, env_vars
<1>9. CASE OtherSms
  <2>1. UNCHANGED <<over, log, setQ>>
    BY <1>9 DEF OtherSms, rate_vars
  <2>2. CASE UNCHANGED <<others, globalCount>>
    BY <1>s, <2>1, <2>2
  <2>3. ASSUME NEW n \in 0 .. MaxOthers, others' = n, globalCount' = globalCount + n - others
        PROVE  GlobalConserved'
    <3> DEFINE e == n - others
    <3>1. Pending(GivesBack)' = Pending(GivesBack) + 0
      BY <1>0, <2>1 DEF Pending, GivesBack, Places, GlobalCounts
    <3>2. e \in Int /\ others' = others + e /\ globalCount' = globalCount + 0 + e
      BY <1>0, <2>3 DEF GlobalCounts
    <3> HIDE DEF e
    <3>3. QED
      BY <2>1, <3>1, <3>2, GlobalFrame
  <2>4. QED
    BY <1>9, <2>2, <2>3 DEF OtherSms
<1>10. ASSUME NEW c \in Closing, ChannelUpdate(c)
       PROVE  GlobalConserved'
  BY <1>s, <1>10 DEF ChannelUpdate, rate_vars, redis_vars, env_vars
<1>11. CASE UNCHANGED access_vars
  BY <1>s, <1>11 DEF access_vars, rate_vars, redis_vars, env_vars
<1>12. QED
  BY <1>1, <1>2, <1>3, <1>4, <1>5, <1>6, <1>7, <1>8, <1>9, <1>10, <1>11
     DEF AccessNext, AuditAnswer, SendComponent, Of

-----------------------------------------------------------------------------
(* The day counters.                                                       *)
SentOn(c) == {q \in channelMq : q.chan = c}
BackFrom(c) == {q \in rebackMq : q.chan = c /\ ~q.again}
DeliveredOn(c) == {m \in Sms : c \in {log[m].delivered, log[m].unsent}}
DayAt(c) ==
    chanDay[c] + Pending(Takes(c)) = Cardinality(SentOn(c)) + Cardinality(BackFrom(c))
                                     + Cardinality(DeliveredOn(c)) + otherDay[c]

DayCounts ==
    /\ ChannelDayConserved <=> \A c \in Channels : DayAt(c)
    /\ \A c \in Channels :
          /\ IsFiniteSet(SentOn(c)) /\ IsFiniteSet(BackFrom(c)) /\ IsFiniteSet(DeliveredOn(c))
          /\ Cardinality(SentOn(c)) \in Nat /\ Cardinality(BackFrom(c)) \in Nat
          /\ Cardinality(DeliveredOn(c)) \in Nat /\ Pending(Takes(c)) \in Nat
          /\ chanDay[c] \in Int /\ otherDay[c] \in Int

(* A queue with one message of an SMS at most is finite.                   *)
LEMMA QueueFinite ==
    ASSUME NEW Q, \A q \in Q : q.sms \in Sms, \A m \in Sms : AtMostOne(Of(m, Q))
    PROVE  IsFiniteSet(Q)
<1> DEFINE f == [q \in Q |-> q.sms]
<1>1. f \in [Q -> Sms]
  OBVIOUS
<1>2. \A p, q \in Q : f[p] = f[q] => p = q
  BY DEF AtMostOne, Of
<1>3. f \in Injection(Q, Sms)
  BY <1>1, <1>2 DEF Injection, IsInjective
<1>4. QED
  BY <1>3, AccessAssumption, FS_Injection

LEMMA DayAsCounts == TypeInv /\ AllSmsInv => DayCounts
<1> SUFFICES ASSUME TypeInv, AllSmsInv
             PROVE  DayCounts
  OBVIOUS
<1>1. IsFiniteSet(channelMq) /\ IsFiniteSet(rebackMq)
  <2>1. \A q \in channelMq \cup rebackMq : q.sms \in Sms
    BY DEF TypeInv, MqTypeOK, ChannelMsg, RebackMsg
  <2>2. \A m \in Sms : AtMostOne(Of(m, channelMq)) /\ AtMostOne(Of(m, rebackMq))
    BY DEF AllSmsInv, SmsInv, OnePlace
  <2>3. QED
    BY <2>1, <2>2, QueueFinite
<1>2. ASSUME NEW c \in Channels
      PROVE  /\ IsFiniteSet(SentOn(c)) /\ IsFiniteSet(BackFrom(c)) /\ IsFiniteSet(DeliveredOn(c))
             /\ Pending(Takes(c)) \in Nat /\ chanDay[c] \in Int /\ otherDay[c] \in Int
             /\ {i \in DOMAIN setQ : setQ[i].ok /\ setQ[i].chan = c} = Places(setQ, Takes(c))
  <2>1. SentOn(c) \in SUBSET channelMq /\ BackFrom(c) \in SUBSET rebackMq
        /\ DeliveredOn(c) \in SUBSET Sms
    BY DEF SentOn, BackFrom, DeliveredOn
  <2>2. IsFiniteSet(SentOn(c)) /\ IsFiniteSet(BackFrom(c)) /\ IsFiniteSet(DeliveredOn(c))
    BY <1>1, <2>1, FS_Subset, AccessAssumption
  <2>3. \A i \in DOMAIN setQ : setQ[i] \in SetMsg
    BY DEF TypeInv, RateTypeOK
  <2>4. {i \in DOMAIN setQ : setQ[i].ok /\ setQ[i].chan = c} = Places(setQ, Takes(c))
    BY <2>3 DEF Places, Takes
  <2>5. chanDay[c] \in Int /\ otherDay[c] \in Int
    BY DEF TypeInv, CountTypeOK
  <2>6. Pending(Takes(c)) \in Nat
    BY GlobalAsCounts DEF GlobalCounts
  <2>7. QED
    BY <2>2, <2>4, <2>5, <2>6
<1>3. ChannelDayConserved <=> \A c \in Channels : DayAt(c)
  BY <1>2 DEF ChannelDayConserved, DayAt, SentOn, BackFrom, DeliveredOn, Pending
<1>4. QED
  BY <1>2, <1>3, FS_CardinalityType DEF DayCounts

LEMMA DayAsCountsNext == (TypeInv /\ AllSmsInv)' => DayCounts'
BY DayAsCounts, PTL

LEMMA DayBalance ==
    ASSUME DayCounts, DayCounts', NEW c \in Channels, DayAt(c),
           NEW dS \in Int, NEW dB \in Int, NEW dD \in Int, NEW dP \in Int, NEW dO \in Int,
           Cardinality(SentOn(c))' = Cardinality(SentOn(c)) + dS,
           Cardinality(BackFrom(c))' = Cardinality(BackFrom(c)) + dB,
           Cardinality(DeliveredOn(c))' = Cardinality(DeliveredOn(c)) + dD,
           Pending(Takes(c))' = Pending(Takes(c)) + dP,
           otherDay'[c] = otherDay[c] + dO,
           chanDay'[c] = chanDay[c] + (dS + dB + dD + dO) - dP
    PROVE  DayAt(c)'
<1>1. /\ Cardinality(SentOn(c)) \in Nat /\ Cardinality(BackFrom(c)) \in Nat
      /\ Cardinality(DeliveredOn(c)) \in Nat /\ Pending(Takes(c)) \in Nat
      /\ chanDay[c] \in Int /\ otherDay[c] \in Int
  BY DEF DayCounts
<1>2. chanDay[c] + Pending(Takes(c)) = Cardinality(SentOn(c)) + Cardinality(BackFrom(c))
                                       + Cardinality(DeliveredOn(c)) + otherDay[c]
  BY DEF DayAt
<1>3. chanDay'[c] + Pending(Takes(c))' = Cardinality(SentOn(c))' + Cardinality(BackFrom(c))'
                                         + Cardinality(DeliveredOn(c))' + otherDay'[c]
  BY <1>1, <1>2
<1>4. QED
  BY <1>3 DEF DayAt

(* What a handler does to the terms: a message sent, or recorded as sent   *)
(* with nothing published, is one to be counted.                           *)
HandledTerms(c, rb) ==
    /\ (Cardinality(SentOn(c))' - Cardinality(SentOn(c)))
          + (Cardinality(DeliveredOn(c))' - Cardinality(DeliveredOn(c)))
       = Pending(Takes(c))' - Pending(Takes(c))
    /\ Cardinality(SentOn(c))' \in Nat /\ Cardinality(DeliveredOn(c))' \in Nat
    /\ Pending(Takes(c))' \in Nat
    /\ BackFrom(c)' = {q \in rb : q.chan = c /\ ~q.again}

LEMMA HandledDay ==
    ASSUME TypeInv, AllSmsInv, NEW m \in Sms, NEW io, NEW rb, Handled(m, io, rb), NEW c \in Channels
    PROVE  HandledTerms(c, rb)
<1>0. /\ IsFiniteSet(SentOn(c)) /\ Cardinality(SentOn(c)) \in Nat /\ Pending(Takes(c)) \in Nat
      /\ IsFiniteSet(DeliveredOn(c)) /\ Cardinality(DeliveredOn(c)) \in Nat
  BY DayAsCounts DEF DayCounts
<1>1. ASSUME NEW s, NEW stage, GoesOn(m, s, stage, io, rb)
      PROVE  HandledTerms(c, rb)
  <2>1. rebackMq' = rb /\ channelMq' = channelMq /\ setQ' = setQ /\ log' = log
    BY <1>1 DEF GoesOn, Wait
  <2>2. /\ SentOn(c)' = SentOn(c) /\ Pending(Takes(c))' = Pending(Takes(c))
        /\ DeliveredOn(c)' = DeliveredOn(c) /\ BackFrom(c)' = {q \in rb : q.chan = c /\ ~q.again}
    BY <2>1 DEF SentOn, Pending, Places, Takes, BackFrom, DeliveredOn
  <2>3. QED
    BY <1>0, <2>2 DEF HandledTerms
<1>2. ASSUME NEW s, Ends(m, s, io, rb)
      PROVE  HandledTerms(c, rb)
  <2>q. PICK queue \in BOOLEAN : /\ channelMq' = Published(m, s, queue)
                                 /\ log' = [log EXCEPT ![m] = Logged(m, s, FALSE, queue)]
    BY <1>2 DEF Ends, Finish
  <2>1. /\ EndType(s) /\ EndToken(m, s) /\ EndPlace(m, s) /\ OverRateSetPosted(m, s)
        /\ rebackMq' = SentBack(m, s, rb) /\ Of(m, channelMq) = {}
        /\ log[m].delivered = NoChannel /\ log[m].unsent = NoChannel
    BY <1>2 DEF Ends, EndOK, Finish, InHand
  <2>2. s.overState => over[m].chan \in Channels /\ over[m].chan = s.chan /\ ~s.plan
    BY <2>1 DEF EndToken, AllSmsInv, SmsInv, OverOK
  <2>3. Pending(Takes(c))' = Pending(Takes(c))
                             + Bit(s.overState /\ ~s.plan /\ s.initial /\ over[m].chan = c)
    BY <2>1, <2>2, PostedCount DEF EndType
  <2>4. BackFrom(c)' = {q \in rb : q.chan = c /\ ~q.again}
    <3> DEFINE r == [sms |-> m, count |-> s.count, chan |-> s.origin, again |-> TRUE]
    <3>1. r.again = TRUE
      OBVIOUS
    <3>2. rebackMq' = rb \/ rebackMq' = rb \cup {r}
      BY <2>1 DEF SentBack
    <3> HIDE DEF r
    <3>3. QED
      BY <3>1, <3>2 DEF BackFrom
  <2>5. /\ log'[m].delivered = NoChannel /\ \A n \in Sms : n # m => log'[n] = log[n]
        /\ log'[m].unsent = IF s.initial /\ s.overState /\ ~Publishes(s, queue)
                            THEN over[m].chan ELSE NoChannel
    <3>1. Entered(m, s, FALSE, queue) /\ \A n \in Sms : n # m => log'[n] = log[n]
      BY <2>q, FinishLog
    <3>2. QED
      BY <2>1, <3>1 DEF Entered
  <2>6. CASE Publishes(s, queue)
    <3> DEFINE r == [sms |-> m, chan |-> s.chan, count |-> IF s.reback THEN s.count ELSE 1]
    <3>0. s.initial /\ s.chan # NoChannel
      BY <2>6 DEF Publishes
    <3>1. r.sms = m /\ r.chan = s.chan
      OBVIOUS
    <3>2. channelMq' = channelMq \cup {r}
      BY <2>q, <2>6 DEF Published
    <3> HIDE DEF r
    <3>3. r \notin channelMq
      BY <2>1, <3>1 DEF Of
    <3>4. /\ \A y : y # r => (y \in SentOn(c) <=> y \in SentOn(c)')
          /\ r \notin SentOn(c) /\ (r \in SentOn(c)' <=> s.chan = c)
      BY <3>1, <3>2, <3>3 DEF SentOn
    <3>5. /\ Cardinality(SentOn(c)') - Bit(r \in SentOn(c)') = Cardinality(SentOn(c)) - Bit(r \in SentOn(c))
          /\ Cardinality(SentOn(c)') \in Nat
      BY <1>0, <3>4, CountDiffers
    <3>6. Cardinality(SentOn(c)') = Cardinality(SentOn(c)) + Bit(s.chan = c)
      BY <1>0, <3>4, <3>5 DEF Bit
    <3>7. s.overState
      BY <2>1, <3>0 DEF EndPlace
    <3>8. Pending(Takes(c))' = Pending(Takes(c)) + Bit(s.chan = c)
      BY <2>2, <2>3, <3>0, <3>7 DEF Bit
    <3>9. Bit(s.chan = c) \in Nat
      BY DEF Bit
    <3>d. DeliveredOn(c)' = DeliveredOn(c)
      BY <2>1, <2>5, <2>6 DEF DeliveredOn
    <3>10. QED
      BY <1>0, <2>4, <3>5, <3>6, <3>8, <3>9, <3>d DEF HandledTerms
  <2>7. CASE ~Publishes(s, queue)
    <3> DEFINE b == s.overState /\ s.initial /\ over[m].chan = c
    <3>1. SentOn(c)' = SentOn(c)
      BY <2>q, <2>7 DEF Published, SentOn
    <3>2. /\ \A y : y # m => (y \in DeliveredOn(c) <=> y \in DeliveredOn(c)')
          /\ m \notin DeliveredOn(c) /\ (m \in DeliveredOn(c)' <=> b)
      BY <2>1, <2>5, <2>7, AccessAssumption DEF DeliveredOn
    <3>3. Pending(Takes(c))' = Pending(Takes(c)) + Bit(b)
      BY <2>2, <2>3 DEF Bit
    <3> HIDE DEF b
    <3>4. /\ Cardinality(DeliveredOn(c)') - Bit(m \in DeliveredOn(c)')
             = Cardinality(DeliveredOn(c)) - Bit(m \in DeliveredOn(c))
          /\ Cardinality(DeliveredOn(c)') \in Nat
      BY <1>0, <3>2, CountDiffers
    <3>5. Cardinality(DeliveredOn(c)') = Cardinality(DeliveredOn(c)) + Bit(b) /\ Bit(b) \in Nat
      BY <1>0, <3>2, <3>4 DEF Bit
    <3>6. QED
      BY <1>0, <2>4, <3>1, <3>3, <3>4, <3>5 DEF HandledTerms
  <2>8. QED
    BY <2>6, <2>7
<1>3. QED
  BY <1>1, <1>2 DEF Handled

LEMMA TakesBackDay ==
    ASSUME TypeInv, AllSmsInv, NEW m \in Sms, NEW q \in rebackMq, q.sms = m, chanDay' = GivenBack(q),
           NEW c \in Channels, BackFrom(c)' = {p \in rebackMq \ {q} : p.chan = c /\ ~p.again}
    PROVE  /\ Cardinality(BackFrom(c))' = Cardinality(BackFrom(c)) + (-Bit(q.chan = c /\ ~q.again))
           /\ chanDay'[c] = chanDay[c] + (-Bit(q.chan = c /\ ~q.again))
<1>1. q \in RebackMsg /\ chanDay \in [Channels -> Int] /\ (q.again => q.count >= 2)
  BY DEF TypeInv, MqTypeOK, CountTypeOK, AllSmsInv, SmsInv, VerdictOK, Of
<1>2. q.count \in Nat /\ q.chan \in Channels /\ q.again \in BOOLEAN
  BY <1>1, AccessAssumption DEF RebackMsg
<1>3. chanDay'[c] = chanDay[c] + (-Bit(q.chan = c /\ ~q.again))
  <2>1. q.count = 1 \/ ~q.again <=> ~q.again
    BY <1>1, <1>2
  <2>2. chanDay' = IF ~q.again THEN [chanDay EXCEPT ![q.chan] = @ - 1] ELSE chanDay
    BY <2>1 DEF GivenBack
  <2>3. QED
    BY <1>1, <1>2, <2>2 DEF Bit
<1> DEFINE T == {p \in rebackMq \ {q} : p.chan = c /\ ~p.again}
<1>4. /\ \A y : y # q => (y \in BackFrom(c) <=> y \in T)
      /\ q \notin T /\ (q \in BackFrom(c) <=> q.chan = c /\ ~q.again)
  BY DEF BackFrom
<1>5. IsFiniteSet(BackFrom(c)) /\ Cardinality(BackFrom(c)) \in Nat
  BY DayAsCounts DEF DayCounts
<1>e. Cardinality(BackFrom(c))' = Cardinality(T)
  OBVIOUS
<1> HIDE DEF T
<1>6. /\ Cardinality(T) - Bit(q \in T) = Cardinality(BackFrom(c)) - Bit(q \in BackFrom(c))
      /\ Cardinality(T) \in Nat
  BY <1>4, <1>5, CountDiffers
<1>7. QED
  BY <1>3, <1>4, <1>5, <1>6, <1>e DEF Bit

(* Nothing the balance of the day counters speaks of changes.              *)
LEMMA DayFrame ==
    ASSUME ChannelDayConserved, UNCHANGED <<chanDay, setQ, channelMq, rebackMq, otherDay>>,
           \A n \in Sms : log'[n].delivered = log[n].delivered /\ log'[n].unsent = log[n].unsent
    PROVE  ChannelDayConserved'
BY DEF ChannelDayConserved

LEMMA SessionThreadDay ==
    ASSUME TypeInv, AllSmsInv, TypeInv', AllSmsInv', ChannelDayConserved, NEW m \in Sms,
           SessionThread(m)
    PROVE  ChannelDayConserved'
<1>1. /\ UNCHANGED otherDay /\ (TakesNew(m) \/ TakesBack(m) \/ TakesAnswer(m))
  BY SessionThreadCases DEF env_vars
<1>2. CASE FinishHeld(m) /\ UNCHANGED chanDay
  BY <1>1, <1>2, DayFrame DEF FinishHeld, mq_vars, rate_vars
<1>3. DayCounts /\ DayCounts'
  BY DayAsCounts, DayAsCountsNext
<1>4. ASSUME NEW io, Handled(m, io, rebackMq), UNCHANGED chanDay, NEW c \in Channels
      PROVE  DayAt(c)'
  <2> DEFINE d == Cardinality(SentOn(c))' - Cardinality(SentOn(c))
             e == Cardinality(DeliveredOn(c))' - Cardinality(DeliveredOn(c))
  <2>1. /\ Cardinality(SentOn(c)) \in Nat /\ Pending(Takes(c)) \in Nat /\ DayAt(c)
        /\ Cardinality(BackFrom(c)) \in Nat /\ Cardinality(DeliveredOn(c)) \in Nat
        /\ chanDay[c] \in Int /\ otherDay[c] \in Int
    BY <1>3 DEF DayCounts
  <2>2. HandledTerms(c, rebackMq)
    BY <1>4, HandledDay
  <2>3. /\ d \in Int /\ e \in Int /\ Cardinality(SentOn(c))' = Cardinality(SentOn(c)) + d
        /\ Cardinality(DeliveredOn(c))' = Cardinality(DeliveredOn(c)) + e
        /\ Pending(Takes(c))' = Pending(Takes(c)) + (d + e)
    BY <2>1, <2>2 DEF HandledTerms
  <2>4. BackFrom(c)' = BackFrom(c)
    BY <2>2 DEF BackFrom, HandledTerms
  <2> HIDE DEF d, e
  <2>5. /\ Cardinality(BackFrom(c))' = Cardinality(BackFrom(c))
        /\ otherDay'[c] = otherDay[c] /\ chanDay'[c] = chanDay[c]
    BY <1>1, <1>4, <2>4
  <2>6. chanDay[c] + (Pending(Takes(c)) + (d + e))
        = (Cardinality(SentOn(c)) + d) + Cardinality(BackFrom(c)) + (Cardinality(DeliveredOn(c)) + e)
          + otherDay[c]
    BY <2>1, <2>3 DEF DayAt
  <2>7. QED
    BY <2>3, <2>5, <2>6 DEF DayAt
<1>5. ASSUME NEW q \in rebackMq, q.sms = m, Handled(m, ioMq, rebackMq \ {q}), chanDay' = GivenBack(q),
             NEW c \in Channels
      PROVE  DayAt(c)'
  <2> DEFINE d == Cardinality(SentOn(c))' - Cardinality(SentOn(c))
             e == Cardinality(DeliveredOn(c))' - Cardinality(DeliveredOn(c))
             b == -Bit(q.chan = c /\ ~q.again)
  <2>1. /\ Cardinality(SentOn(c)) \in Nat /\ Pending(Takes(c)) \in Nat /\ DayAt(c)
        /\ Cardinality(BackFrom(c)) \in Nat /\ Cardinality(DeliveredOn(c)) \in Nat
        /\ chanDay[c] \in Int /\ otherDay[c] \in Int
    BY <1>3 DEF DayCounts
  <2>2. HandledTerms(c, rebackMq \ {q})
    BY <1>5, HandledDay
  <2>3. /\ d \in Int /\ e \in Int /\ Cardinality(SentOn(c))' = Cardinality(SentOn(c)) + d
        /\ Cardinality(DeliveredOn(c))' = Cardinality(DeliveredOn(c)) + e
        /\ Pending(Takes(c))' = Pending(Takes(c)) + (d + e)
    BY <2>1, <2>2 DEF HandledTerms
  <2>p. BackFrom(c)' = {p \in rebackMq \ {q} : p.chan = c /\ ~p.again}
    BY <2>2 DEF HandledTerms
  <2>4. /\ Cardinality(BackFrom(c))' = Cardinality(BackFrom(c)) + b
        /\ chanDay'[c] = chanDay[c] + b
    BY <1>5, <2>p, TakesBackDay
  <2>b. b \in Int /\ d + e \in Int
    BY <2>3 DEF Bit
  <2> HIDE DEF d, e, b
  <2>5. otherDay'[c] = otherDay[c]
    BY <1>1
  <2>6. QED
    BY <2>1, <2>3, <2>4, <2>5, <2>b DEF DayAt
<1>6. \A c \in Channels : DayAt(c)' \/ ChannelDayConserved'
  BY <1>1, <1>2, <1>4, <1>5 DEF TakesNew, TakesBack, TakesAnswer
<1>7. QED
  BY <1>3, <1>6 DEF DayCounts

LEMMA TimeOutDay ==
    ASSUME TypeInv, AllSmsInv, TypeInv', AllSmsInv', ChannelDayConserved, NEW m \in Sms,
           HandleTimeOut(m)
    PROVE  ChannelDayConserved'
<1> DEFINE s == [session[m] EXCEPT !.initial = FALSE]
<1>0. DayCounts /\ DayCounts' /\ session[m] \in SessionType
  BY DayAsCounts, DayAsCountsNext DEF TypeInv, SessionTypeOK
<1>1. TimedOut(m)
  BY TimeOutFacts
<1>2. /\ OverRateSetPosted(m, s) /\ session[m].open
      /\ UNCHANGED <<channelMq, rebackMq, chanDay, otherDay>>
      /\ \A n \in Sms : log'[n].delivered = log[n].delivered /\ log'[n].unsent = log[n].unsent
  BY <1>1 DEF TimedOut, redis_vars, env_vars
<1>3. /\ s.initial = FALSE /\ s.overState = session[m].overState /\ s.plan = session[m].plan
      /\ s.overState \in BOOLEAN /\ s.plan \in BOOLEAN /\ s.initial \in BOOLEAN
  BY <1>0 DEF SessionType
<1>4. s.overState /\ ~s.plan => over[m].chan \in Channels
  BY <1>2, <1>3, OwnedFacts DEF StageOK, SmsInv, OverOK
<1>5. OverRateSetPosted(m, s)
  BY <1>2
<1> HIDE DEF s
<1>6. ASSUME NEW c \in Channels
      PROVE  DayAt(c)'
  <2>1. Pending(Takes(c))' = Pending(Takes(c))
                             + Bit(s.overState /\ ~s.plan /\ s.initial /\ over[m].chan = c)
    BY <1>3, <1>4, <1>5, PostedCount
  <2>2. /\ Cardinality(SentOn(c)) \in Nat /\ Pending(Takes(c)) \in Nat /\ DayAt(c)
        /\ Cardinality(BackFrom(c)) \in Nat /\ Cardinality(DeliveredOn(c)) \in Nat
        /\ chanDay[c] \in Int /\ otherDay[c] \in Int
    BY <1>0 DEF DayCounts
  <2>3. Pending(Takes(c))' = Pending(Takes(c))
    BY <1>3, <2>1, <2>2 DEF Bit
  <2>4. SentOn(c)' = SentOn(c) /\ BackFrom(c)' = BackFrom(c) /\ DeliveredOn(c)' = DeliveredOn(c)
    BY <1>2 DEF SentOn, BackFrom, DeliveredOn
  <2>5. QED
    BY <1>2, <2>2, <2>3, <2>4 DEF DayAt
<1>7. QED
  BY <1>0, <1>6 DEF DayCounts

LEMMA SendComponentDay ==
    ASSUME TypeInv, AllSmsInv, TypeInv', AllSmsInv', ChannelDayConserved, NEW m \in Sms,
           NEW q \in Of(m, channelMq), Deliver(q) \/ SendReback(q)
    PROVE  ChannelDayConserved'
<1>0. /\ DayCounts /\ DayCounts' /\ q \in channelMq /\ q.sms = m
      /\ log \in [Sms -> LogType] /\ q.chan \in Channels
  BY DayAsCounts, DayAsCountsNext DEF Of, TypeInv, LogTypeOK, MqTypeOK, ChannelMsg
<1>1. SmsInv(m) /\ InChannel(m) /\ ~Nowhere(m)
  BY <1>0 DEF AllSmsInv, InChannel, Nowhere
<1>2. log[m].delivered = NoChannel /\ log[m].unsent = NoChannel /\ Of(m, rebackMq) = {}
  BY <1>1 DEF SmsInv, VerdictOK, OnePlace, InReback
<1>3. ASSUME NEW c \in Channels
      PROVE  DayAt(c)'
  <2> DEFINE b == Bit(q.chan = c)
             Sent == {p \in channelMq \ {q} : p.chan = c}
  <2>1. /\ IsFiniteSet(SentOn(c)) /\ IsFiniteSet(BackFrom(c)) /\ IsFiniteSet(DeliveredOn(c)) /\ DayAt(c)
        /\ Cardinality(SentOn(c)) \in Nat /\ Pending(Takes(c)) \in Nat
        /\ Cardinality(BackFrom(c)) \in Nat /\ Cardinality(DeliveredOn(c)) \in Nat
        /\ chanDay[c] \in Int /\ otherDay[c] \in Int
    BY <1>0 DEF DayCounts
  <2>2. Cardinality(Sent) = Cardinality(SentOn(c)) + (-b) /\ b \in Int
    <3>1. /\ \A y : y # q => (y \in SentOn(c) <=> y \in Sent)
          /\ q \notin Sent /\ (q \in SentOn(c) <=> q.chan = c)
      BY <1>0 DEF SentOn
    <3> HIDE DEF Sent
    <3>2. /\ Cardinality(Sent) - Bit(q \in Sent) = Cardinality(SentOn(c)) - Bit(q \in SentOn(c))
          /\ Cardinality(Sent) \in Nat
      BY <2>1, <3>1, CountDiffers
    <3>3. QED
      BY <2>1, <3>1, <3>2 DEF Bit
  <2>3. /\ Pending(Takes(c))' = Pending(Takes(c)) + 0 /\ otherDay'[c] = otherDay[c] + 0
        /\ chanDay'[c] = chanDay[c] /\ SentOn(c)' = Sent
    <3>1. setQ' = setQ /\ otherDay' = otherDay /\ chanDay' = chanDay /\ channelMq' = channelMq \ {q}
      BY DEF Deliver, SendReback, rate_vars, redis_vars, env_vars
    <3>2. Pending(Takes(c))' = Pending(Takes(c))
      BY <3>1 DEF Pending, Takes, Places
    <3>3. QED
      BY <2>1, <3>1, <3>2 DEF SentOn
  <2>4. CASE Deliver(q)
    <3> DEFINE D == {n \in Sms : c \in {log'[n].delivered, log'[n].unsent}}
    <3>1. BackFrom(c)' = BackFrom(c)
      BY <2>4 DEF Deliver, BackFrom
    <3>2. log' = [log EXCEPT ![m].delivered = q.chan]
      BY <1>0, <2>4 DEF Deliver
    <3>3. /\ log'[m].delivered = q.chan /\ log'[m].unsent = NoChannel
          /\ \A n \in Sms : n # m => log'[n] = log[n]
      BY <1>0, <1>2, <3>2 DEF LogType
    <3>4. /\ \A y : y # m => (y \in DeliveredOn(c) <=> y \in D)
          /\ m \notin DeliveredOn(c) /\ (m \in D <=> q.chan = c)
      BY <1>2, <3>3, AccessAssumption DEF DeliveredOn
    <3>5. DeliveredOn(c)' = D
      BY DEF DeliveredOn
    <3> HIDE DEF D
    <3>6. /\ Cardinality(D) - Bit(m \in D) = Cardinality(DeliveredOn(c)) - Bit(m \in DeliveredOn(c))
          /\ Cardinality(D) \in Nat
      BY <2>1, <3>4, CountDiffers
    <3>7. Cardinality(D) = Cardinality(DeliveredOn(c)) + b
      BY <2>1, <3>4, <3>6 DEF Bit
    <3> HIDE DEF Sent, b
    <3>8. /\ Cardinality(SentOn(c))' = Cardinality(SentOn(c)) + (-b)
          /\ Cardinality(BackFrom(c))' = Cardinality(BackFrom(c)) + 0
          /\ Cardinality(DeliveredOn(c))' = Cardinality(DeliveredOn(c)) + b
          /\ chanDay'[c] = chanDay[c] + (-b + 0 + b + 0) - 0 /\ -b \in Int
      BY <2>1, <2>2, <2>3, <3>1, <3>5, <3>7
    <3> DEFINE e == -b
    <3>e. /\ e \in Int /\ Cardinality(SentOn(c))' = Cardinality(SentOn(c)) + e
          /\ chanDay'[c] = chanDay[c] + (e + 0 + b + 0) - 0
      BY <3>8
    <3> HIDE DEF e
    <3>9. QED
      BY <1>0, <2>1, <2>2, <2>3, <3>8, <3>e, DayBalance
  <2>5. CASE SendReback(q)
    <3> DEFINE r == [sms |-> m, count |-> q.count, chan |-> q.chan, again |-> FALSE]
               B == {p \in rebackMq \cup {r} : p.chan = c /\ ~p.again}
    <3>1. DeliveredOn(c)' = DeliveredOn(c) /\ rebackMq' = rebackMq \cup {r}
      BY <1>0, <2>5 DEF SendReback, DeliveredOn
    <3>2. r.sms = m /\ r.chan = q.chan /\ r.again = FALSE
      OBVIOUS
    <3> HIDE DEF r
    <3>3. r \notin rebackMq
      BY <1>2, <3>2 DEF Of
    <3>4. /\ \A y : y # r => (y \in BackFrom(c) <=> y \in B)
          /\ r \notin BackFrom(c) /\ (r \in B <=> q.chan = c)
      BY <3>2, <3>3 DEF BackFrom
    <3>5. BackFrom(c)' = B
      BY <3>1 DEF BackFrom
    <3> HIDE DEF B
    <3>6. /\ Cardinality(B) - Bit(r \in B) = Cardinality(BackFrom(c)) - Bit(r \in BackFrom(c))
          /\ Cardinality(B) \in Nat
      BY <2>1, <3>4, CountDiffers
    <3>7. Cardinality(B) = Cardinality(BackFrom(c)) + b
      BY <2>1, <3>4, <3>6 DEF Bit
    <3> HIDE DEF Sent, b
    <3>8. /\ Cardinality(SentOn(c))' = Cardinality(SentOn(c)) + (-b)
          /\ Cardinality(BackFrom(c))' = Cardinality(BackFrom(c)) + b
          /\ Cardinality(DeliveredOn(c))' = Cardinality(DeliveredOn(c)) + 0
          /\ chanDay'[c] = chanDay[c] + (-b + b + 0 + 0) - 0 /\ -b \in Int
      BY <2>1, <2>2, <2>3, <3>1, <3>5, <3>7
    <3>9. QED
      BY <1>0, <2>1, <2>2, <2>3, <3>8, DayBalance
  <2>6. QED
    BY <2>4, <2>5
<1>4. QED
  BY <1>0, <1>3 DEF DayCounts

LEMMA SetReqDay ==
    ASSUME TypeInv, AllSmsInv, TypeInv', AllSmsInv', ChannelDayConserved, OverRateSetReq
    PROVE  ChannelDayConserved'
<1> DEFINE q == Head(setQ)
<1>1. /\ q \in SetMsg
      /\ \A c \in Channels : Pending(Takes(c)) = Pending(Takes(c))' + Bit(q.ok /\ q.chan = c)
  BY SetReqCounts
<1>2. /\ UNCHANGED <<channelMq, rebackMq, otherDay, log>>
      /\ chanDay' = IF q.ok THEN [chanDay EXCEPT ![q.chan] = @ + 1] ELSE chanDay
  BY DEF OverRateSetReq, mq_vars, env_vars
<1>3. DayCounts /\ DayCounts' /\ chanDay \in [Channels -> Int]
  BY DayAsCounts, DayAsCountsNext DEF TypeInv, CountTypeOK
<1> HIDE DEF q
<1>4. ASSUME NEW c \in Channels
      PROVE  DayAt(c)'
  <2>1. SentOn(c)' = SentOn(c) /\ BackFrom(c)' = BackFrom(c) /\ DeliveredOn(c)' = DeliveredOn(c)
    BY <1>2 DEF SentOn, BackFrom, DeliveredOn
  <2>2. chanDay'[c] = chanDay[c] + Bit(q.ok /\ q.chan = c)
    BY <1>1, <1>2, <1>3 DEF SetMsg, Bit
  <2>3. /\ DayAt(c) /\ Pending(Takes(c)) \in Nat /\ Pending(Takes(c))' \in Nat
        /\ chanDay[c] \in Int /\ Bit(q.ok /\ q.chan = c) \in Int
    BY <1>3 DEF DayCounts, Bit
  <2>4. chanDay'[c] + Pending(Takes(c))' = chanDay[c] + Pending(Takes(c))
    BY <1>1, <2>2, <2>3
  <2>5. QED
    BY <1>2, <2>1, <2>3, <2>4 DEF DayAt
<1>5. QED
  BY <1>3, <1>4 DEF DayCounts

LEMMA OtherSmsDay ==
    ASSUME TypeInv, AllSmsInv, TypeInv', AllSmsInv', ChannelDayConserved, OtherSms
    PROVE  ChannelDayConserved'
<1>1. UNCHANGED <<channelMq, rebackMq, setQ, log>>
  BY DEF OtherSms, mq_vars, rate_vars
<1>2. CASE UNCHANGED <<chanDay, otherDay>>
  BY <1>1, <1>2, DayFrame
<1>3. ASSUME NEW d \in Channels, NEW n \in 0 .. MaxOthers,
             otherDay' = [otherDay EXCEPT ![d] = n],
             chanDay' = [chanDay EXCEPT ![d] = @ + n - otherDay[d]]
      PROVE  ChannelDayConserved'
  <2>1. /\ DayCounts /\ DayCounts' /\ chanDay \in [Channels -> Int]
        /\ otherDay \in [Channels -> 0 .. MaxOthers]
    BY DayAsCounts, DayAsCountsNext DEF TypeInv, CountTypeOK
  <2>2. ASSUME NEW c \in Channels
        PROVE  DayAt(c)'
    <3>1. SentOn(c)' = SentOn(c) /\ BackFrom(c)' = BackFrom(c) /\ DeliveredOn(c)' = DeliveredOn(c)
          /\ Pending(Takes(c))' = Pending(Takes(c))
      BY <1>1 DEF SentOn, BackFrom, DeliveredOn, Pending, Takes, Places
    <3>2. /\ DayAt(c) /\ Pending(Takes(c)) \in Nat /\ chanDay[c] \in Int /\ otherDay[c] \in Int
          /\ Cardinality(SentOn(c)) \in Nat /\ Cardinality(BackFrom(c)) \in Nat
          /\ Cardinality(DeliveredOn(c)) \in Nat
      BY <2>1 DEF DayCounts
    <3>3. chanDay'[c] - otherDay'[c] = chanDay[c] - otherDay[c] /\ chanDay'[c] \in Int
          /\ otherDay'[c] \in Int
      BY <1>3, <2>1
    <3>4. QED
      BY <3>1, <3>2, <3>3 DEF DayAt
  <2>3. QED
    BY <2>1, <2>2 DEF DayCounts
<1>4. QED
  BY <1>2, <1>3 DEF OtherSms

LEMMA DayStep ==
    ASSUME TypeInv, AllSmsInv, TypeInv', AllSmsInv', ChannelDayConserved, [AccessNext]_access_vars
    PROVE  ChannelDayConserved'
<1>1. ASSUME NEW m \in Sms, SessionThread(m)
      PROVE  ChannelDayConserved'
  BY <1>1, SessionThreadDay
<1>2. ASSUME NEW m \in Sms, HandleTimeOut(m)
      PROVE  ChannelDayConserved'
  BY <1>2, TimeOutDay
<1>3. ASSUME NEW m \in Sms, AuditAnswer(m) \/ AuditResult(m) \/ ChargeServer(m)
      PROVE  ChannelDayConserved'
  <2>1. UNCHANGED <<chanDay, setQ, channelMq, rebackMq, otherDay>>
    BY <1>3 DEF AuditAnswer, AuditThread, AuditResult, ChargeServer, mq_vars, rate_vars,
                redis_vars, env_vars
  <2>2. \A n \in Sms : log'[n].delivered = log[n].delivered /\ log'[n].unsent = log[n].unsent
    <3>1. CASE AuditAnswer(m)
      <4>1. PICK r : AuditThread(m, r)
        BY <3>1 DEF AuditAnswer
      <4>2. QED
        BY <4>1, HeardOrNot DEF HeardLog
    <3>2. CASE AuditResult(m) \/ ChargeServer(m)
      BY <3>2 DEF AuditResult, Reaudited, ChargeServer, TypeInv, LogTypeOK, LogType
    <3>3. QED
      BY <1>3, <3>1, <3>2
  <2>3. QED
    BY <2>1, <2>2, DayFrame
<1>4. ASSUME NEW m \in Sms, OverRateThread(m) \/ ReplyLost(m)
      PROVE  ChannelDayConserved'
  BY <1>4, OverRateThreadCases, DayFrame DEF OverSteps, mq_vars
<1>5. ASSUME NEW m \in Sms, SendComponent(m)
      PROVE  ChannelDayConserved'
  BY <1>5, SendComponentDay DEF SendComponent
<1>6. CASE OverRateSetReq
  BY <1>6, SetReqDay
<1>7. CASE OtherSms
  BY <1>7, OtherSmsDay
<1>8. CASE CleanOverRateMap \/ (\E c \in Closing : ChannelUpdate(c)) \/ UNCHANGED access_vars
  BY <1>8, DayFrame DEF CleanOverRateMap, ChannelUpdate, access_vars, mq_vars, rate_vars,
                        redis_vars, env_vars
<1>9. QED
  BY <1>1, <1>2, <1>3, <1>4, <1>5, <1>6, <1>7, <1>8 DEF AccessNext

-----------------------------------------------------------------------------
LEMMA InitCounts == AccessInit => GlobalConserved /\ ChannelDayConserved
<1> SUFFICES ASSUME AccessInit
             PROVE  GlobalConserved /\ ChannelDayConserved
  OBVIOUS
<1>0. Cardinality({}) = 0
  BY FS_EmptySet
<1>1. GlobalConserved
  <2> DEFINE H == {m \in Sms : Holds(over[m])}
             Q == {i \in DOMAIN setQ : ~setQ[i].ok /\ setQ[i].global}
             U == {m \in Sms : log[m].unit}
  <2>1. H = {} /\ Q = {} /\ U = {} /\ globalCount = 0 /\ others = 0
    BY DEF AccessInit, Holds, NoOver, NewLog
  <2>2. GlobalConserved <=> globalCount = Cardinality(H) + Cardinality(Q) + Cardinality(U) + others
    BY DEF GlobalConserved
  <2> HIDE DEF H, Q, U
  <2>3. QED
    BY <1>0, <2>1, <2>2
<1>2. ASSUME NEW c \in Channels
      PROVE  chanDay[c] + Cardinality({i \in DOMAIN setQ : setQ[i].ok /\ setQ[i].chan = c})
             = Cardinality({q \in channelMq : q.chan = c})
               + Cardinality({q \in rebackMq : q.chan = c /\ ~q.again})
               + Cardinality({m \in Sms : c \in {log[m].delivered, log[m].unsent}})
               + otherDay[c]
  <2> DEFINE P == {i \in DOMAIN setQ : setQ[i].ok /\ setQ[i].chan = c}
             S == {q \in channelMq : q.chan = c}
             B == {q \in rebackMq : q.chan = c /\ ~q.again}
             D == {m \in Sms : c \in {log[m].delivered, log[m].unsent}}
  <2>1. P = {} /\ S = {} /\ B = {} /\ D = {} /\ chanDay[c] = 0 /\ otherDay[c] = 0
    BY AccessAssumption DEF AccessInit, NewLog
  <2> HIDE DEF P, S, B, D
  <2>2. chanDay[c] + Cardinality(P)
        = Cardinality(S) + Cardinality(B) + Cardinality(D) + otherDay[c]
    BY <1>0, <2>1
  <2>3. QED
    BY <2>2 DEF P, S, B, D
<1>3. ChannelDayConserved
  BY <1>2 DEF ChannelDayConserved
<1>4. QED
  BY <1>1, <1>3

(* The global counter of the phone is what is in progress, what was sent   *)
(* as a unit, what waits to be given back and what other SMS have, for any *)
(* number of SMS: sendOverRateCheckRspMsg and handleOverRateSetReqMsg      *)
(* never both take a unit back, nor neither.                               *)
THEOREM GlobalCountConserved == AccessSpec => []GlobalConserved
<1>1. AccessInit => TypeInv /\ AllSmsInv /\ GlobalConserved
  BY InitInv, InitCounts
<1>2. /\ TypeInv /\ AllSmsInv /\ (TypeInv /\ AllSmsInv)' /\ GlobalConserved
      /\ [AccessNext]_access_vars
      => GlobalConserved'
  BY GlobalStep
<1>3. QED
  BY <1>1, <1>2, AccessInductive, PTL DEF AccessSpec

(* The day counter of every channel is what was sent on it and has not     *)
(* come back: HandleMQRebackReqMsg gives back exactly what                 *)
(* handleOverRateSetReqMsg counted, once, however often the SMS is sent    *)
(* back without a new route.                                               *)
THEOREM DayCountConserved == AccessSpec => []ChannelDayConserved
<1>1. AccessInit => TypeInv /\ AllSmsInv /\ ChannelDayConserved
  BY InitInv, InitCounts
<1>2. /\ TypeInv /\ AllSmsInv /\ (TypeInv /\ AllSmsInv)' /\ ChannelDayConserved
      /\ [AccessNext]_access_vars
      => ChannelDayConserved'
  BY DayStep
<1>3. QED
  BY <1>1, <1>2, AccessInductive, PTL DEF AccessSpec

-----------------------------------------------------------------------------
(* The counter an over-rate session has read is never negative: it is a    *)
(* count of units.                                                         *)
LEMMA CountNat == TypeInv /\ GlobalConserved => globalCount \in Nat
<1> SUFFICES ASSUME TypeInv, GlobalConserved
             PROVE  globalCount \in Nat
  OBVIOUS
<1>1. GlobalCounts /\ others \in Nat
  BY GlobalAsCounts, AccessAssumption DEF TypeInv, CountTypeOK
<1>2. QED
  BY <1>1 DEF GlobalCounts

ValuesRead == \A m \in Sms : over[m].val \in Nat

LEMMA ValuesStep ==
    ASSUME TypeInv, AllSmsInv, GlobalConserved, ValuesRead, [AccessNext]_access_vars
    PROVE  ValuesRead'
<1>0. /\ globalCount \in Nat /\ over \in [Sms -> OverType(Int)] /\ NoOver.val = 0
      /\ \A m \in Sms : over[m].val \in Nat
  BY CountNat DEF TypeInv, RateTypeOK, NoOver, ValuesRead
<1>s. ASSUME UNCHANGED over
      PROVE  ValuesRead'
  BY <1>0, <1>s DEF ValuesRead
<1>f. ASSUME NEW m \in Sms, NEW s, OverRateSetPosted(m, s)
      PROVE  ValuesRead'
  BY <1>0, <1>f, FinishOver DEF ValuesRead
<1>1. ASSUME NEW m \in Sms, SessionThread(m)
      PROVE  ValuesRead'
  <2>1. TakesNew(m) \/ TakesBack(m) \/ TakesAnswer(m)
    BY <1>1, SessionThreadCases
  <2>2. ASSUME NEW s, NEW stage, NEW io, NEW rb, Wait(m, s, stage, io, rb)
        PROVE  ValuesRead'
    BY <1>0, <2>2 DEF Wait, ValuesRead, NoOver
  <2>3. ASSUME NEW s, NEW io, NEW rb, Finish(m, s, io, rb, FALSE)
        PROVE  ValuesRead'
    BY <1>f, <2>3 DEF Finish
  <2>4. CASE FinishHeld(m)
    BY <1>s, <2>4 DEF FinishHeld, rate_vars
  <2>5. ASSUME NEW io, NEW rb, Handled(m, io, rb)
        PROVE  ValuesRead'
    BY <2>2, <2>3, <2>5 DEF Handled, GoesOn, Ends
  <2>6. QED
    BY <2>1, <2>4, <2>5 DEF TakesNew, TakesBack, TakesAnswer
<1>2. ASSUME NEW m \in Sms, HandleTimeOut(m)
      PROVE  ValuesRead'
  BY <1>f, <1>2 DEF HandleTimeOut, Finish
<1>3. ASSUME NEW m \in Sms, OverRateThread(m) \/ ReplyLost(m)
      PROVE  ValuesRead'
  <2>1. OverSteps(m) /\ over' = [over EXCEPT ![m] = over'[m]]
    BY <1>3, OverRateThreadCases DEF OverSteps
  <2>2. over'[m].val \in Nat
    BY <1>0, <2>1 DEF OverSteps, OverMoves, OverRefuses, OverPasses
  <2>3. QED
    BY <1>0, <2>1, <2>2 DEF ValuesRead
<1>4. ASSUME NEW m \in Sms, AuditAnswer(m) \/ AuditResult(m) \/ ChargeServer(m) \/ SendComponent(m)
      PROVE  ValuesRead'
  BY <1>s, <1>4 DEF AuditAnswer, AuditThread, AuditResult, ChargeServer, SendComponent, Deliver,
                    SendReback, rate_vars
<1>5. CASE \/ OverRateSetReq \/ CleanOverRateMap \/ OtherSms
           \/ (\E c \in Closing : ChannelUpdate(c)) \/ UNCHANGED access_vars
  BY <1>s, <1>5 DEF OverRateSetReq, CleanOverRateMap, OtherSms, ChannelUpdate, access_vars, rate_vars
<1>6. QED
  BY <1>1, <1>2, <1>3, <1>4, <1>5 DEF AccessNext

(* Every variable keeps its type; in particular the UInt32 an over-rate    *)
(* session reads the global counter into is never read below zero.         *)
THEOREM AccessTypeCorrect == AccessSpec => []AccessTypeOK
<1>1. AccessInit => ValuesRead
  BY DEF AccessInit, ValuesRead, NoOver
<1>2. TypeInv /\ AllSmsInv /\ GlobalConserved /\ ValuesRead /\ [AccessNext]_access_vars => ValuesRead'
  BY ValuesStep
<1>3. TypeInv /\ ValuesRead => AccessTypeOK
  BY DEF TypeInv, ValuesRead, AccessTypeOK, RateTypeOK, OverType
<1>4. QED
  BY <1>1, <1>2, <1>3, AccessInductive, GlobalCountConserved, PTL DEF AccessSpec

-----------------------------------------------------------------------------
(* Custody.  A step that concerns m, and what it does to the others.       *)
OnlyMoves(m) == \A n \in Sms : n # m => Same(n)

(* Place by place.                                                         *)
PlacesOK ==
    \A m \in Sms :
       /\ InIo(m) \/ InReback(m) => PlaceOf(m) = "QUEUED"
       /\ InChannel(m) => PlaceOf(m) = "SENDING"
       /\ m \in auditHeld => PlaceOf(m) = "HELD"
       /\ Audited(m) => PlaceOf(m) = "CHECKED"
       /\ Owned(m) => PlaceOf(m) = "OWNED"
       /\ Nowhere(m) => PlaceOf(m) = "ENDED"

LEMMA PlacesNow == AllSmsInv => PlacesOK
<1> SUFFICES ASSUME AllSmsInv, NEW m \in Sms
             PROVE  /\ InIo(m) \/ InReback(m) => PlaceOf(m) = "QUEUED"
                    /\ InChannel(m) => PlaceOf(m) = "SENDING"
                    /\ m \in auditHeld => PlaceOf(m) = "HELD"
                    /\ Audited(m) => PlaceOf(m) = "CHECKED"
                    /\ Owned(m) => PlaceOf(m) = "OWNED"
                    /\ Nowhere(m) => PlaceOf(m) = "ENDED"
  BY DEF PlacesOK
<1>1. OnePlace(m)
  BY DEF AllSmsInv, SmsInv
<1>2. QED
  BY <1>1 DEF OnePlace, PlaceOf, Nowhere, InIo, InReback, InChannel, Owned, Audited
LEMMA PlacesNext == AllSmsInv' => PlacesOK'
BY PlacesNow, PTL

LEMMA SamePlaceOf ==
    ASSUME NEW n, Same(n)
    PROVE  PlaceOf(n)' = PlaceOf(n)
BY DEF Same, PlaceOf, Awaits, InState

CustodyKept == [Custody!Next]_(Custody!custody_vars)

(* One move of one SMS is a step of SmsCustody: quietly, with a word to    *)
(* the client, or with the SMS sent.                                       *)
LEMMA MovesQuietly ==
    ASSUME NEW m \in Sms, OnlyMoves(m),
           log'[m].rep = log[m].rep, log'[m].delivered = log[m].delivered,
           \/ PlaceOf(m)' = PlaceOf(m)
           \/ PlaceOf(m) = "QUEUED" /\ PlaceOf(m)' = "OWNED"
           \/ PlaceOf(m) \in {"OWNED", "HELD", "SENDING"} /\ PlaceOf(m)' = "QUEUED"
           \/ PlaceOf(m) = "OWNED" /\ PlaceOf(m)' \in {"SENDING", "HELD", "ENDED"}
           \/ PlaceOf(m) = "CHECKED" /\ PlaceOf(m)' \in {"HELD", "ENDED"}
           \/ PlaceOf(m) = "HELD" /\ PlaceOf(m)' = "CHECKED"
    PROVE  CustodyKept
<1>1. \A n \in Sms : n # m => /\ PlaceOf(n)' = PlaceOf(n) /\ log'[n] = log[n]
  BY SamePlaceOf DEF OnlyMoves, Same
<1>2. SmsTold' = SmsTold /\ SmsSent' = SmsSent
  BY <1>1 DEF SmsTold, SmsSent
<1>3. /\ SmsPlace' = [SmsPlace EXCEPT ![m] = PlaceOf(m)']
      /\ SmsPlace[m] = PlaceOf(m) /\ SmsPlace'[m] = PlaceOf(m)'
  BY <1>1 DEF SmsPlace
<1>4. CASE PlaceOf(m)' = PlaceOf(m)
  <2>1. SmsPlace' = SmsPlace
    BY <1>1, <1>4 DEF SmsPlace
  <2>2. QED
    BY <1>2, <2>1 DEF CustodyKept, Custody!custody_vars
<1>5. CASE PlaceOf(m)' # PlaceOf(m)
  <2>1. Custody!Step(m, SmsPlace[m], SmsPlace'[m])
    BY <1>2, <1>3, <1>5 DEF Custody!Step, Custody!HandOver, Custody!Misfile, Custody!Forget
  <2>2. QED
    BY <1>3, <2>1 DEF CustodyKept, Custody!Next
<1>6. QED
  BY <1>4, <1>5

LEMMA MovesTold ==
    ASSUME NEW m \in Sms, OnlyMoves(m),
           log'[m].rep > 0, log'[m].delivered = log[m].delivered,
           \/ PlaceOf(m) \in {"QUEUED", "OWNED", "HELD"} /\ PlaceOf(m)' = "ENDED"
           \/ /\ log[m].delivered = NoChannel
              /\ \/ PlaceOf(m) = "OWNED" /\ PlaceOf(m)' = "CHECKED"
                 \/ /\ PlaceOf(m) \in {"HELD", "CHECKED", "QUEUED", "ENDED"}
                    /\ PlaceOf(m)' = PlaceOf(m)
    PROVE  CustodyKept
<1>1. \A n \in Sms : n # m => /\ PlaceOf(n)' = PlaceOf(n) /\ log'[n] = log[n]
  BY SamePlaceOf DEF OnlyMoves, Same
<1>2. /\ SmsTold' = SmsTold \cup {m} /\ SmsSent' = SmsSent
      /\ log[m].delivered = NoChannel => m \notin SmsSent
  BY <1>1 DEF SmsTold, SmsSent
<1>3. /\ SmsPlace' = [SmsPlace EXCEPT ![m] = PlaceOf(m)']
      /\ SmsPlace[m] = PlaceOf(m) /\ SmsPlace'[m] = PlaceOf(m)'
  BY <1>1 DEF SmsPlace
<1>4. Custody!Step(m, SmsPlace[m], SmsPlace'[m])
  BY <1>2, <1>3 DEF Custody!Step, Custody!Reject, Custody!GiveUp
<1>5. QED
  BY <1>3, <1>4 DEF CustodyKept, Custody!Next

LEMMA MovesSent ==
    ASSUME NEW m \in Sms, OnlyMoves(m),
           log'[m].rep = log[m].rep, log'[m].delivered # NoChannel,
           PlaceOf(m) = "SENDING", PlaceOf(m)' = "ENDED"
    PROVE  CustodyKept
<1>1. \A n \in Sms : n # m => /\ PlaceOf(n)' = PlaceOf(n) /\ log'[n] = log[n]
  BY SamePlaceOf DEF OnlyMoves, Same
<1>2. SmsTold' = SmsTold /\ SmsSent' = SmsSent \cup {m}
  BY <1>1 DEF SmsTold, SmsSent
<1>3. /\ SmsPlace' = [SmsPlace EXCEPT ![m] = PlaceOf(m)']
      /\ SmsPlace[m] = PlaceOf(m) /\ SmsPlace'[m] = PlaceOf(m)'
  BY <1>1 DEF SmsPlace
<1>4. Custody!Step(m, SmsPlace[m], SmsPlace'[m])
  BY <1>2, <1>3 DEF Custody!Step, Custody!Deliver
<1>5. QED
  BY <1>3, <1>4 DEF CustodyKept, Custody!Next

LEMMA HandledCustody ==
    ASSUME TypeInv, AllSmsInv, AllSmsInv', NEW m \in Sms, NEW io, NEW rb,
           Handled(m, io, rb), UNCHANGED <<account, auditHeld>>,
           Owned(m) \/ (~session[m].open /\ (InIo(m) \/ InReback(m)))
    PROVE  CustodyKept
<1>p. PlacesOK /\ PlacesOK'
  BY PlacesNow, PlacesNext
<1>f. PlaceOf(m) \in {"QUEUED", "OWNED"} /\ (session[m].open => PlaceOf(m) = "OWNED")
  BY <1>p DEF PlacesOK, Owned
<1>1. ASSUME NEW s, NEW stage, GoesOn(m, s, stage, io, rb)
      PROVE  CustodyKept
  <2>1. OnlyMoves(m) /\ session'[m].open = s.open /\ session'[m].ans = "NONE" /\ log' = log /\ s.open
    BY <1>1, WaitMoves DEF OnlyMoves, GoesOn, StageOK
  <2>2. Owned(m)'
    BY <2>1 DEF Owned
  <2>3. PlaceOf(m)' = "OWNED"
    BY <1>p, <2>2 DEF PlacesOK
  <2>4. QED
    BY <1>f, <2>1, <2>3, MovesQuietly
<1>2. ASSUME NEW s, Ends(m, s, io, rb)
      PROVE  CustodyKept
  <2>0. /\ EndOK(m, s) /\ InHand(m, io, rb) /\ session \in [Sms -> SessionType]
        /\ session' = [session EXCEPT ![m] = NoSession] /\ UNCHANGED <<auditReq, auditHeld>>
        /\ ~session[m].open => ~s.initial /\ s.push = "REPORT"
    BY <1>2 DEF Ends, Finish, request_vars, TypeInv, SessionTypeOK
  <2>s. SentOff(m, s)
    BY <1>2, FinishMoves
  <2>q. PICK queue \in BOOLEAN :
           /\ log' = [log EXCEPT ![m] = Logged(m, s, FALSE, queue)]
           /\ \E r : r.sms = m /\ Of(m, channelMq') = IF Publishes(s, queue) THEN {r} ELSE {}
    BY <2>s DEF SentOff
  <2>r. \E r : r.sms = m /\ Of(m, ioMq') = IF ~s.initial /\ s.push = "OVERFLOW" THEN {r} ELSE {}
    BY <1>2, FinishMoves
  <2>b. \E r : /\ r.sms = m /\ r.count = s.count
              /\ Of(m, rebackMq') = IF ~s.initial /\ s.push = "IOREBACK" THEN {r} ELSE {}
    BY <1>2, FinishMoves
  <2>o. OnlyMoves(m)
    BY <1>2, FinishMoves DEF OnlyMoves
  <2>1. /\ OnlyMoves(m)
        /\ (InIo(m)' <=> ~s.initial /\ s.push = "OVERFLOW")
        /\ (InReback(m)' <=> ~s.initial /\ s.push = "IOREBACK")
        /\ InChannel(m)' => s.initial
    BY <2>q, <2>r, <2>b, <2>o DEF InIo, InReback, InChannel, Publishes
  <2>2. ~session'[m].open /\ ~Owned(m)' /\ m \notin auditHeld' /\ ~Audited(m)'
    BY <2>0 DEF NoSession, NewSession, Owned, Audited, InHand
  <2>4. /\ log'[m].rep = log[m].rep + (IF ~s.initial /\ s.push = "REPORT" THEN 1 ELSE 0)
        /\ log'[m].delivered = log[m].delivered /\ log[m].rep \in Nat
    <3>1. Entered(m, s, FALSE, queue)
      BY <2>q, FinishLog
    <3>2. QED
      BY <3>1 DEF Entered, LogType
  <2>5. CASE ~s.initial /\ s.push = "REPORT"
    <3>1. log'[m].rep > 0 /\ Nowhere(m)'
      BY <2>1, <2>2, <2>4, <2>5 DEF Nowhere
    <3>2. PlaceOf(m)' = "ENDED"
      BY <1>p, <3>1 DEF PlacesOK
    <3>3. QED
      BY <1>f, <2>1, <2>4, <3>1, <3>2, MovesTold
  <2>6. CASE s.initial \/ s.push # "REPORT"
    <3>a. ~(~s.initial /\ s.push = "REPORT")
      BY <2>6
    <3>b. log'[m].rep = log[m].rep
      BY <2>4, <3>a
    <3>c. session[m].open
      BY <2>0, <3>a
    <3>1. log'[m].rep = log[m].rep /\ PlaceOf(m) = "OWNED"
      BY <1>f, <3>b, <3>c
    <3>2. InIo(m)' \/ InReback(m)' \/ InChannel(m)' \/ Nowhere(m)'
      BY <2>1, <2>2 DEF Nowhere
    <3>3. PlaceOf(m)' \in {"QUEUED", "SENDING", "ENDED"}
      BY <1>p, <3>2 DEF PlacesOK
    <3>4. QED
      BY <2>1, <2>4, <3>1, <3>3, MovesQuietly
  <2>7. QED
    BY <2>5, <2>6
<1>3. QED
  BY <1>1, <1>2 DEF Handled

(* The session of an SMS the audit keeps ends: the SMS stays where it is.  *)
LEMMA HeldCustody ==
    ASSUME TypeInv, NEW m \in Sms, InState(m, "AUDIT"),
           session[m].ans = "HELD", FinishHeld(m), UNCHANGED <<account, auditHeld>>
    PROVE  CustodyKept
<1>0. /\ session \in [Sms -> SessionType] /\ session' = [session EXCEPT ![m] = NoSession]
      /\ UNCHANGED <<ioMq, rebackMq, channelMq, auditReq, chargeReq, over, log, account, auditHeld>>
  BY DEF FinishHeld, TypeInv, SessionTypeOK, mq_vars, request_vars, rate_vars
<1>1. OnlyMoves(m)
  BY <1>0 DEF OnlyMoves, Same
<1>2. ~session'[m].open /\ ~Awaits(m)' /\ ~Awaits(m)
  BY <1>0 DEF NoSession, NewSession, Awaits, InState
<1>3. PlaceOf(m)' = PlaceOf(m)
  BY <1>0, <1>2 DEF PlaceOf, Of
<1>4. QED
  BY <1>0, <1>1, <1>3, MovesQuietly

LEMMA SessionThreadCustody ==
    ASSUME TypeInv, AllSmsInv, AllSmsInv', NEW m \in Sms, SessionThread(m)
    PROVE  CustodyKept
<1>1. UNCHANGED <<account, auditHeld>> /\ (TakesNew(m) \/ TakesBack(m) \/ TakesAnswer(m))
  BY SessionThreadCases DEF config_vars
<1>2. CASE TakesNew(m)
  <2>1. PICK q \in ioMq : q.sms = m /\ ~session[m].open /\ Handled(m, ioMq \ {q}, rebackMq)
    BY <1>2 DEF TakesNew
  <2>2. InIo(m)
    BY <2>1 DEF InIo, Of
  <2>3. QED
    BY <1>1, <2>1, <2>2, HandledCustody
<1>3. CASE TakesBack(m)
  <2>1. PICK q \in rebackMq : q.sms = m /\ ~session[m].open /\ Handled(m, ioMq, rebackMq \ {q})
    BY <1>3 DEF TakesBack
  <2>2. InReback(m)
    BY <2>1 DEF InReback, Of
  <2>3. QED
    BY <1>1, <2>1, <2>2, HandledCustody
<1>4. CASE TakesAnswer(m)
  BY <1>1, <1>4, HandledCustody, HeldCustody DEF TakesAnswer
<1>5. QED
  BY <1>1, <1>2, <1>3, <1>4

(* The timer: the client is told, whoever has the SMS.                     *)
LEMMA TimeOutCustody ==
    ASSUME TypeInv, AllSmsInv, AllSmsInv', NEW m \in Sms, HandleTimeOut(m)
    PROVE  CustodyKept
<1>0. TimedOut(m) /\ session \in [Sms -> SessionType]
  BY TimeOutFacts DEF TypeInv, SessionTypeOK
<1>p. PlacesOK /\ PlacesOK' /\ SmsInv(m)
  BY PlacesNow, PlacesNext DEF AllSmsInv
<1>1. /\ ~session'[m].open /\ UNCHANGED <<ioMq, rebackMq, channelMq, auditReq, auditHeld>>
      /\ log'[m].rep > 0 /\ log'[m].delivered = log[m].delivered /\ session[m].open
  BY <1>0 DEF TimedOut, NoSession, NewSession
<1>2. OnlyMoves(m)
  BY <1>0 DEF OnlyMoves, Same, TimedOut, config_vars
<1>3. ~InReback(m) /\ ~InChannel(m) /\ log[m].delivered = NoChannel /\ ~Awaits(m)'
  BY <1>1, <1>p DEF SmsInv, VerdictOK, Awaits, InState
<1>4. CASE Owned(m)
  <2>1. PlaceOf(m) = "OWNED"
    BY <1>4, <1>p DEF PlacesOK
  <2>2. Audited(m)' \/ Nowhere(m)'
    BY <1>1, <1>4, <1>p DEF SmsInv, OnePlace, Nowhere, InIo, InReback, InChannel, Owned, Audited
  <2>3. PlaceOf(m)' \in {"CHECKED", "ENDED"}
    BY <2>2, <1>p DEF PlacesOK
  <2>4. QED
    BY <1>1, <1>2, <1>3, <2>1, <2>3, MovesTold
<1>5. CASE ~Owned(m)
  <2>1. session[m].ans = "HELD" /\ ~Awaits(m)
    BY <1>1, <1>5 DEF Owned, Awaits
  <2>2. PlaceOf(m)' = PlaceOf(m)
    BY <1>1, <1>3, <2>1 DEF PlaceOf, Of
  <2>3. InIo(m) \/ m \in auditHeld \/ Audited(m) \/ Nowhere(m)
    BY <1>3, <1>5 DEF Nowhere
  <2>4. PlaceOf(m) \in {"QUEUED", "HELD", "CHECKED", "ENDED"}
    BY <2>3, <1>p DEF PlacesOK
  <2>5. QED
    BY <1>1, <1>2, <1>3, <2>2, <2>4, MovesTold
<1>6. QED
  BY <1>4, <1>5

(* The audit's answer and the auditor's.                                   *)
LEMMA AuditCustody ==
    ASSUME TypeInv, AllSmsInv, AllSmsInv', NEW m \in Sms, NEW r, AuditThread(m, r)
    PROVE  CustodyKept
<1>0. /\ m \in auditReq /\ r \in {"PASS", "FAIL", "HELD"} /\ auditReq' = auditReq \ {m}
      /\ auditHeld' = IF r = "HELD" THEN auditHeld \cup {m} ELSE auditHeld
      /\ UNCHANGED <<account, ioMq, rebackMq, channelMq, chargeReq, over>>
  BY DEF AuditThread, Kept, mq_vars, config_vars, rate_vars
<1>h. /\ \A n \in Sms : n # m => log'[n] = log[n]
      /\ log'[m].rep = log[m].rep /\ log'[m].delivered = log[m].delivered
  BY HeardOrNot DEF HeardLog
<1>a. /\ \A n \in Sms : n # m => session'[n] = session[n]
      /\ ~(InState(m, "AUDIT") /\ session[m].ans = "NONE") => session'[m] = session[m]
      /\ InState(m, "AUDIT") /\ session[m].ans = "NONE" => session'[m].ans = r
      /\ session'[m].open = session[m].open /\ session'[m].stage = session[m].stage
  BY AnsweredFacts DEF AuditThread
<1>p. PlacesOK /\ PlacesOK' /\ SmsInv(m)
  BY PlacesNow, PlacesNext DEF AllSmsInv
<1>1. OnlyMoves(m)
  BY <1>0, <1>a, <1>h DEF OnlyMoves, Same
<1>2. /\ InIo(m)' = InIo(m) /\ InReback(m)' = InReback(m) /\ InChannel(m)' = InChannel(m)
      /\ ~Audited(m)'
  BY <1>0 DEF InIo, InReback, InChannel, Audited
<1>3. CASE Awaits(m)
  <2>1. Owned(m) /\ PlaceOf(m) = "OWNED"
    BY <1>3, <1>p DEF Owned, Awaits, InState, PlacesOK
  <2>2. IF r = "HELD" THEN m \in auditHeld' ELSE Owned(m)'
    BY <1>0, <1>3, <1>a, <2>1 DEF Owned, Awaits
  <2>3. PlaceOf(m)' \in {"OWNED", "HELD"}
    BY <1>p, <2>2 DEF PlacesOK
  <2>4. QED
    BY <1>1, <1>h, <2>1, <2>3, MovesQuietly
<1>4. CASE ~Awaits(m)
  <2>1. session'[m] = session[m] /\ Audited(m) /\ PlaceOf(m) = "CHECKED"
    BY <1>0, <1>4, <1>a, <1>p DEF Audited, Awaits, PlacesOK
  <2>2. ~InIo(m)' /\ ~InReback(m)' /\ ~InChannel(m)' /\ ~Owned(m)'
    BY <1>2, <1>p, <2>1 DEF SmsInv, OnePlace, Owned
  <2>3. m \in auditHeld' \/ Nowhere(m)'
    BY <1>2, <2>2 DEF Nowhere
  <2>4. PlaceOf(m)' \in {"HELD", "ENDED"}
    BY <1>p, <2>3 DEF PlacesOK
  <2>5. QED
    BY <1>1, <1>h, <2>1, <2>4, MovesQuietly
<1>5. QED
  BY <1>3, <1>4

LEMMA AuditResultCustody ==
    ASSUME TypeInv, AllSmsInv, AllSmsInv', NEW m \in Sms, AuditResult(m)
    PROVE  CustodyKept
<1>0. /\ m \in auditHeld /\ auditHeld' = auditHeld \ {m} /\ log \in [Sms -> LogType]
      /\ UNCHANGED <<account, session, rebackMq, channelMq, chargeReq, over>>
  BY DEF AuditResult, config_vars, rate_vars, TypeInv, LogTypeOK
<1>p. PlacesOK /\ PlacesOK' /\ SmsInv(m)
  BY PlacesNow, PlacesNext DEF AllSmsInv
<1>1. \/ auditReq' = auditReq /\ log' = log /\ \E q : q.sms = m /\ ioMq' = ioMq \cup {q}
      \/ auditReq' = auditReq /\ ioMq' = ioMq /\ log' = [log EXCEPT ![m].rep = @ + 1]
      \/ auditReq' = auditReq \cup {m} /\ ioMq' = ioMq /\ log' = log
  <2> DEFINE q == [sms |-> m, audited |-> TRUE, routed |-> 0]
  <2>1. q.sms = m
    OBVIOUS
  <2>2. \/ ioMq' = ioMq \cup {q} /\ UNCHANGED <<auditReq, log>>
        \/ log' = [log EXCEPT ![m].rep = @ + 1] /\ UNCHANGED <<auditReq, ioMq>>
        \/ auditReq' = auditReq \cup {m} /\ UNCHANGED <<ioMq, log>>
    BY DEF AuditResult, Reaudited
  <2> HIDE DEF q
  <2>3. QED
    BY <2>1, <2>2
<1>2. /\ ~InReback(m) /\ ~InChannel(m) /\ ~Owned(m) /\ ~Audited(m) /\ ~InIo(m) /\ ~Awaits(m)
      /\ PlaceOf(m) = "HELD"
  BY <1>0, <1>p DEF SmsInv, OnePlace, PlacesOK, Owned, Awaits, InState
<1>3. ~InReback(m)' /\ ~InChannel(m)' /\ ~Owned(m)' /\ m \notin auditHeld' /\ ~Awaits(m)'
  BY <1>0, <1>2 DEF InReback, InChannel, Owned, Awaits, InState
<1>4. CASE auditReq' = auditReq /\ log' = log /\ \E q : q.sms = m /\ ioMq' = ioMq \cup {q}
  <2>1. OnlyMoves(m)
    BY <1>0, <1>4 DEF OnlyMoves, Same, Of
  <2>2. InIo(m)'
    BY <1>4 DEF InIo, Of
  <2>3. PlaceOf(m)' = "QUEUED"
    BY <1>p, <2>2 DEF PlacesOK
  <2>4. QED
    BY <1>2, <1>4, <2>1, <2>3, MovesQuietly
<1>5. CASE auditReq' = auditReq /\ ioMq' = ioMq /\ log' = [log EXCEPT ![m].rep = @ + 1]
  <2>1. log'[m].rep = log[m].rep + 1 /\ log'[m].delivered = log[m].delivered /\ log[m].rep \in Nat
    BY <1>0, <1>5 DEF LogType
  <2>2. OnlyMoves(m)
    BY <1>0, <1>5 DEF OnlyMoves, Same
  <2>3. Nowhere(m)'
    BY <1>2, <1>3, <1>5 DEF Nowhere, InIo, Audited
  <2>4. PlaceOf(m)' = "ENDED" /\ log'[m].rep > 0
    BY <1>p, <2>1, <2>3 DEF PlacesOK
  <2>5. QED
    BY <1>2, <2>1, <2>2, <2>4, MovesTold
<1>6. CASE auditReq' = auditReq \cup {m} /\ ioMq' = ioMq /\ log' = log
  <2>1. OnlyMoves(m)
    BY <1>0, <1>6 DEF OnlyMoves, Same
  <2>2. Audited(m)'
    BY <1>3, <1>6 DEF Audited
  <2>3. PlaceOf(m)' = "CHECKED"
    BY <1>p, <2>2 DEF PlacesOK
  <2>4. QED
    BY <1>2, <1>6, <2>1, <2>3, MovesQuietly
<1>7. QED
  BY <1>1, <1>4, <1>5, <1>6

(* Steps that touch neither the queues, the audit nor the client.          *)
LEMMA AnswerCustody ==
    ASSUME NEW m \in Sms, NEW stage, NEW r, TypeInv,
           session' = session \/ Answered(m, stage, r), r # "HELD", OnlyMoves(m),
           stage # "AUDIT", UNCHANGED <<ioMq, rebackMq, channelMq, auditReq, auditHeld>>,
           log'[m].rep = log[m].rep, log'[m].delivered = log[m].delivered
    PROVE  CustodyKept
<1>1. /\ session'[m].open = session[m].open /\ session'[m].stage = session[m].stage
      /\ \/ session'[m] = session[m]
         \/ session[m].ans # "HELD" /\ session'[m].ans # "HELD" /\ session[m].stage # "AUDIT"
  <2>1. CASE session' = session
    BY <2>1
  <2>2. CASE Answered(m, stage, r)
    <3>1. /\ ~(InState(m, stage) /\ session[m].ans = "NONE") => session'[m] = session[m]
          /\ InState(m, stage) /\ session[m].ans = "NONE" => session'[m].ans = r
          /\ session'[m].open = session[m].open /\ session'[m].stage = session[m].stage
      BY <2>2, AnsweredFacts
    <3>2. QED
      BY <3>1 DEF InState
  <2>3. QED
    BY <2>1, <2>2
<1>2. Awaits(m)' <=> Awaits(m)
  BY <1>1 DEF Awaits, InState
<1>3. PlaceOf(m)' = PlaceOf(m)
  BY <1>1, <1>2 DEF PlaceOf, Of
<1>4. QED
  BY <1>3, MovesQuietly

LEMMA ChargeCustody ==
    ASSUME TypeInv, NEW m \in Sms, ChargeServer(m)
    PROVE  CustodyKept
<1>1. PICK paid \in BOOLEAN, r \in {"OK", "FAIL"} :
         /\ log' = [log EXCEPT ![m].charged = IF paid THEN @ + 1 ELSE @]
         /\ Answered(m, "CHARGE", r)
  BY DEF ChargeServer
<1>2. /\ chargeReq' = chargeReq \ {m} /\ log \in [Sms -> LogType]
      /\ UNCHANGED <<account, ioMq, rebackMq, channelMq, auditReq, auditHeld, over>>
  BY DEF ChargeServer, mq_vars, config_vars, rate_vars, TypeInv, LogTypeOK
<1>3. OnlyMoves(m)
  BY <1>1, <1>2, AnsweredFacts DEF OnlyMoves, Same
<1>4. log'[m].rep = log[m].rep /\ log'[m].delivered = log[m].delivered
  BY <1>1, <1>2 DEF LogType
<1>5. r # "HELD" /\ "CHARGE" # "AUDIT"
  OBVIOUS
<1>6. QED
  BY <1>1, <1>2, <1>3, <1>4, <1>5, AnswerCustody

LEMMA OverRateCustody ==
    ASSUME TypeInv, NEW m \in Sms, OverSteps(m)
    PROVE  CustodyKept
<1>1. /\ over \in [Sms -> OverType(Int)] /\ over' = [over EXCEPT ![m] = over'[m]]
      /\ UNCHANGED <<account, ioMq, rebackMq, channelMq, auditReq, chargeReq, auditHeld, log>>
  BY DEF OverSteps, TypeInv, RateTypeOK, config_vars, mq_vars, request_vars
<1>2. PICK r \in {"GLOBAL", "CONTENT", "CHANNEL", "OK"} :
         session' = session \/ Answered(m, "OVERRATE", r)
  BY DEF OverSteps, OverMoves, OverRefuses, OverPasses
<1>3. \A n \in Sms : n # m => session'[n] = session[n]
  BY <1>2, AnsweredFacts
<1>4. OnlyMoves(m)
  BY <1>1, <1>3 DEF OnlyMoves, Same
<1>5. r # "HELD" /\ "OVERRATE" # "AUDIT"
  OBVIOUS
<1>6. QED
  BY <1>1, <1>2, <1>4, <1>5, AnswerCustody

(* The send component sends it, or sends it back.                          *)
LEMMA SendCustody ==
    ASSUME TypeInv, AllSmsInv, AllSmsInv', NEW m \in Sms, NEW q \in Of(m, channelMq),
           Deliver(q) \/ SendReback(q)
    PROVE  CustodyKept
<1>0. /\ q \in channelMq /\ q.sms = m /\ q.chan \in Channels /\ channelMq' = channelMq \ {q}
      /\ UNCHANGED <<account, ioMq, session, auditReq, chargeReq, auditHeld, over>>
      /\ log \in [Sms -> LogType] /\ q.chan # NoChannel
  BY AccessAssumption DEF Deliver, SendReback, Of, config_vars, request_vars, rate_vars, TypeInv,
                          LogTypeOK, MqTypeOK, ChannelMsg
<1>p. PlacesOK /\ PlacesOK' /\ SmsInv(m)
  BY PlacesNow, PlacesNext DEF AllSmsInv
<1>1. InChannel(m)
  BY DEF InChannel
<1>2. /\ ~InIo(m)' /\ ~InChannel(m)' /\ ~Owned(m)' /\ m \notin auditHeld' /\ ~Audited(m)'
      /\ ~InReback(m) /\ PlaceOf(m) = "SENDING"
  <2>1. /\ ~InIo(m) /\ ~InReback(m) /\ ~Owned(m) /\ m \notin auditHeld /\ ~Audited(m)
        /\ Of(m, channelMq') = {}
    BY <1>0, <1>1, <1>p DEF SmsInv, OnePlace, AtMostOne, Of
  <2>2. QED
    BY <1>0, <1>1, <1>p, <2>1 DEF InIo, InChannel, Owned, Audited, Awaits, InState, PlacesOK
<1>4. CASE Deliver(q)
  <2>1. rebackMq' = rebackMq /\ log' = [log EXCEPT ![m].delivered = q.chan]
    BY <1>0, <1>4 DEF Deliver
  <2>2. log'[m].rep = log[m].rep /\ log'[m].delivered # NoChannel
    BY <1>0, <2>1 DEF LogType
  <2>3. OnlyMoves(m)
    BY <1>0, <2>1 DEF OnlyMoves, Same, Of
  <2>4. Nowhere(m)'
    BY <1>2, <2>1 DEF Nowhere, InReback
  <2>5. PlaceOf(m)' = "ENDED"
    BY <1>p, <2>4 DEF PlacesOK
  <2>6. QED
    BY <1>2, <2>2, <2>3, <2>5, MovesSent
<1>5. CASE SendReback(q)
  <2>1. log' = log /\ \E r : r.sms = m /\ rebackMq' = rebackMq \cup {r}
    <3> DEFINE r == [sms |-> m, count |-> q.count, chan |-> q.chan, again |-> FALSE]
    <3>1. r.sms = m
      OBVIOUS
    <3>2. log' = log /\ rebackMq' = rebackMq \cup {r}
      BY <1>0, <1>5 DEF SendReback
    <3> HIDE DEF r
    <3>3. QED
      BY <3>1, <3>2
  <2>2. OnlyMoves(m)
    BY <1>0, <2>1 DEF OnlyMoves, Same, Of
  <2>3. InReback(m)'
    BY <2>1 DEF InReback, Of
  <2>4. PlaceOf(m)' = "QUEUED"
    BY <1>p, <2>3 DEF PlacesOK
  <2>5. QED
    BY <1>2, <2>1, <2>2, <2>4, MovesQuietly
<1>6. QED
  BY <1>4, <1>5

LEMMA FrameCustody ==
    ASSUME UNCHANGED <<account, mq_vars, session, request_vars, auditHeld, over, log>>
    PROVE  CustodyKept
<1>1. \A m \in Sms : Same(m)
  BY DEF Same, mq_vars, request_vars, Of
<1>2. SmsPlace' = SmsPlace /\ SmsTold' = SmsTold /\ SmsSent' = SmsSent
  BY <1>1, SamePlaceOf DEF SmsPlace, SmsTold, SmsSent, Same
<1>3. QED
  BY <1>2 DEF CustodyKept, Custody!custody_vars

LEMMA CustodyStep ==
    ASSUME TypeInv, AllSmsInv, AllSmsInv', [AccessNext]_access_vars
    PROVE  CustodyKept
<1>1. ASSUME NEW m \in Sms, SessionThread(m)
      PROVE  CustodyKept
  BY <1>1, SessionThreadCustody
<1>2. ASSUME NEW m \in Sms, HandleTimeOut(m)
      PROVE  CustodyKept
  BY <1>2, TimeOutCustody
<1>3. ASSUME NEW m \in Sms, AuditAnswer(m) \/ AuditResult(m)
      PROVE  CustodyKept
  BY <1>3, AuditCustody, AuditResultCustody DEF AuditAnswer
<1>4. ASSUME NEW m \in Sms, OverRateThread(m) \/ ReplyLost(m)
      PROVE  CustodyKept
  BY <1>4, OverRateThreadCases, OverRateCustody
<1>5. ASSUME NEW m \in Sms, ChargeServer(m)
      PROVE  CustodyKept
  BY <1>5, ChargeCustody
<1>6. ASSUME NEW m \in Sms, SendComponent(m)
      PROVE  CustodyKept
  BY <1>6, SendCustody DEF SendComponent
<1>7. CASE OverRateSetReq \/ CleanOverRateMap \/ OtherSms
  BY <1>7, FrameCustody DEF OverRateSetReq, CleanOverRateMap, OtherSms, config_vars, rate_vars
<1>8. CASE \E c \in Closing : ChannelUpdate(c)
  BY <1>8, FrameCustody DEF ChannelUpdate, rate_vars
<1>9. CASE UNCHANGED access_vars
  BY <1>9, FrameCustody DEF access_vars, config_vars, rate_vars
<1>10. QED
  BY <1>1, <1>2, <1>3, <1>4, <1>5, <1>6, <1>7, <1>8, <1>9 DEF AccessNext

(* Queues, session, audit, over-rate check and send component together do  *)
(* what SmsCustody says, for any number of SMS and channels: every step is *)
(* a hand-over, an end the client or the network hears of, or one of the   *)
(* two silent ends (Forget, Misfile) the code has.                         *)
THEOREM CustodyImplemented == AccessSpec => ImplementsCustody
<1>1. AccessInit => Custody!Init
  <2> SUFFICES ASSUME AccessInit
               PROVE  Custody!Init
    OBVIOUS
  <2>1. /\ \A m \in Sms : log[m].rep = 0 /\ log[m].delivered = NoChannel /\ InIo(m)
        /\ TypeInv /\ AllSmsInv
    <3>1. \A m \in Sms : log[m].rep = 0 /\ log[m].delivered = NoChannel
      BY DEF AccessInit, NewLog
    <3>2. ASSUME NEW m \in Sms
          PROVE  InIo(m)
      <4> DEFINE q == [sms |-> m, audited |-> FALSE, routed |-> 0]
      <4>1. q \in ioMq /\ q.sms = m
        BY DEF AccessInit
      <4> HIDE DEF q
      <4>2. QED
        BY <4>1 DEF InIo, Of
    <3>3. QED
      BY <3>1, <3>2, InitInv
  <2>2. SmsPlace = [m \in Sms |-> "QUEUED"] /\ SmsTold = {} /\ SmsSent = {}
    BY <2>1, PlacesNow DEF PlacesOK, SmsPlace, SmsTold, SmsSent
  <2>3. QED
    BY <2>2 DEF Custody!Init
<1>2. /\ TypeInv /\ AllSmsInv /\ (TypeInv /\ AllSmsInv)' /\ [AccessNext]_access_vars
      => [Custody!Next]_(Custody!custody_vars)
  BY CustodyStep DEF CustodyKept
<1>3. QED
  BY <1>1, <1>2, AccessInductive, PTL DEF AccessSpec, ImplementsCustody, Custody!Spec

=============================================================================
