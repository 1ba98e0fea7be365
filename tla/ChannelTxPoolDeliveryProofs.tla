--------------------- MODULE ChannelTxPoolDeliveryProofs ---------------------
(***************************************************************************)
(* ChannelTxPool implements SmsDelivery. What SmsStep says of one SMS      *)
(* decides its place before and after the step (PlaceIs); each kind of     *)
(* step is a step, a loss or a stutter of the abstract specification.      *)
(***************************************************************************)
EXTENDS ChannelTxPoolProofs

-----------------------------------------------------------------------------
(* The refinement of SmsDelivery.  Where an SMS is, by what there is of it.*)
RefusalRead(m) == \E r \in Reports(m) : r.status \in Refusal
Gone(m) == ~Waiting(m) /\ ~Queued(m) /\ OpenOf(m) = {} /\ Reports(m) = {}

PlaceIs(m) ==
    /\ m \in broker => PlaceOf(m) = "WAITING"
    /\ Waiting(m) /\ m \notin broker => PlaceOf(m) = "POOL"
    /\ ~Waiting(m) =>
         /\ Queued(m) \/ RefusalRead(m) => PlaceOf(m) = "LINK"
         /\ ~Queued(m) /\ ~RefusalRead(m) /\ ~Gone(m) => PlaceOf(m) = "GATEWAY"
    /\ Gone(m) =>
         /\ outcome[m].reback > 0 => PlaceOf(m) = "BACK"
         /\ ~(outcome[m].reback > 0) /\ Answered(m) => PlaceOf(m) = "ANSWERED"
         /\ ~(outcome[m].reback > 0) /\ ~Answered(m) => PlaceOf(m) = "DROPPED"

LEMMA PlaceFromParts == LinkTyped /\ (\A m \in Sms : FreshInv(m)) => \A m \in Sms : PlaceIs(m)
<1> SUFFICES ASSUME LinkTyped, NEW m \in Sms, FreshInv(m)
             PROVE  PlaceIs(m)
  OBVIOUS
<1>1. AtLink(m) <=> Queued(m) \/ OpenOf(m) # {} \/ Reports(m) # {}
  BY AtLinkParts
<1>2. Refused(m) <=> RefusalRead(m)
  <2>1. SmsOf(<<m, 0>>) = m
    BY DEF SmsOf
  <2>2. Refused(m) <=> \E r \in Reports(m) : r.seg = <<m, 0>>
    BY <2>1 DEF Refused, Reports
  <2>3. QED
    BY <2>2 DEF FreshInv, RefusalRead
<1>3. PlaceOf(m) = IF m \in broker THEN "WAITING"
                   ELSE IF Waiting(m) THEN "POOL"
                   ELSE IF RefusalRead(m) \/ Queued(m) THEN "LINK"
                   ELSE IF AtLink(m) THEN "GATEWAY"
                   ELSE IF outcome[m].reback > 0 THEN "BACK"
                   ELSE IF Answered(m) THEN "ANSWERED" ELSE "DROPPED"
  BY <1>2 DEF PlaceOf, Waiting, Queued
<1>4. m \in broker => Waiting(m)
  BY DEF Waiting
<1>5. RefusalRead(m) => Reports(m) # {}
  BY DEF RefusalRead
<1>6. QED
  BY <1>1, <1>3, <1>4, <1>5 DEF PlaceIs, Gone

LEMMA PlaceFromPartsNext ==
    LinkTyped' /\ (\A m \in Sms : FreshInv(m))' => (\A m \in Sms : PlaceIs(m))'
BY PlaceFromParts, PTL

(* How far one SMS gets in one step.                                       *)
PlaceKept(m) == PlaceOf(m)' = PlaceOf(m)
PlaceMoves(m, T) == <<PlaceOf(m), PlaceOf(m)'>> \in T

LEMMA IdlePlace ==
    ASSUME NEW m \in Sms, PlaceIs(m), PlaceIs(m)', FreshInv(m), Idle(m)
    PROVE  PlaceKept(m)
<1>1. /\ m \in broker' <=> m \in broker
      /\ Waiting(m)' <=> Waiting(m)
      /\ Queued(m)' <=> Queued(m)
      /\ OpenOf(m)' = OpenOf(m) /\ Reports(m)' = Reports(m) /\ outcome'[m] = outcome[m]
      /\ Answered(m)' <=> Answered(m)
  BY WaitSameNext, AnsweredNext DEF Idle, WaitSame, LinksSame, SentSame, RecordSame
<1>2. (RefusalRead(m)' <=> RefusalRead(m)) /\ (Gone(m)' <=> Gone(m))
  BY <1>1 DEF RefusalRead, Gone
<1>3. m \in broker => Waiting(m)
  BY DEF Waiting
<1>4. QED
  BY <1>1, <1>2, <1>3 DEF PlaceIs, PlaceKept

LEMMA EndedPlace ==
    ASSUME NEW m \in Sms, SmsInv(m), PlaceIs(m), PlaceIs(m)', RecordTyped, EndedOf(m)
    PROVE  PlaceKept(m) \/ (Closing /\ PlaceMoves(m, Delivery!Losses))
<1>1. /\ m \in broker' <=> m \in broker
      /\ Waiting(m)' <=> Waiting(m)
      /\ Queued(m)' <=> Queued(m)
      /\ outcome'[m] = outcome[m] /\ (Answered(m)' <=> Answered(m))
      /\ OpenOf(m)' \subseteq OpenOf(m)
      /\ OpenOf(m)' # OpenOf(m) => Reports(m)' # {} \/ Closing
  BY WaitSameNext, AnsweredNext DEF EndedOf, WaitSame, RecordSame
<1>2. /\ Reports(m) \subseteq Reports(m)'
      /\ \A r \in Reports(m)' \ Reports(m) :
            r.status \notin Refusal /\ \E x \in OpenOf(m) : x[2] = r.seg
  BY EndedReports
<1>3. m \in broker => Waiting(m)
  BY DEF Waiting
<1>4. CASE OpenOf(m) = {}
  <2>1. OpenOf(m)' = OpenOf(m) /\ Reports(m)' = Reports(m)
    BY <1>1, <1>2, <1>4
  <2>2. (RefusalRead(m)' <=> RefusalRead(m)) /\ (Gone(m)' <=> Gone(m))
    BY <1>1, <2>1 DEF RefusalRead, Gone
  <2>3. QED
    BY <1>1, <1>3, <2>2 DEF PlaceIs, PlaceKept
<1>5. CASE OpenOf(m) # {}
  <2>1. /\ ~Waiting(m) /\ ~Queued(m) /\ ~(outcome[m].reback > 0)
        /\ \A r \in Reports(m) : r.status \notin Refusal
    BY <1>5 DEF SmsInv, WaitingInv, QueuedInv, UnsentInv, RefusalInv, BackInv, Untouched
  <2>2. ~RefusalRead(m) /\ ~RefusalRead(m)' /\ ~Gone(m)
    BY <1>2, <1>5, <2>1 DEF RefusalRead, Gone
  <2>3. PlaceOf(m) = "GATEWAY"
    BY <2>1, <2>2 DEF PlaceIs
  <2>4. CASE ~Gone(m)'
    <3>1. PlaceOf(m)' = "GATEWAY"
      BY <1>1, <2>1, <2>2, <2>4 DEF PlaceIs
    <3>2. QED
      BY <2>3, <3>1 DEF PlaceKept
  <2>5. CASE Gone(m)'
    <3>1. Closing
      BY <1>1, <1>5, <2>5 DEF Gone
    <3>2. PlaceOf(m)' \in {"ANSWERED", "DROPPED"}
      BY <1>1, <2>1, <2>5 DEF PlaceIs
    <3>3. QED
      BY <2>3, <3>1, <3>2 DEF PlaceMoves, Delivery!Losses
  <2>6. QED
    BY <2>4, <2>5
<1>6. QED
  BY <1>4, <1>5

LEMMA RefusedPlace ==
    ASSUME NEW m \in Sms, SmsInv(m), PlaceIs(m), PlaceIs(m)', RefusedAt(m)
    PROVE  PlaceKept(m)
<1>1. Queued(m) /\ ~Waiting(m) /\ ~Waiting(m)'
  BY WaitSameNext DEF RefusedAt, SmsInv, WaitingInv
<1>2. RefusalRead(m)'
  <2>1. PICK st \in Refusal : RefusalOf(m, st) \in Reports(m)'
    BY DEF RefusedAt
  <2>2. RefusalOf(m, st).status \in Refusal
    BY DEF RefusalOf
  <2>3. QED
    BY <2>1, <2>2 DEF RefusalRead
<1>3. PlaceOf(m) = "LINK" /\ PlaceOf(m)' = "LINK"
  BY <1>1, <1>2 DEF PlaceIs
<1>4. QED
  BY <1>3 DEF PlaceKept

LEMMA SubmittedPlace ==
    ASSUME NEW m \in Sms, SmsInv(m), SmsInv(m)', PlaceIs(m), PlaceIs(m)', SubmittedAt(m)
    PROVE  PlaceMoves(m, Delivery!Steps)
<1>1. /\ Queued(m) /\ ~Waiting(m) /\ ~Waiting(m)' /\ ~Queued(m)'
      /\ Reports(m)' = {} /\ Segs[m] \in Nat \ {0}
  BY WaitSameNext, SubmittedFresh, LinkAssumption DEF SubmittedAt, SmsInv, WaitingInv
<1>2. OpenOf(m)' # {}
  <2>1. PICK l \in Links : OpenOf(m)' = OpenOf(m) \cup ({l} \X SegsOf(m))
    BY DEF SubmittedAt
  <2>2. <<m, 1>> \in SegsOf(m)
    BY <1>1 DEF SegsOf
  <2>3. <<l, <<m, 1>>>> \in {l} \X SegsOf(m)
    BY <2>2
  <2>4. QED
    BY <2>1, <2>3
<1>3. ~RefusalRead(m)' /\ ~Gone(m)'
  BY <1>1, <1>2 DEF RefusalRead, Gone
<1>4. PlaceOf(m) = "LINK" /\ PlaceOf(m)' = "GATEWAY"
  BY <1>1, <1>3 DEF PlaceIs
<1>5. QED
  BY <1>4 DEF PlaceMoves, Delivery!Steps

(* The steps of the pool.                                                  *)
LEMMA UnsentPlace ==
    ASSUME NEW m \in Sms, SmsInv(m), PlaceIs(m), PlaceIs(m)', RecordTyped, RecordTyped',
           broker' \subseteq broker, Unsent(m)
    PROVE  \/ PlaceKept(m) \/ PlaceMoves(m, Delivery!Steps)
           \/ ~poolLive /\ PlaceMoves(m, Delivery!Losses)
<1>1. /\ OpenOf(m)' = {} /\ Reports(m)' = {} /\ Waiting(m) /\ outcome[m] = NoOutcome
      /\ ~RefusalRead(m)'
  BY UnsentStays DEF RefusalRead
<1>2. PlaceOf(m) = IF m \in broker THEN "WAITING" ELSE "POOL"
  BY <1>1 DEF PlaceIs
<1>3. ~Queued(m)
  BY <1>1 DEF SmsInv, WaitingInv
<1>4. CASE Moved(m)
  <2>1. PlaceOf(m)' = IF m \in broker' THEN "WAITING" ELSE "POOL"
    BY <1>4 DEF Moved, PlaceIs
  <2>2. QED
    BY <1>2, <2>1 DEF PlaceKept, PlaceMoves, Delivery!Steps
<1>5. CASE HandedOver(m)
  <2>1. PlaceOf(m) = "POOL" /\ PlaceOf(m)' = "LINK"
    BY <1>2, <1>5 DEF HandedOver, Leaves, PlaceIs
  <2>2. QED
    BY <2>1 DEF PlaceMoves, Delivery!Steps
<1>6. CASE SentBack(m) \/ Intercepted(m) \/ Discarded(m)
  <2>1. PlaceOf(m) = "POOL" /\ Gone(m)'
    BY <1>1, <1>2, <1>3, <1>6 DEF SentBack, Intercepted, Discarded, Leaves, LinksSame, Gone
  <2>2. CASE SentBack(m)
    <3>1. outcome'[m].reback = 1
      BY <1>1, <2>2 DEF SentBack, NoOutcome
    <3>2. PlaceOf(m)' = "BACK"
      BY <2>1, <3>1 DEF PlaceIs
    <3>3. QED
      BY <2>1, <3>2 DEF PlaceMoves, Delivery!Steps
  <2>3. CASE Intercepted(m)
    <3>1. outcome'[m].reback = 0 /\ outcome'[m].audit = 1
      BY <1>1, <2>3 DEF Intercepted, NoOutcome
    <3>2. outcome'[m] \in [succ : Nat, fail : Nat, reback : Nat, audit : Nat]
      BY DEF RecordTyped
    <3>3. Answered(m)'
      BY <3>1, <3>2 DEF Answered
    <3>4. PlaceOf(m)' = "ANSWERED"
      BY <2>1, <3>1, <3>3 DEF PlaceIs
    <3>5. QED
      BY <2>1, <3>4 DEF PlaceMoves, Delivery!Steps
  <2>4. CASE Discarded(m)
    <3>1. outcome'[m] = NoOutcome /\ ~poolLive
      BY <1>1, <2>4 DEF Discarded, RecordSame
    <3>2. ~Answered(m)' /\ ~(outcome'[m].reback > 0)
      BY <3>1 DEF Answered, NoOutcome
    <3>3. PlaceOf(m)' = "DROPPED"
      BY <2>1, <3>2 DEF PlaceIs
    <3>4. QED
      BY <2>1, <3>1, <3>3 DEF PlaceMoves, Delivery!Losses
  <2>5. QED
    BY <1>6, <2>2, <2>3, <2>4
<1>7. QED
  BY <1>4, <1>5, <1>6 DEF Unsent

LEMMA HeardPlace ==
    ASSUME NEW m \in Sms, SmsInv(m), PlaceIs(m), PlaceIs(m)', LinkTyped, RecordTyped,
           RecordTyped', LiveInv, NEW r \in statusQ, Heard(m, r)
    PROVE  \/ PlaceKept(m) \/ PlaceMoves(m, Delivery!Steps)
           \/ ~poolLive /\ PlaceMoves(m, Delivery!LateSteps)
<1>1. /\ r \in Reports(m) /\ Reports(m)' = Reports(m) \ {r} /\ OpenOf(m)' = OpenOf(m)
      /\ Waiting(m)' <=> Waiting(m)
      /\ Queued(m)' <=> Queued(m)
  BY WaitSameNext DEF Heard, SentSame
<1>2. ~Waiting(m) /\ ~Queued(m) /\ written[m] > 0 /\ ~Gone(m)
  <2>1. ~Waiting(m) /\ ~Queued(m) /\ written[m] # 0
    BY <1>1 DEF SmsInv, WaitingInv, QueuedInv, UnsentInv
  <2>2. QED
    BY <1>1, <2>1 DEF Gone, LinkTyped, SessTypeOK
<1>3. /\ outcome[m] \in [succ : Nat, fail : Nat, reback : Nat, audit : Nat]
      /\ outcome'[m] \in [succ : Nat, fail : Nat, reback : Nat, audit : Nat]
  BY DEF RecordTyped
<1>4. ~(outcome[m].reback > 0)
  BY <1>1 DEF SmsInv, BackInv
<1>5. Answered(m)'
  <2>1. CASE session[m].open
    <3>1. PICK k \in {"reback", "fail", "succ"} : outcome'[m] = [outcome[m] EXCEPT ![k] = @ + 1]
      BY <2>1 DEF Heard
    <3>2. outcome'[m][k] > 0 /\ k \in DOMAIN outcome'[m]
      BY <1>3, <3>1
    <3>3. QED
      BY <3>2 DEF Answered
  <2>2. CASE ~session[m].open
    <3>1. Answered(m) /\ outcome'[m] = outcome[m]
      BY <1>2, <2>2 DEF SmsInv, HeardInv, Heard, RecordSame
    <3>2. QED
      BY <3>1, AnsweredNext
  <2>3. QED
    BY <2>1, <2>2
<1>6. CASE r.status \in Refusal
  <2>1. Reports(m) = {r} /\ OpenOf(m) = {} /\ session[m] = Opened
    BY <1>1, <1>6 DEF SmsInv, RefusalInv, Untouched
  <2>2. PlaceOf(m) = "LINK" /\ Gone(m)'
    BY <1>1, <1>2, <1>6, <2>1 DEF PlaceIs, RefusalRead, Gone
  <2>3. PICK k \in {"reback", "fail", "succ"} :
           /\ outcome'[m] = [outcome[m] EXCEPT ![k] = @ + 1]
           /\ k = "reback" <=> r.status = "SOCKET_ERR"
    BY <2>1 DEF Heard, Opened, NoSession
  <2>4. CASE k = "reback"
    <3>1. outcome'[m].reback > 0
      BY <1>3, <2>3, <2>4
    <3>2. PlaceOf(m)' = "BACK"
      BY <2>2, <3>1 DEF PlaceIs
    <3>3. QED
      BY <2>2, <3>2 DEF PlaceMoves, Delivery!Steps
  <2>5. CASE k # "reback"
    <3>1. ~(outcome'[m].reback > 0)
      BY <1>3, <1>4, <2>3, <2>5
    <3>2. r.status = "NO_CHANNEL"
      BY <1>6, <2>3, <2>5 DEF Refusal
    <3>3. ~poolLive
      BY <3>2 DEF LiveInv
    <3>4. PlaceOf(m)' = "ANSWERED"
      BY <1>5, <2>2, <3>1 DEF PlaceIs
    <3>5. QED
      BY <2>2, <3>3, <3>4 DEF PlaceMoves, Delivery!LateSteps
  <2>6. QED
    BY <2>4, <2>5
<1>7. CASE r.status \notin Refusal
  <2>1. ~RefusalRead(m)
    BY <1>1, <1>7 DEF SmsInv, RefusalInv, RefusalRead
  <2>2. ~RefusalRead(m)'
    BY <1>1, <2>1 DEF RefusalRead
  <2>3. PlaceOf(m) = "GATEWAY"
    BY <1>2, <2>1 DEF PlaceIs
  <2>4. ~(outcome'[m].reback > 0)
    <3>1. CASE session[m].open
      <4>1. PICK k \in {"reback", "fail", "succ"} :
               /\ outcome'[m] = [outcome[m] EXCEPT ![k] = @ + 1]
               /\ k = "reback" <=> r.status = "SOCKET_ERR"
        BY <3>1 DEF Heard
      <4>2. k # "reback"
        BY <1>7, <4>1 DEF Refusal
      <4>3. QED
        BY <1>3, <1>4, <4>1, <4>2
    <3>2. CASE ~session[m].open
      BY <1>4, <3>2 DEF Heard, RecordSame
    <3>3. QED
      BY <3>1, <3>2
  <2>5. PlaceOf(m)' \in {"GATEWAY", "ANSWERED"}
    BY <1>1, <1>2, <1>5, <2>2, <2>4 DEF PlaceIs
  <2>6. QED
    BY <2>3, <2>5 DEF PlaceKept, PlaceMoves, Delivery!Steps
<1>8. QED
  BY <1>6, <1>7

-----------------------------------------------------------------------------
LEMMA BrokerShrinks ==
    ASSUME PoolTyped, [PoolNext]_tx_vars
    PROVE  broker' \subseteq broker
<1>1. CASE MqStep
  BY <1>1 DEF MqStep, MqDeliver, MqConsume, MqBlock, MqRelease, MqReconnect, MqAckFails
<1>2. ASSUME NEW m, NEW times, NEW q, HandleDirectSendMsg(m, times, q)
      PROVE  broker' = broker
  BY <1>2 DEF HandleDirectSendMsg, mq_vars
<1>3. CASE HandleChannelLoginStateMsg \/ HandleTimeOutResetSlideWindowMsg
  BY <1>3 DEF HandleChannelLoginStateMsg, HandleTimeOutResetSlideWindowMsg, mq_vars
<1>4. CASE Sending
  BY <1>2, <1>4, SendingKinds DEF mq_vars
<1>5. ASSUME NEW r \in statusQ, SmsTxChannelSendStatusReport(r)
      PROVE  broker' = broker
  BY <1>5 DEF SmsTxChannelSendStatusReport, mq_vars
<1>6. ASSUME NEW n \in Sliders, UpdateSlider(n)
      PROVE  broker' = broker
  BY <1>6 DEF UpdateSlider, mq_vars
<1>7. CASE DeleteChannel \/ SysnSlideWndFromChannel
  BY <1>7 DEF DeleteChannel, SysnSlideWndFromChannel, mq_vars
<1>8. CASE UNCHANGED pool_vars \/ UNCHANGED tx_vars
  BY <1>8 DEF pool_vars, tx_vars
<1>9. QED
  BY <1>1, <1>3, <1>4, <1>5, <1>6, <1>7, <1>8 DEF PoolNext, PoolMessage, Sending

(* Only the deletion of the channel ends it, and does nothing to any SMS.  *)
LEMMA OnlyDeleted ==
    ASSUME PoolTyped, [PoolNext]_tx_vars
    PROVE  UNCHANGED poolLive \/ DeleteChannel
<1>1. CASE MqStep \/ SysnSlideWndFromChannel \/ \E l \in Links : LinkStep(l) /\ UNCHANGED pool_vars
  BY <1>1 DEF MqStep, SysnSlideWndFromChannel, pool_vars
<1>2. ASSUME NEW m, NEW times, NEW q, HandleDirectSendMsg(m, times, q)
      PROVE  UNCHANGED poolLive
  BY <1>2 DEF HandleDirectSendMsg
<1>3. CASE HandleChannelLoginStateMsg \/ HandleTimeOutResetSlideWindowMsg
  BY <1>3 DEF HandleChannelLoginStateMsg, HandleTimeOutResetSlideWindowMsg
<1>4. CASE Sending
  BY <1>2, <1>4, SendingKinds
<1>5. ASSUME NEW r \in statusQ, SmsTxChannelSendStatusReport(r)
      PROVE  UNCHANGED poolLive
  BY <1>5 DEF SmsTxChannelSendStatusReport
<1>6. ASSUME NEW n \in Sliders, UpdateSlider(n)
      PROVE  UNCHANGED poolLive
  BY <1>6 DEF UpdateSlider
<1>7. CASE UNCHANGED tx_vars
  BY <1>7 DEF tx_vars, pool_vars
<1>8. QED
  BY <1>1, <1>3, <1>4, <1>5, <1>6, <1>7 DEF PoolNext, PoolMessage, Sending

LEMMA DeletedIdle == DeleteChannel => \A m \in Sms : Idle(m)
<1> SUFFICES ASSUME DeleteChannel
             PROVE  \A m \in Sms : Idle(m)
  OBVIOUS
<1>1. SessionsAlone /\ UNCHANGED <<broker, audit, poolQ, session, outcome, statusQ>>
  BY DEF DeleteChannel, SessionsAlone, conn_vars, sess_vars, mq_vars
<1>2. QED
  BY <1>1, SessionsAloneSame, AuditAlone DEF Idle, WaitSame, InPoolQueue, RecordSame, LinksSame

LEMMA PlaceTyped == \A m \in Sms : PlaceOf(m) \in Delivery!Places
BY DEF PlaceOf, Delivery!Places

LEMMA PlaceTypedNext == \A m \in Sms : PlaceOf(m)' \in Delivery!Places
BY DEF PlaceOf, Delivery!Places

LEMMA PlacesKept ==
    (\A m \in Sms : PlaceKept(m)) => UNCHANGED SmsPlace
BY DEF PlaceKept, SmsPlace

(* One SMS moves.                                                          *)
LEMMA OneMoves ==
    ASSUME NEW m \in Sms, \A n \in Sms \ {m} : PlaceKept(n), UNCHANGED poolLive,
           \/ PlaceKept(m) \/ PlaceMoves(m, Delivery!Steps)
           \/ ~poolLive /\ PlaceMoves(m, Delivery!Losses)
           \/ ~poolLive /\ PlaceMoves(m, Delivery!LateSteps)
    PROVE  [Delivery!Next]_(Delivery!delivery_vars)
<1>1. CASE PlaceKept(m)
  BY <1>1, PlacesKept DEF Delivery!delivery_vars
<1>2. /\ SmsPlace[m] = PlaceOf(m) /\ SmsPlace'[m] = PlaceOf(m)'
      /\ SmsPlace' = [SmsPlace EXCEPT ![m] = SmsPlace'[m]]
  BY DEF SmsPlace, PlaceKept
<1>3. CASE PlaceMoves(m, Delivery!Steps) \/ (~poolLive /\ PlaceMoves(m, Delivery!LateSteps))
  <2>1. <<SmsPlace[m], SmsPlace'[m]>> \in IF poolLive THEN Delivery!Steps
                                          ELSE Delivery!Steps \cup Delivery!LateSteps
    BY <1>2, <1>3 DEF PlaceMoves
  <2>2. Delivery!Advance(m)
    BY <1>2, <2>1 DEF Delivery!Advance
  <2>3. QED
    BY <2>2 DEF Delivery!Next
<1>4. CASE ~poolLive /\ PlaceMoves(m, Delivery!Losses)
  <2>1. SmsPlace' \in [Sms -> Delivery!Places]
    BY PlaceTypedNext DEF SmsPlace
  <2>2. \A n \in Sms : SmsPlace'[n] = SmsPlace[n]
                       \/ <<SmsPlace[n], SmsPlace'[n]>> \in Delivery!Losses
    BY <1>4 DEF SmsPlace, PlaceKept, PlaceMoves
  <2>3. Delivery!Drop
    BY <1>4, <2>1, <2>2 DEF Delivery!Drop
  <2>4. QED
    BY <2>3 DEF Delivery!Next
<1>5. QED
  BY <1>1, <1>3, <1>4

LEMMA DeliveryStep ==
    PoolInv /\ PoolInv' /\ FreshSegs /\ FreshSegs' /\ [PoolNext]_tx_vars
        => [Delivery!Next]_(Delivery!delivery_vars)
<1> SUFFICES ASSUME PoolInv, PoolInv', FreshSegs, FreshSegs', [PoolNext]_tx_vars
             PROVE  [Delivery!Next]_(Delivery!delivery_vars)
  OBVIOUS
<1>1. /\ LinkTyped /\ LinkTyped' /\ PoolTyped /\ RecordTyped /\ RecordTyped' /\ LiveInv
      /\ \A m \in Sms : SmsInv(m) /\ SmsInv(m)' /\ FreshInv(m) /\ FreshInv(m)'
  BY DEF PoolInv, PoolTyped, FreshSegs
<1>2. \A m \in Sms : PlaceIs(m) /\ PlaceIs(m)'
  BY <1>1, PlaceFromParts, PlaceFromPartsNext
<1>3. SmsStep /\ broker' \subseteq broker
  BY <1>1, PoolSmsStep, BrokerShrinks
<1>4. \A m \in Sms : Idle(m) => PlaceKept(m)
  BY <1>1, <1>2, IdlePlace
<1>5. CASE DeleteChannel
  <2>1. UNCHANGED SmsPlace
    BY <1>4, <1>5, DeletedIdle, PlacesKept
  <2>2. Delivery!Delete
    BY <1>5, <2>1 DEF DeleteChannel, Delivery!Delete
  <2>3. QED
    BY <2>2 DEF Delivery!Next
<1>6. CASE UNCHANGED poolLive /\ \A m \in Sms : LinkSide(m)
  <2>1. \A m \in Sms : PlaceKept(m) \/ (Closing /\ PlaceMoves(m, Delivery!Losses))
    BY <1>1, <1>2, <1>4, <1>6, EndedPlace, RefusedPlace DEF LinkSide
  <2>2. CASE \A m \in Sms : PlaceKept(m)
    BY <1>6, <2>2, PlacesKept DEF Delivery!delivery_vars
  <2>3. CASE Closing
    <3>1. ~poolLive
      BY <1>1, <2>3 DEF LiveInv, Closing
    <3>2. SmsPlace' \in [Sms -> Delivery!Places]
      BY PlaceTypedNext DEF SmsPlace
    <3>3. \A n \in Sms : SmsPlace'[n] = SmsPlace[n]
                         \/ <<SmsPlace[n], SmsPlace'[n]>> \in Delivery!Losses
      BY <2>1 DEF SmsPlace, PlaceKept, PlaceMoves
    <3>4. Delivery!Drop
      BY <1>6, <3>1, <3>2, <3>3 DEF Delivery!Drop
    <3>5. QED
      BY <3>4 DEF Delivery!Next
  <2>4. QED
    BY <2>1, <2>2, <2>3
<1>7. ASSUME UNCHANGED poolLive, NEW m \in Sms, PoolSide(m) \/ SubmittedAt(m),
             \A n \in Sms \ {m} : Idle(n)
      PROVE  [Delivery!Next]_(Delivery!delivery_vars)
  <2>1. \A n \in Sms \ {m} : PlaceKept(n)
    BY <1>4, <1>7
  <2>2. SmsInv(m) /\ SmsInv(m)' /\ PlaceIs(m) /\ PlaceIs(m)'
    BY <1>1, <1>2
  <2>3. \/ PlaceKept(m) \/ PlaceMoves(m, Delivery!Steps)
        \/ ~poolLive /\ PlaceMoves(m, Delivery!Losses)
        \/ ~poolLive /\ PlaceMoves(m, Delivery!LateSteps)
    <3>1. CASE SubmittedAt(m)
      BY <2>2, <3>1, SubmittedPlace
    <3>2. CASE Unsent(m)
      BY <1>1, <1>3, <2>2, <3>2, UnsentPlace
    <3>3. ASSUME NEW r \in statusQ, Heard(m, r)
          PROVE  <2>3
      BY <1>1, <2>2, <3>3, HeardPlace
    <3>4. QED
      BY <1>7, <3>1, <3>2, <3>3 DEF PoolSide, Unsent
  <2>4. QED
    BY <1>7, <2>1, <2>3, OneMoves
<1>8. QED
  BY <1>1, <1>3, <1>5, <1>6, <1>7, OnlyDeleted DEF SmsStep

LEMMA DeliveryInit == PoolInit => Delivery!Init
<1> SUFFICES ASSUME PoolInit
             PROVE  Delivery!Init
  OBVIOUS
<1>1. poolLive = TRUE /\ broker = Sms
  BY DEF PoolInit
<1>2. SmsPlace = [m \in Sms |-> "WAITING"]
  BY <1>1 DEF SmsPlace, PlaceOf
<1>3. QED
  BY <1>1, <1>2 DEF Delivery!Init

(* Consumer, pool and links implement SmsDelivery, whatever the number of  *)
(* links, SMS and segments: an SMS only moves forward, is sent back only   *)
(* as long as no gateway can have seen it, and is lost only with its       *)
(* channel.                                                                *)
THEOREM DeliveryImplemented == PoolSpec => ImplementsDelivery
<1>1. QED
  BY DeliveryInit, DeliveryStep, PoolInductive, SegmentsFresh, PTL
     DEF PoolSpec, ImplementsDelivery, Delivery!Spec
=============================================================================
