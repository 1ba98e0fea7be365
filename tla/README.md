# Verification of the SMS platform (sudao-smsp)

TLA+ models, TLC configurations and TLAPS proofs for the platform under
`sudao-smsp/01_trunk`.  The models translate the C++ sources; the sources hold
no design documents and no tests, so the only statements of intent are their
(mostly Chinese) comments.  `00_public`, `public/xml`, `public/cityhash` and
`public/opensource` are vendored and left aside.  Paths below are relative to
`sudao-smsp/01_trunk`.

Contents: 1 inventory, 2 plan, 3 modules, 4 runs, 5 bounds, 6 fairness,
7 proofs, 8 where code and comments disagree, 9 what is left out.

## 1 Inventory

The platform takes SMS from clients, decides whether and over which channel to
send them, and sends them to operators' gateways.  Every component is a process
of threads that own their state and exchange messages (`public/thread/Thread.cpp`:
a mutex-protected queue, a main loop, a timing wheel per thread).  Components talk
through RabbitMQ, Redis and MySQL.

| component | state | operations | interacts with | hard part | what makes it correct |
|---|---|---|---|---|---|
| timers (`public/thread/CThreadWheel*`) | wheels of slots, tick counter | SetTimer, Destroy, Click, OnAlarm | kernel timer threads, every thread's queue | unlocked tick counter, moves between wheels | a timer fires once, on its tick; is in one list |
| direct link (`smsp_send/direct`) | connection flags, login, window, sessions | login, submit, response, time-out, reconnect, destroy | gateway, pool | asynchronous closes, late answers, stale resets | flags agree; window bounded and accounts for sessions; each session reported once |
| direct send thread (`CDirectSendThread`) | channels, channel queues | add, delete, slider update, heartbeat | links, pool | deletion with SMS queued or in flight | queued SMS are answered |
| pool (`CChannelThreadPool`) | sessions, window and login table per channel | request, audit, hand-over, retry, reback, report, configuration | consumer, links, access, redis, database | three windows that drift, retries, partial failure of long SMS | no SMS lost or doubled; window bounded; sessions end |
| shared window (`CChanelTxFlowCtr`) | one counter per channel | add, subtract, synchronise, set, delete | consumer and pool threads | overwriting a concurrent decrement | consumption does not stop for good |
| consumer (`CMQConsumerThread`) | held-back SMS per queue | consume, hold back, release, acknowledge, reconnect | broker, shared window, pool | failed acknowledgement, redelivery | each SMS handed over once |
| HTTP sending, cluster (`CHTTPSendThread`, `CSmsCluster`) | sessions, batches | send, batch time-out, report | HTTP gateways, pool | batch split on failure | each SMS of a batch reported |
| delivery reports, MO (`CDeliveryReportThread`, `CDirectMoThread`) | sessions around redis look-ups | match report, resend | links, redis, producers | report before the record is stored | report reaches the client once |
| MQ producers, Ack and NoAck consumers (`public/mqthread`) | connection, message list | publish, retry | broker | lost connection | no message lost on reconnect |
| access (`smsp_access`) | session per SMS in `CSessionThread`, over-rate sessions, counters in redis | blacklist, template, audit, route, over-rate, charge, requeue, reback | its worker threads, redis, charge, send | answers against time-outs, several rounds of routing | one owner, one verdict, one charge per SMS; counters balance |
| c2s (`smsp_c2s`) | client connections, sessions of long-message parts, their hash in redis | bind, submit, count, store, merge, time-out, report push | clients, redis, access, other c2s processes | parts in any order in several processes, lost redis commands | merged whole or reported, once |
| HTTP gateway (`smsp_http`) | sessions, report queues | submit, push, get report, balance | clients, redis, access | retry of pushes | report pushed until accepted |
| charge (`smsp_charge`) | charge sessions | deduct, refund | database | time-outs | deducted once |
| report (`smsp_report`) | dispatch sessions | fetch, match, push | channels, redis | as delivery reports | as delivery reports |
| audit (`smsp_audit`) | audit lists | group, expire | redis, database | expiry against decision | one decision |
| database consumer (`smsp_consumer`) | statement batches | execute, acknowledge | broker, database | failure inside a batch | at least once |
| rule loading (`CRuleLoadThread`) | copies of tables | compare, notify | every thread | half-updated configuration | consistent updates |
| redis and database threads | requests under way | request, response | external services | lost answers | every request answered |
| routing (`public/router`, `ChannelSelect`) | none | choose a channel | access | weights | choice respects the rules |
| shared data (`SnManager`, `ChannelMng`) | numbers, maps | allocate, look up | send, access | reuse | one owner per number |
| network, codecs, XML, helpers, about 55 HTTP plug-ins | buffers | encode, decode | – | formats | out of the scope of these models |

`PROJECT.json` lists the same parts with the files they come from, the hazards
at their lines and the map from definitions to code.

## 2 Plan

In order of importance; the first seven are in place.

1. `ThreadWheelTimer` – the timers everything else relies on.
2. `DirectLink` – links of one direct channel and their threads.
3. `ChannelTxPool` – EXTENDS `DirectLink` with consumer, shared window and pool:
   the way of an SMS from the broker to its answer.
4. `ThreadWheelTimerProofs`, `DirectLinkProofs`, `AccessSessionProofs`, `LongMessageProofs`;
   for the pool `ChannelTxPoolSteps`, which goes through its actions once, then
   `ChannelTxPoolProofs`, `ChannelTxPoolDeliveryProofs` and `ChannelTxPoolWindowProofs`.
5. `SmsDelivery`, what the send component owes to an SMS, implemented by
   `ChannelTxPool`.
6. `AccessSession` – session and over-rate threads of access, with what they take
   from `SmsDelivery` – and `SmsCustody`, what access owes to an SMS.
7. `LongMessage` – merge of long messages in c2s `CUnityThread`.
8. Theorems: every invariant the runs check is proved for the module that states it, and both
   refinements are.  What is left of safety comes with the modules of 9 and 10.
9. Channels added again after deletion and `AdaptChannelNodeNumChanged`; stale
   time-outs for a re-used channel number.
10. `MqProducer` with the Ack consumer; then `Charge`, `ReportPush`, `SmsCluster`,
    `SnManager`.

## 3 Modules

**ThreadWheelTimer.**  `m_iTick`, `m_iCursor`, `m_iRemain`, `m_pItem` are the
members of that name; `slot[i][p]` is the list `m_ItemArray[p]` of wheel `i`;
`life` says whether a timer still owns its message.  `OnAlarmLoad` and
`OnAlarmStore` split `m_iTick += 1`, which runs in a thread of the kernel's
choosing, and `ReadTick` and `ClearTick` split `GetPassedTime`.  `WheelClick`,
`PopTimer`, `WheelDone` and `ClickDone` are the loops of
`CThreadWheelTimerManager::Click`.  `SetTimer`, `Destroy` and `HandleMsg` are what
handlers do between two clicks.  A slot's list is a set, since a slot is always
emptied completely.  Two wheels are modelled; assumption `DelaysFit` says that no
delay needs a third, whose span would overflow an int.

**DirectLink.**  One channel with a link on each of several direct threads.  Each
handler of the thread (`HandleHeartTimeOut` with `OnTimer`, `HandleReset`,
`HandleDispatch`, `HandleChannelSlideWindowUpdate`, `HandleChannelDel`,
`HandleChannelCloseTimeOut` with `destroy()`) and each event of the socket
(`OnConnResp…`, `OnSubmitResp`, `OnHeartbeat`, `OnBadPacket`, `OnClosed`) is one
action, since a thread runs its handlers and its socket events one after the
other.  The four parts of `OnTimer` are `TimerConn`, `TimerHeartLost`,
`TimerAlive` (all three with `Expire`).  `wire` holds the segments the gateway can
still answer on the current socket; it is the environment.  `Env…` actions stand
for the pool when the module is checked alone.  `written`, `reported`, `dropped`,
`expired` and `reset` are history variables for the properties.

**ChannelTxPool.**  EXTENDS `DirectLink` and adds the broker's queue, the consumer's
held-back SMS, the shared window (`shared`, `bSwitchOff`), the pool's window, login
table and sessions, and `outcome`, a history of what was reported for each SMS.
`PoolNext` replaces the `Env…` actions by the pool's own.  The scan of the links
(`GetFlowState`), the session and `PostChannelMsg` are one step: they run in the
pool thread, and what a link does in between only changes what the SMS meets in
the link's queue, where the model lets it happen just the same.  The round-robin
index is any link with room.  Reports are read in any order, the priorities of
`m_msgStatusQueue` included.  An SMS of the channel queue and a retry take the same way
(`SmsTxDirectChannelReq`): with the audit switch on, a copy of the message waits in `audit` until
redis says whether it is intercepted, and carries its number of attempts (`m_uSendTimes`) on.

**SmsDelivery** is the abstract view of the send component: an SMS waits, is with the
pool, with a link, with the gateway, answered, sent back, or dropped with its channel.
It goes forward only; it is sent back only from where no gateway has seen it.  When its
channel has gone, several SMS may end at once (`Drop`): `destroy()` forgets what is left of a
link's sessions in one go, and an SMS of which some segments had been answered is over then,
while of the others nobody is told.  The mapping in `ChannelTxPool` reads the place off the
queues, sessions and `outcome`.

**AccessSession.**  The session thread: `HandleMQReqMsg`, `HandleMQRebackReqMsg`, one
action per answer (`BlackListReport` … `ChargeReport`) and `HandleTimeOut`.  A handler
runs until it posts a request or the session is done, so `Enter` and `Following`
chain the states of `nextState`, and `Done` is `sessionDone` with all it does: database
record, report, requeue, `OVERRATE_SET`, queue of the channel, which may be missing from the
configuration or have no exchange or routing key (`Publishes`): `sessionDone` then records a
success and counts the SMS all the same.  The over-rate thread has its own sessions
(`over`): `OverRateCheckReq`, `GlobalReply`, `ContentReply`, `ChannelReply`, `ReplyLost`,
`OverRateSetReq`, `CleanOverRateMap`; each redis command is a step, since other SMS and
other processes use the same counters (`OtherSms`).  Audit, router, template and
blacklist threads, charge server and send component are what they may answer
(`AuditThread`, `AuditResult`, `RouteFound`, `ChargeServer`, `SendComponent`).  What the audit
holds comes back by an auditor's verdict, or is checked again when a group-send limit was
lifted (`Reaudited`); its session has ended by then, so that a verdict of that check is heard
by nobody.  The history `log` records both losses (`lost` with `unsent`, and `unheard`).

**SmsCustody** says what access owes to an SMS: one party has it, it is sent only
out of a session, what has ended does not come back, and whoever ends it without
sending it tells the client.  Its weak spots are those of the code: `GiveUp` (a session times out
while the audit has the SMS, which may still be sent), `Forget` (the audit decides about an SMS
no session waits for: place `CHECKED`) and `Misfile` (recorded as submitted, not published).

*Composition.*  Access hands an SMS to a channel's queue and takes it that the send
component either delivers it or sends it back, once (`Deliver`, `SendReback`).  That is
what `SmsDelivery` promises from `WAITING` to `ANSWERED` or `BACK`, and `ChannelTxPool`
implements `SmsDelivery`; so the run `pool` discharges what the run `access`
assumes, but for an SMS dropped with its channel, which access never hears of.

**LongMessage.**  One merge key.  `at[s]` is the session of a submit, `cmdQ[n]` the commands
posted to the redis thread of process `n`, `hash` the hash in redis.  `Submit` is `mergeLong`;
`Redis` runs the head of a queue and hands the answer to `RspCount`, `RspGetShorts` or `RspLate`
(`handleRedisRsp`); `MergeTimeOut` and `GetAllTimeOut` are the two timers; `KeyExpires` is
redis; `RedisRepeats` and `RedisFails` are the redis thread when an answer is lost.  Running a command and handling its answer are one step: the answer
is fixed when the command runs, handling it touches only the session of the part and
posts further commands, and commands are posted and answered in order, so every
order of commands in redis is also reached with the two together.

`MC…` modules give the constants values; `…Proofs` modules hold theorems.
Definitions marked "Variation" restate a definition with a plausible slip
(a guard dropped, a reset missing).  No specification uses them: with one in
place of the original, TLC finds the property violated that is meant to catch it.

## 4 Runs

| run | instance | shows |
|---|---|---|
| `wheel` | 1 timer, every delay two wheels hold, 2 alarm threads, up to 3 ticks pending | `ListedOnce`, `NeverLate`, `NeverEarly`: the timer is in one list and fires exactly on its tick, also when it moves between the wheels; `TicksConserved`: no tick is lost unless two accesses overlap; `TimersFire`: it fires or is destroyed once overlaps have ceased |
| `link` | 1 link, an SMS of 2 segments, slider 1 or 2, a fault, deletion | `LinkStateConsistent`, `WindowCapped`, `WindowAccounting`, `SessionsConserved` |
| `link_live` | 1 link, 2 SMS, window 1 | `WindowRecovers`, `SmsAnswered`, with a gateway that may stay silent |
| `pool` | 2 SMS, audit of each attempt, a gateway and a broker fault, deletion | `SmsInOnePlace`, `SessionsMatch`; `ImplementsDelivery`: the whole implements `SmsDelivery` |
| `pool_config` | an SMS of 2 segments, audit, slider 1 or 2, a gateway fault, deletion | `PoolWindowBounded`, `SessionsMatch`; `RebackedNotSent`: a segment that fails or times out after another was sent does not send the SMS back |
| `pool_links` | 2 links, one SMS, a fault | `PoolSeesLogin`, `SmsInOnePlace` |
| `pool_live` | 2 SMS, window 1, silent gateway allowed | `EverySmsAnswered` |
| `access` | 1 SMS among others, 2 channels, prepaid or not, a lost redis reply, a closed channel, a queue that may be missing, repeated audits | `OneCarrier`, `NotForgotten`, `OneVerdict`, `ChargedOnce`; `GlobalConserved`, `ChannelDayConserved`, `TokenOwned`: the counters in redis balance; `Settles`: requeues and rebacks end; `ImplementsCustody` |
| `long_message` | 3 submits of a message of 2 or 3 parts, 2 processes, a failed redis command | `MergedWhole`, `PartVerdict`, `PartNotForgotten`, `KeyExpiresSometime`; `PartsEnd`, `PollingEnds`: every part gets a verdict, no session asks for ever |
| `reback_on_delete` | 1 SMS, deletion | `QueuedSmsRebacked` is violated, see 8 |
| `segment_timer` | 2 segments sent, 3 announced | `SegmentsTimeOut` is violated, see 8 |
| `ack_failure` | 2 SMS, one failing acknowledgement | `EverySmsAnswered` is violated, see 8 |

The type invariants ride on the first run of their module.  The wheel run checks
deadlock.  The others do not: once the channel is deleted and the bound on faults
is used up, a link really has nothing left to do; an SMS of access ends, and so does
a message of c2s.

`WindowAccounting` deserves a word: on a logged-in link whose window was not reset
by hand, free tokens, unanswered segments of this connection and segments given up
add up to the slider.  A time-out does not return its token; that it is still not
lost for good is `WindowRecovers`, through the 60 s reset of an empty window.

Several properties of `access` and `long_message` name the cases in which the code
itself gives up; what they say is that there are no others.
- `NotForgotten`, `SmsCustody` and `Settles` name two ways of losing an SMS.  `log.lost`:
  `MQChannelpublishMeaasge` publishes nothing, because an SMS sent back was routed to a channel that the
  session thread no longer knows, or because the queue of a known channel is not configured;
  `sessionDone` records it as submitted and tells nobody.  `log.unheard`: the audit passes or
  refuses an SMS that no session waits for, because the session timed out, or because the audit held the SMS
  and checks it again after a group-send limit was lifted.  `Settles` names a third case,
  `Stuck`: a session of an SMS sent back, which has no timer, whose redis reply was lost; and an
  SMS that is with the audit (`InAudit`) may stay there.
- `ChannelDayConserved` counts with `log.unsent` the SMS that were not published though
  `OVERRATE_SET` said they were sent: their unit of the day counter is never given back.
- `OneVerdict` excludes an SMS whose session timed out while the audit had it: it is reported
  as failed and may still pass.  `TokenOwned` excludes an over-rate session whose SMS timed
  out during the check: its unit of the counter stays taken.
- `PartVerdict`, `PartNotForgotten`, `PartsEnd` and `KeyExpiresSometime` exclude `Disturbed`
  messages: redis failed, or a part was counted or stored while another session ended the
  message.  The second and third also leave out messages with a part that was accepted
  twice (`Repeats`): the contents then never meet the count, and the key expires with
  the parts in it.  `PollingEnds` holds for all of them; of a `Disturbed` message
  `MergedWhole` says only that every part is in the SMS, not that each is there once.

## 5 Bounds

- Wheels of 3 slots of 2 ms with delays 1 to 13, which is all that two wheels hold: below
  a unit, on the edge between the wheels, not a whole number of units.  With 3 slots each
  position relative to the cursor (next, middle, under the cursor) occurs.
  `MaxPending` = 2 (an alarm starts at 2 at most) gives up to three ticks at once and every
  overlap of two alarms with each other and with the clear.  One timer is enough: timers share
  nothing but slots, and `ListedOnce` is proved for any number of them.
- `HeartLimit`, `ResetTicks`, `SessionTicks` count runs of `OnTimer` (3 s).  In the
  code they are 10, 20 and 100; the instances keep the order with 1, 2, 3 or 1, 1, 2,
  so that a silent peer is noticed first, then an empty window, then a session.
- `MaxFaults` bounds closes, errors, bad packets and refused logins; one is enough to
  leave a stale `CHAN_RESET`, or a session of an earlier connection, behind a new login.
- `MaxQueue` stops the timer and the configuration (not the gateway, whose messages
  the fault bound limits) while a queue is as long as that, which keeps queues finite.
- Two SMS compete for a window of one; one SMS of two segments overshoots it.
  Two links show the per-link parts (login table, choice of a link).
- `MaxSendTimes` = 2: one retry, then reback, with the audit asked before each attempt.
  `MaxMqFaults` = 1 in `pool`.  `pool_config` has none, to leave room for two segments with the
  audit on; with its one link the bound of `PoolWindowBounded` is the largest slider, and the sum over
  several links is what the theorem `PoolNeverAboveLinks` is for.
- Access: one SMS, any kind of account, with two channels to be routed over.  Other SMS
  are units of the same counters (`MaxOthers` = 1 against limits of 1, so that a counter is
  met below and at its limit) and full channels.  `MaxOverCount` = 3 lets an SMS be sent back,
  requeued and sent back again.  `Closing` = one channel, so that one is left.  Whether the queue
  of a channel is configured is decided anew each time a session ends, and the audit may check an
  SMS it holds any number of times.  SMS meet in the counters only; one of them has 268,032 states, two are
  too many for the temporal properties.
- Long messages: three submits in any order.  `MCMessages` holds a message of three parts
  (all of them, or some missing), one of three with a part repeated, and one of two
  with a part repeated or one too many.  Two processes, so that the first and the
  last part have queues of their own.  `MaxFaults` = 1: a command whose answer is lost is executed
  twice at most, where the loop of `RedisReqProc` would try a third time.
- Symmetry is used for SMS and links, in runs of invariants and of one property without
  fairness only.

## 6 Fairness

- `Click`: `MainLoop` calls it on every turn and handles one bounded batch of
  messages between two calls.  `OnAlarm` is started by a periodic timer and returns.
- Each direct thread's turn runs the timers, one SMS of the channel queue and one
  message of its own queue: weak fairness of `LinkMessage`, `HandleDispatch` and
  `HeartFires` for each link.
- The pool serves its two queues on every turn: weak fairness of `PoolMessage` and of
  reading a report.  The consumer keeps asking the broker: weak fairness of `MqDeliver`.
- Access: the session thread handles what is in its queues and its timers fire, the over-rate
  thread handles messages and answers, the send component finishes with what it took
  (`AccessFairness`).  Nothing is assumed of the audit, the charge server, the message
  that ends an over-rate session, other SMS, or closed channels.
- Long messages: the redis thread runs its commands, timers fire, and a key expires: strong
  fairness, since a key's time comes whatever is posted meanwhile (`KeyExpires` keeps only the
  order "after the timer, and after what was posted by then").  The client need not send
  the missing parts.
- Nothing is assumed of the gateway, the audit redis, the configuration,
  `SysnSlideWndFromChannel` or the faults.

`TimersFire` holds once overlapping accesses to `m_iTick` cease: while they go on,
ticks may be wiped out for ever.  `EverySmsAnswered` holds while some link stays
logged in: otherwise SMS rightly stay in the broker.

## 7 Proofs

All proofs are for arbitrary constants under the named assumptions (`WheelAssumption`,
`DelaysFit`, `LinkAssumption`, `AccessAssumption`, `LongAssumption`): any number of timers,
links, SMS, segments, channels, submits and processes, any size of wheel, any bound on faults.
The assumptions say what the code's types say: SMS and direct threads are finitely many, a
slider is a UInt32 and not 0, an SMS has a segment.

`ThreadWheelTimerProofs`
- `TypeCorrect`: TypeOK.  The inductive invariant `TypeInv` adds `ClickCounts`, that a tick is
  left to apply while a slot is being emptied: without it `click - 1` may leave the naturals.
- `NoTickLost`: TicksConserved.  `TicksInv` adds, while nothing has overlapped, that the
  value an alarm loaded and the value the owner read are still the counter's, and that at
  most one of them is under way; the property alone does not survive a store.
- `ListsDisjoint`: ListedOnce, inductive relative to the type invariant.  The lemma
  `PlaceTimerLists` says that placing a timer adds it to one slot and changes nothing else.
- `NoTimerLate`, `NoTimerEarly`: NeverLate and the action property NeverEarly.  `TimeInv` says
  what the position of a timer means: the clicks until the cursor of its wheel reaches its slot
  (`Clicks`), times the span of a slot, plus `m_iRemain` for the second wheel, are the ticks it has
  left (`Owed`, `Rest`).  `PlaceKeepsTime` and `CursorMoves` do the modular arithmetic, on lemmas
  about `\div` and `%` (`DivModUnique`, `TimesMonotone`).

`DirectLinkProofs`
- `LinkTypeCorrect`: LinkTypeOK, one group of variables at a time (connection, flow,
  sessions, queues), each group over every action.
- `ConnectionConsistent`: LinkStateConsistent.  The invariant `ConnInv` adds that a deleted
  link has no socket: otherwise a login could bring it back to life in the proof.
- `WindowNeverAboveSlider`: WindowCapped, which is inductive relative to LinkTypeOK.
- `EverySessionEnds`: SessionsConserved.  `SessInv` adds that an SMS waits in one queue, once, and
  that nothing is written for it before: otherwise new sessions could coincide with old ones
  and the count would not add up.  Each step is first shown to end a set of sessions, to take
  SMS off the queue, or neither (`SessionsEnd`, `SmsSubmitted`, `SmsRefused`, `SessionsKept`).
- `WindowAccounted`: WindowAccounting, from `ConnInv` (a new login finds nothing on the wire)
  and `SessInv` (a submitted segment was not on the wire before).

`ChannelTxPoolSteps` looks at each action of `ChannelTxPool` once.  It proves the types
(`PoolTypedStep`) and reduces a step to what it does to one SMS (`SmsStep`): the pool moves it, hands
it over, sends it back, has it intercepted, discards it or hears a report of it; a link refuses it,
submits it or ends sessions of it; or it is left alone.  `SmsInv` says what session, outcome and
sessions on links an SMS has in each of its places, and each kind of step keeps it.  The link's
half of this is the lemmas behind `EverySessionEnds`, which know nothing of the pool.

`ChannelTxPoolProofs`
- `PoolInductive`: the invariant `PoolInv` of types, `SmsInv` for every SMS, `SessInv` of the links, that an
  SMS is queued once (`PoolOnce`), and that nothing on its way says that an existing channel has
  gone (`LiveInv`: a stray DEL or NO_CHANNEL would let an SMS leave its place).
- `SmsInExactlyOnePlace`, `RebackedNeverSent`: SmsInOnePlace and RebackedNotSent follow from it.
- `PoolLearnsLogin`: PoolSeesLogin, from `LoginInv`, that after the notifications still in the queue the
  table holds what the link reported last (`Arrives`, with lemmas for adding to and taking from a queue).
- `SegmentsFresh`: no segment is open on two links, or open and reported (`FreshInv`).
- `SessionsMatchLinks`: SessionsMatch, from `SegInv`, which balances reports, sessions and the pool's count of
  each SMS.  The theorem assumes `Total = Segs`: a report carries the number of segments that
  were sent.  The run `segment_timer` shows what happens otherwise.

`ChannelTxPoolDeliveryProofs`
- `DeliveryImplemented`: ImplementsDelivery, the refinement of `SmsDelivery`.  `PlaceIs` states the place of an SMS
  in the terms of `SmsStep`; each kind of step then is an `Advance`, a `Drop`, a `Delete` or a stutter.

`ChannelTxPoolWindowProofs`
- `PoolTypeCorrect`, `PoolNeverAboveLinks`: PoolTypeOK and PoolWindowBounded.  The bound alone is not inductive, for
  the shared window flows back into the pool's: `WindowInv` bounds that one too, by one more, since
  `clearBlockedMsgAndResumeSlideWindowSize` adds without a maximum, and by the bound itself while an SMS
  is held back, the window is switched off or the channel has gone.  It needs `WindowCapped` of the
  links for `SysnSlideWndFromChannel`, and that notifications carry sliders of the channel (`LoginMsg`, `ResetMsg`).
- `LinksKeepPromises`: LinkStateConsistent, WindowCapped, WindowAccounting and SessionsConserved again, now with the
  pool in the place of the `Env…` actions: it only posts to a link and reads its reports (`OnlyLinks`).

`AccessSessionProofs`
- `AccessTypeCorrect`: AccessTypeOK.  That the global counter an over-rate session reads is
  never negative follows from the balance of the counters.
- `InOneCarrier`, `NoneForgotten`, `OneVerdictEach`, `NoneChargedTwice`, `EveryTokenOwned`: OneCarrier,
  NotForgotten, OneVerdict, ChargedOnce, TokenOwned, from `SmsInv`, an invariant of one SMS that
  says for each place it can be in what session, charge, over-rate session and verdicts it has.
  Its part `VerdictOK` says where an SMS with a verdict, or one that was counted and not published, can
  still be (nowhere), and that no session is open for an SMS on its way through the send component.
  Every handler is reduced to "it goes on" or "it ends" before its effect on `SmsInv` is looked at.
- `GlobalCountConserved`, `DayCountConserved`: GlobalConserved and ChannelDayConserved.  A step moves
  one SMS in or out of the counted sets; `CountDiffers` turns that into a difference of cardinalities.
- `CustodyImplemented`: ImplementsCustody, the refinement of `SmsCustody`: initial states map to
  initial states and every step of access to a step of the custody or to a stutter.  A second check of
  what the audit holds maps to HELD to CHECKED and on to HELD or ENDED (`Forget`), an SMS that is
  not published to `Misfile`.

`LongMessageProofs`
- `LongTypeCorrect`: LongTypeOK, with `Shape`, which commands are posted for a session in each of its
  states, so that a submit is counted once.
- `OnlyWholeMerged`: MergedWhole.  `OneVerdictPerPart`, `NoPartForgotten`, `EveryKeyExpires`:
  PartVerdict, PartNotForgotten, KeyExpiresSometime, from `RoundInv` (in an undisturbed message the last
  counted part alone reads the hash, and finds in it what was stored), `VerdictInv` and `ForgetInv`.

A proof attempt changed one property: MergedWhole used to say that a merged message holds each part
exactly once.  With four submits of a message of two parts and a repeated part, TLC found a run
in which the hash is read with a part of the next round in it.  It now says that every part is there
always, and once each unless the message was disturbed.  Preparing `DeliveryImplemented` changed another:
`Drop` of `SmsDelivery` used to let one SMS go at a time and to count it as dropped, which a link that
ends with several SMS, some of them partly answered, does not do; the instance of one link with a
window of one never shows it.

Model-checked only:
- all liveness (fairness and ENABLED are beyond the prover);
- the three properties that the code violates (8), which concern one instance each;
- what a recursive definition computes for all inputs: the library's induction theorems take an
  operator as parameter, which the provers cannot instantiate.  No module declares a RECURSIVE operator,
  and the sum over the links in `SysnSlideWndFromChannel` is the cardinality of the set of their free tokens.

## 8 Where the code and its comments disagree

- *SMS of a deleted channel* (`reback_on_delete`).  Comments at
  `CDirectSendThread.cpp:459` and `:274` say that queued SMS are handed to reback.  The
  code reports `NO_CHANNEL`, for which `smsTxCheckReback` answers FAIL: the client gets a
  failure report instead of another attempt.
- *Segment timer* (`segment_timer`).  `CChannelTxThreadPool.cpp:4501` sets a timer "that
  deals with segments"; `HandleTimeOut` does not know its id.  A session that misses a
  segment stays for ever.
- *Token of a failed acknowledgement* (`ack_failure`).  After a lost connection the
  consumer "restores the window" (`CMQConsumerThread.cpp:138`), but only for held-back
  SMS, not for the one whose acknowledgement failed.  With the last token gone, the consumer waits until
  a login, a window reset or a slider change overwrites the shared window.

## 9 Left out

- Real time: only the order of time-outs is kept.  That a timer set while ticks are
  pending fires early by those ticks is not visible.
- A written acknowledgement counts as received by the broker.
- An SMS acknowledged and then handled by a pool whose channel has just been deleted is
  dropped with a log line; `SmsInOnePlace` speaks of existing channels only.  After a crash of the
  process SMS in memory are gone; nothing in the code recovers them.
- Undefined behaviour: the pool reads `m_mapChannelInfo` under a lock its writer does not take
  (taken as atomic); `destroy()` advances an erased iterator (any subset of the remaining
  sessions is reported).
- The database row of login states, alarms, delivery reports, MO, resend by failure
  code, cluster mode, HTTP channels, the other direct protocols.
- Access: send-limit control, white lists, test channels, failed-resend, the choice among
  channels (any channel of the group that has not failed), the sessions and caches of the audit.
  The increment of a channel's day counter, which `handleOverRateSetReqMsg` posts to another redis
  thread, is applied when it is posted.
  A process that stops loses its sessions.
- Long messages: the checks of a submit (accepted or refused), the older merge in memory
  (`mergeLongSms`), the texts.  `mergeLongReleaseResource` frees a session and leaves
  its pointer in `m_mapLongSmsMngRedis` (3985 tests for the opposite); the model has no memory, and
  a released session is waited for by no command or timer.
- Redis pipelining, which is off by default; with it a failing command without a sender
  (HMSET, EXPIRE, DEL) dereferences a null `m_pSender` (`CRedisThread.cpp:265`).

Not modelled, by component (`PROJECT.json` has the reason of each):
- HTTP sending and cluster, reports and MO of send, producers and Ack consumers, HTTP gateway,
  charge, report, database consumer, `SnManager`: within reach, left to the plan.
- Other direct protocols: variants of the CMPP link over the same `IChannel`.
- Audit service, rule loading, database threads, routing: present in the models as
  the answers and configuration changes they may give.
- Network, codecs, XML, helpers, plug-ins: formats and I/O, without behaviour over time.
