---------------------------- MODULE LongMessage ----------------------------
(***************************************************************************)
(* Long messages at the client gateway (smsp_c2s), merged through redis:   *)
(* CUnityThread::mergeLong and what it calls.  The parts of a message come *)
(* to several c2s processes in any order.  Each part is counted in the     *)
(* message's hash; the one that makes the count complete reads the hash    *)
(* and pushes the message on, the others store their content there.  The   *)
(* part counted first has a timer, and reports what is stored as failed if *)
(* the count is still short.                                               *)
(*                                                                         *)
(* One message (one mergeLong key) is modelled.  A command is posted to    *)
(* the process's redis thread, one for all commands of the merge, and runs *)
(* there in order; its answer is handled with it, since handling it does   *)
(* nothing but change the part's session, report, and post commands.       *)
(***************************************************************************)
EXTENDS Integers, Sequences, FiniteSets

CONSTANTS
    Submits,        \* the submits of the client, each with a part
    Nodes,          \* c2s processes
    Nobody,         \* no submit, no process
    Messages,       \* what the client sends: m_uPkTotal and each m_uPkNumber
    MaxFaults       \* bound: redis commands that fail, or are repeated

ASSUME LongAssumption ==
    /\ IsFiniteSet(Submits) /\ Messages # {}
    /\ \A msg \in Messages :
          /\ msg.total \in Nat \ {0, 1}
          /\ msg.pk \in [Submits -> 1 .. msg.total]
    /\ Nobody \notin Submits \cup Nodes
    /\ MaxFaults \in Nat

VARIABLES
    message,        \* the message, one of Messages
    node,           \* node[s]: the process s came to
    at,             \* at[s]: what the session of s waits for
    cmdQ,           \* cmdQ[n]: commands posted to the redis thread of n
    hash,           \* redis: mergeLong:<key>
    faults,
    \* History, read by no action of the program:
    log

long_vars == <<message, node, at, cmdQ, hash, faults, log>>

Total == message.total

\* "COUNT", "READ", "LATE": the answer to HINCRBY, to HGETALL, to the HGETALL
\* of the timer.  "WAIT": m_pLongSmsRedisTimer runs, "RETRY": so does
\* m_pLongSmsGetAllTimer.  "KEPT": nothing comes any more and the session is
\* still in memory.  "GONE": mergeLongReleaseResource.
Waits == {"NEW", "REFUSED", "COUNT", "WAIT", "READ", "RETRY", "LATE", "KEPT", "GONE"}

\* count: pkNumbers, 0 if the field is missing; short[k]: shortContent_k;
\* ttl: the submit whose EXPIRE the key got.
NoHash == [count |-> 0, short |-> [k \in 1 .. Total |-> Nobody], ttl |-> Nobody]

Stored(h) == {h.short[k] : k \in 1 .. Total} \ {Nobody}

\* Half the elements of the answer to HGETALL.
Fields(h) == Cardinality(Stored(h)) + (IF h.count > 0 THEN 1 ELSE 0)

\* A command for the key, posted by the session of s.
Cmd(op, s) == [op |-> op, sms |-> s]

Pending(op) == \E n \in Nodes : \E i \in DOMAIN cmdQ[n] : cmdQ[n][i].op = op

\* The submits of each message pushed on, the failure reports of each submit;
\* parts were counted or stored while another session ended the message.
NewLog == [merged |-> {}, failed |-> [s \in Submits |-> 0], crossed |-> FALSE]

-----------------------------------------------------------------------------
(* Submit.                                                                 *)

Post(n, cmds) == cmdQ' = [cmdQ EXCEPT ![n] = @ \o cmds]

\* mergeLong: refused with the response, or counted.
Submit(s, n) ==
    /\ at[s] = "NEW"
    /\ node' = [node EXCEPT ![s] = n]
    /\ \/ at' = [at EXCEPT ![s] = "REFUSED"] /\ UNCHANGED cmdQ
       \/ at' = [at EXCEPT ![s] = "COUNT"] /\ Post(n, <<Cmd("HINCRBY", s)>>)
    /\ UNCHANGED <<message, hash, faults, log>>

-----------------------------------------------------------------------------
(* A command of n runs, and n handles its answer.  `rest` is the queue     *)
(* without the command.                                                    *)

Then(n, rest, cmds) == cmdQ' = [cmdQ EXCEPT ![n] = rest \o cmds]

\* Variation: a part is counted for two.
CountedTwice(h) == [h EXCEPT !.count = @ + 2]

Counted(h) == [h EXCEPT !.count = @ + 1]

\* Variation: the key gets no time to live.
SetTimeoutNever(s, c) == <<>>

\* mergeLongSetTimeout, after the first part.
SetTimeout(s, c) == IF c = 1 THEN <<Cmd("EXPIRE", s)>> ELSE <<>>

\* Variation: the first part has no timer either.
AfterStoreReleased(c) == "GONE"

\* The first part starts the timer; of any other nothing is kept in memory.
AfterStore(c) == IF c = 1 THEN "WAIT" ELSE "GONE"

\* A session of an earlier round of the same key is still there.
EarlierRound == \E t \in Submits : at[t] \in {"WAIT", "READ", "RETRY", "LATE"}

\* mergeLongGetRedisCount, mergeLongRedisRspCount; h: the hash with s counted
RspCount(n, s, rest, h) ==
    LET c == h.count IN
    /\ hash' = h
    /\ IF c = Total
       THEN at' = [at EXCEPT ![s] = "READ"] /\ Then(n, rest, <<Cmd("HGETALL", s)>>)
       ELSE /\ at' = [at EXCEPT ![s] = AfterStore(c)]
            /\ Then(n, rest, <<Cmd("HMSET", s)>> \o SetTimeout(s, c))
    /\ log' = [log EXCEPT !.crossed = @ \/ c > Total \/ Pending("DEL") \/ (c = 1 /\ EarlierRound)]

Delete(s) == <<Cmd("DEL", s)>>

Reported(S) == [s \in Submits |-> log.failed[s] + IF s \in S THEN 1 ELSE 0]

\* Variation: as many contents as parts are taken for all parts.
WholeByNumber(S) == Cardinality(S) >= Total

\* mergeLongSmsEx finds each part number.
Whole(S) == {message.pk[t] : t \in S} = 1 .. Total

\* Variation: a hash that is not complete is given up at once.
GivenUpIncomplete(k) == k # Total

\* Variation: the timer is set whatever is found.
GivenUpNever(k) == FALSE

\* No field, or too many: an error.
GivenUp(k) == k < 1 \/ k > Total

\* mergeLongRedisRspGetShorts for the last part: nothing to read; a part that
\* is counted and not stored yet, ask again; all there.  mergeLongMsgRealProc
\* merges, or reports each part and leaves hash and session as they are.
RspGetShorts(n, s, rest) ==
    LET all == Stored(hash) \cup {s} IN
    \/ /\ GivenUp(Fields(hash))
       /\ at' = [at EXCEPT ![s] = "GONE"]
       /\ Then(n, rest, Delete(s)) /\ UNCHANGED log
    \/ /\ ~GivenUp(Fields(hash)) /\ Fields(hash) # Total
       /\ at' = [at EXCEPT ![s] = "RETRY"]
       /\ Then(n, rest, <<>>) /\ UNCHANGED log
    \/ /\ ~GivenUp(Fields(hash)) /\ Fields(hash) = Total
       /\ \/ /\ Whole(all)
             /\ at' = [at EXCEPT ![s] = "GONE"]
             /\ Then(n, rest, Delete(s))
             /\ log' = [log EXCEPT !.merged = @ \cup {all}]
          \/ /\ at' = [at EXCEPT ![s] = "KEPT"]        \* not whole, or keywords
             /\ Then(n, rest, <<>>)
             /\ log' = [log EXCEPT !.failed = Reported(all)]

\* The count the timer's HGETALL leaves in the session.
CountRead(h) == IF h.count > 0 THEN h.count ELSE 1

\* Variation: the count is not looked at again.
MergingAnyway(h) == FALSE

\* The last part has come and is merging.
Merging(h) == CountRead(h) = Total

\* mergeLongRedisRspGetShorts for the timer, mergeLongTimeout.  Only a hash
\* that is no more lets the session go.
RspLate(n, s, rest) ==
    \/ /\ Fields(hash) \notin 1 .. Total + 1
       /\ at' = [at EXCEPT ![s] = "GONE"]
       /\ Then(n, rest, Delete(s)) /\ UNCHANGED log
    \/ /\ Fields(hash) \in 1 .. Total + 1
       /\ at' = [at EXCEPT ![s] = "KEPT"]
       /\ \/ Merging(hash) /\ Then(n, rest, <<>>) /\ UNCHANGED log
          \/ /\ ~Merging(hash)
             /\ Then(n, rest, Delete(s))
             /\ log' = [log EXCEPT !.failed = Reported(Stored(hash)),
                                   !.crossed = @ \/ hash.count \notin {Cardinality(Stored(hash)), Total}]

\* Commands that get no answer.
Run(c) ==
    CASE c.op = "HMSET" -> [hash EXCEPT !.short[message.pk[c.sms]] = c.sms]
      [] c.op = "EXPIRE" -> IF Fields(hash) > 0 THEN [hash EXCEPT !.ttl = c.sms] ELSE hash
      [] OTHER -> NoHash

RunOnly(n, c, rest) ==
    /\ hash' = Run(c)
    /\ log' = [log EXCEPT !.crossed = @ \/ (c.op = "HMSET" /\ Pending("DEL"))]
    /\ Then(n, rest, <<>>) /\ UNCHANGED at

\* handleRedisRsp
Redis(n) ==
    LET c == Head(cmdQ[n])
        rest == Tail(cmdQ[n]) IN
    /\ cmdQ[n] # <<>>
    /\ \/ c.op = "HINCRBY" /\ RspCount(n, c.sms, rest, Counted(hash))
       \/ c.op = "HGETALL" /\ at[c.sms] = "READ" /\ RspGetShorts(n, c.sms, rest) /\ UNCHANGED hash
       \/ c.op = "HGETALL" /\ at[c.sms] = "LATE" /\ RspLate(n, c.sms, rest) /\ UNCHANGED hash
       \/ c.op \in {"HMSET", "EXPIRE", "DEL"} /\ RunOnly(n, c, rest)
    /\ UNCHANGED <<message, node, faults>>

\* RedisReqProc: the answer to HINCRBY is lost and the command executed again.
\* Of the others the second execution changes nothing.  The loop's third
\* attempt is left out.
RedisRepeats(n) ==
    /\ cmdQ[n] # <<>> /\ faults < MaxFaults
    /\ faults' = faults + 1
    /\ Head(cmdQ[n]).op = "HINCRBY"
    /\ RspCount(n, Head(cmdQ[n]).sms, Tail(cmdQ[n]), Counted(Counted(hash)))
    /\ UNCHANGED <<message, node>>

\* RedisReqProc: every execution fails, or its answer is lost; handleRedisRsp
\* returns at once.
RedisFails(n) ==
    LET c == Head(cmdQ[n]) IN
    /\ cmdQ[n] # <<>> /\ faults < MaxFaults
    /\ faults' = faults + 1
    /\ Then(n, Tail(cmdQ[n]), <<>>)
    /\ at' = IF c.op \in {"HINCRBY", "HGETALL"} THEN [at EXCEPT ![c.sms] = "KEPT"] ELSE at
    /\ hash' \in {hash} \cup (IF c.op = "HINCRBY" THEN {Counted(hash)} ELSE {})
    /\ UNCHANGED <<message, node, log>>

-----------------------------------------------------------------------------
(* Timers.                                                                 *)

\* HandleTimeOut, MERGE_LONG_REDIS_TIMER_ID
MergeTimeOut(s) ==
    /\ at[s] = "WAIT"
    /\ at' = [at EXCEPT ![s] = "LATE"]
    /\ Post(node[s], <<Cmd("HGETALL", s)>>)
    /\ UNCHANGED <<message, node, hash, faults, log>>

\* HandleTimeOut, MERGE_LONG_REDIS_GETALL_TIMER_ID
GetAllTimeOut(s) ==
    /\ at[s] = "RETRY"
    /\ at' = [at EXCEPT ![s] = "READ"]
    /\ Post(node[s], <<Cmd("HGETALL", s)>>)
    /\ UNCHANGED <<message, node, hash, faults, log>>

\* Redis drops the key twice the timer's time after EXPIRE: the timer has
\* fired, what was posted by then is done, a session that polls has looked.
KeyExpires ==
    /\ hash.ttl # Nobody /\ at[hash.ttl] \notin {"WAIT", "LATE"}
    /\ \A n \in Nodes : cmdQ[n] = <<>>
    /\ \A s \in Submits : at[s] = "RETRY" => Fields(hash) # Total
    /\ hash' = NoHash
    /\ UNCHANGED <<message, node, at, cmdQ, faults, log>>

-----------------------------------------------------------------------------
LongInit ==
    /\ message \in Messages
    /\ node = [s \in Submits |-> Nobody]
    /\ at = [s \in Submits |-> "NEW"]
    /\ cmdQ = [n \in Nodes |-> <<>>]
    /\ hash = NoHash /\ faults = 0 /\ log = NewLog

LongNext ==
    \/ \E s \in Submits :
          (\E n \in Nodes : Submit(s, n)) \/ MergeTimeOut(s) \/ GetAllTimeOut(s)
    \/ \E n \in Nodes : Redis(n) \/ RedisRepeats(n) \/ RedisFails(n)
    \/ KeyExpires

LongSpec == LongInit /\ [][LongNext]_long_vars

\* Commands run and timers fire.  A key expires when its time has come, whatever
\* is posted meanwhile: strong.  The client need not send more.
LongFairness ==
    /\ \A n \in Nodes : WF_long_vars(Redis(n))
    /\ \A s \in Submits : WF_long_vars(MergeTimeOut(s)) /\ WF_long_vars(GetAllTimeOut(s))
    /\ SF_long_vars(KeyExpires)

LongFairSpec == LongSpec /\ LongFairness

-----------------------------------------------------------------------------
(* Properties.                                                             *)

\* Redis failed, or a part was counted or stored while another session ended
\* the message: a part beyond m_uPkTotal; one that begins the count again while
\* an earlier session is still there; a DEL posted before that removes it; a
\* time-out with a part counted and not stored yet.
Disturbed == faults > 0 \/ log.crossed

(* Every variable has its type; no submit is counted twice unless redis    *)
(* failed (mergeLongGetRedisCount).                                        *)
LongTypeOK ==
    /\ message \in Messages
    /\ node \in [Submits -> Nodes \cup {Nobody}]
    /\ at \in [Submits -> Waits]
    /\ cmdQ \in [Nodes -> Seq([op : {"HINCRBY", "HMSET", "EXPIRE", "HGETALL", "DEL"},
                               sms : Submits])]
    /\ hash.count \in 0 .. Cardinality(Submits) + faults
    /\ hash.short \in [1 .. Total -> Submits \cup {Nobody}]
    /\ hash.ttl \in Submits \cup {Nobody}
    /\ faults \in 0 .. MaxFaults
    /\ log.merged \subseteq SUBSET Submits
    /\ log.failed \in [Submits -> Nat] /\ log.crossed \in BOOLEAN

(* What is pushed on is a whole message, whatever order the parts, repeated*)
(* ones among them, were counted and stored in, and whatever redis lost;   *)
(* undisturbed it has each part once (mergeLongRedisRspGetShorts,          *)
(* mergeLongSmsEx).                                                        *)
MergedWhole ==
    \A S \in log.merged :
       /\ {message.pk[s] : s \in S} = 1 .. Total
       /\ Cardinality(S) = Total \/ Disturbed

(* A part is not both reported as failed and sent, nor reported twice: the *)
(* timer of the first part and the last part agree on who ends the message *)
(* through the count alone (mergeLongTimeout).  Disturbed messages are     *)
(* excluded.                                                               *)
PartVerdict ==
    \A s \in Submits :
       ~Disturbed => log.failed[s] + Cardinality({S \in log.merged : s \in S}) <= 1

Ended(s) == log.failed[s] > 0 \/ s \in UNION log.merged

\* The process still works on s, or its content is on the way to the hash or
\* in it.
InHand(s) ==
    \/ at[s] \in {"NEW", "COUNT", "READ", "RETRY"}
    \/ s \in Stored(hash)
    \/ \E n \in Nodes : \E i \in DOMAIN cmdQ[n] : cmdQ[n][i].op = "HMSET" /\ cmdQ[n][i].sms = s

\* A part was accepted twice: the hash has room for one of the two, and the
\* number of contents never meets the count.
Repeats ==
    \E s, t \in {u \in Submits : at[u] \notin {"NEW", "REFUSED"}} :
       s # t /\ message.pk[s] = message.pk[t]

(* An accepted part has a verdict or somebody still has it; the release of *)
(* its session, the expiry of the key and DEL lose nothing (handleRedisRsp,*)
(* mergeLongReleaseResource, mergeLongSetTimeout).  Disturbed messages and *)
(* those with a part accepted twice are excluded.                          *)
PartNotForgotten ==
    \A s \in Submits :
       at[s] # "REFUSED" /\ ~Disturbed /\ ~Repeats => Ended(s) \/ InHand(s)

(* A key of redis has a time to live, or the commands that give it one or  *)
(* delete it are on their way: nothing stays in redis for ever, unless the *)
(* message was disturbed (mergeLongSetTimeout, mergeLongDelRedisCache).    *)
KeyExpiresSometime ==
    Fields(hash) > 0 /\ hash.ttl = Nobody /\ ~Disturbed => Pending("EXPIRE") \/ Pending("DEL")

(* Every accepted part is sent with its message or reported as failed,     *)
(* unless one was repeated (mergeLongRedisRspGetShorts, mergeLongTimeout). *)
PartsEnd ==
    \A s \in Submits : at[s] = "COUNT" ~> Ended(s) \/ Disturbed \/ Repeats

(* A last part that asks again and again stops, even if a part it waits    *)
(* for was lost, unless the key it reads has no time to live               *)
(* (mergeLongRedisRspGetShorts, mergeLongSetTimeout).                      *)
PollingEnds ==
    \A s \in Submits :
       []<>(at[s] \notin {"READ", "RETRY"} \/ (Fields(hash) > 0 /\ hash.ttl = Nobody))
=============================================================================
